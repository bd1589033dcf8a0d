-------------------------- MODULE SearchFilesProofs --------------------------
(***************************************************************************)
(* For any tree of directories, any number of runs and worker threads, any *)
(* order of chunks, workers and idle callbacks, and any unreadable files:  *)
(* the counters of the search in files and of the open advanced agree with *)
(* what is in progress (Counts), and a search that says it is done has     *)
(* seen, and reported or opened, every file it could (DoneMeansAll).       *)
(***************************************************************************)
EXTENDS SearchFiles, AsyncQueueProofs

\* The queue of the jobs is one of AsyncQueue with as many slots as there are threads.
TP == INSTANCE AsyncQueueProofs WITH MaxWorknum <- MaxThreads
\* That of the documents has one.
DP == INSTANCE AsyncQueueProofs WITH MaxWorknum <- 1

\* The level a directory lies at
Depth == CHOOSE depth \in [Dirs -> 0 .. Cardinality(Dirs)] : IsDepth(depth)
\* What a search can meet, and what a Tfindfiles_dir is
Entries == Dirs \union Files
DirRecs == [search : Searches, dir : Dirs, recursion : Nat]

\* Every directory in memory waits for a slot or has one.
DirsInv ==
    /\ Serves(DirRecs, ffdqueue, dirs \ DOMAIN left, DOMAIN left)
    /\ DOMAIN left \subseteq dirs /\ IsFiniteSet(dirs)
    /\ ffdqueue.worknum <= MaxWorknum
    /\ left \in [DOMAIN left -> [opened : BOOLEAN, entries : SUBSET Entries]]
    /\ \A d \in DOMAIN left : left[d].entries \subseteq Tree[d.dir]

FoundInv ==
    /\ DOMAIN found \subseteq Searches
    /\ found \in [DOMAIN found -> [refcount : Nat, cancel : BOOLEAN]]
    /\ RefsMatch

\* What a search met it meets no second time: it is in the directory no more from which it
\* would be read.
MetOnce ==
    /\ seen \in [Searches -> SUBSET Entries]
    /\ \A f \in Searches : seen[f] # {} => Top \in seen[f]
    /\ \A d \in dirs : d.dir \in seen[d.search] /\ d.recursion = Depth[d.dir]
    /\ \A f \in Searches, p \in Dirs : \A e \in Tree[p] \intersect seen[f] :
         /\ p \in seen[f]
         /\ \A d \in dirs : d.search = f /\ d.dir = p =>
                                d \in DOMAIN left /\ e \notin left[d].entries

\* What a search that was not cancelled did not meet yet is still to come.
Whole(f) == f = OpenAdv \/ (f = s3run.run /\ ~s3run.cancelled)
ToCome(f, p, e) ==
    \E d \in dirs : d.search = f /\ d.dir = p /\ (d \in DOMAIN left => e \in left[d].entries)
CoveredOf(f) ==
    \A p \in seen[f] \intersect Dirs : \A e \in Tree[p] :
        e \in Files \/ Depth[p] < MaxDepth => e \in seen[f] \/ ToCome(f, p, e)
Covered == \A f \in Searches \ incomplete : Whole(f) => CoveredOf(f)

\* The invariant of FindFiles
FilesInv == DirsInv /\ FoundInv /\ MetOnce

\* The types of the variables
S3run == [alive : BOOLEAN, run : {0} \union Runs, cancelled : BOOLEAN, runcount : Int,
          findfiles : Nat, callback : {"threaded_all_ready", "dialog_changed_run_ready_cb"},
          findall : BOOLEAN, replaceall : BOOLEAN, buttons : BOOLEAN, idle_id : BOOLEAN,
          interrupted : BOOLEAN]

Types ==
    /\ s3run \in S3run
    /\ threadqueue \in [q : Seq(Jobs), worknum : Int]
    /\ ~s3run.cancelled => threadqueue \in TP!Queue(Jobs)
    /\ worker \in [DOMAIN worker -> [job : Jobs, pc : {"load", "search", "ready", "over"}]]
    /\ DOMAIN worker \subseteq 1 .. MaxThreads
    /\ idles \subseteq Jobs /\ IsFiniteSet(idles)
    /\ join \in [at : 0 .. MaxThreads,
                 after : {"none", "findall", "replaceall", "changed", "invalid", "close"}]
    /\ oa \in [refcount : Int, pending : SUBSET Files, opened : SUBSET Files]
    /\ ended \in BOOLEAN /\ disturbed \in BOOLEAN
    /\ reported \subseteq Files
    /\ incomplete \subseteq {OpenAdv} \union {g \in Runs : g <= s3run.run}

\* The workers are on the list, each once; the threads that run have the slots.
ThreadsInv ==
    /\ threads \in Seq(1 .. MaxThreads)
    /\ \A i, k \in 1 .. Len(threads) : threads[i] = threads[k] => i = k
    /\ {threads[i] : i \in 1 .. Len(threads)} = DOMAIN worker
    /\ ~s3run.cancelled => /\ TP!Settled(threadqueue)
                           /\ threadqueue.worknum = Cardinality(DOMAIN worker)
                           /\ \A t \in DOMAIN worker : worker[t].pc # "over"

\* The main loop waits for the first thread on the list; a handler goes on after its cancel.
JoinInv ==
    /\ join.after = "none" => join = NoJoin
    /\ join.after # "none" => s3run.cancelled /\ s3run.alive
    /\ join.after \in {"findall", "replaceall", "changed"} => s3run.run + 1 \in Runs
    /\ join.after # "none" /\ join.at = 0 => threads = <<>>
    /\ join.at # 0 => s3run.interrupted
    /\ join.at # 0 /\ misuse = {} => threads # <<>> /\ Head(threads) = join.at

\* The runs: at most one search is not cancelled, that of the last run.
RunsInv ==
    /\ ~s3run.alive => s3run.cancelled
    /\ s3run.findfiles <= s3run.run
    /\ s3run.findfiles # 0 => s3run.findfiles \in DOMAIN found \/ s3run.interrupted
    /\ ~s3run.cancelled /\ s3run.findfiles # 0 => s3run.findfiles = s3run.run
    /\ ~s3run.cancelled => (s3run.findfiles # 0 <=> s3run.run \in Runs \intersect DOMAIN found)
    /\ \A g \in Runs \intersect DOMAIN found :
         /\ g <= s3run.run
         /\ found[g].cancel <=> ~(g = s3run.run /\ ~s3run.cancelled)
         /\ found[g].cancel => s3run.interrupted
    /\ OpenAdv \in DOMAIN found => ~found[OpenAdv].cancel
    /\ s3run.run \in Runs => Top \in seen[s3run.run]
    /\ s3run.cancelled /\ idles # {} => s3run.interrupted
    /\ misuse # {} => s3run.interrupted

\* One document is searched and the others wait.  A cancel can still take back the callback
\* that idle_id names; after it the search of a document can only be one that it forgot.
DocsInv ==
    /\ DP!Serves(Jobs, idlequeue, Docs \ indoc, indoc)
    /\ idlequeue.worknum <= 1 /\ IsFiniteSet(Docs)
    /\ s3run.idle_id => indoc # {}
    /\ s3run.cancelled /\ indoc # {} => s3run.interrupted
    /\ \A job \in Docs : job[1] <= s3run.run /\ (job[1] = s3run.run => job[2] \in seen[s3run.run])

\* A file of the run that was met waits, is worked on, is about to be reported, is in a
\* document or was reported; and it is at one of these places.
Busy == {t \in DOMAIN worker : worker[t].pc \in {"load", "search"}}
Queued(job) == TP!Holds(threadqueue, job)
Worked(job) == \E t \in Busy : worker[t].job = job
JobsInv ==
    /\ \A job \in idles : job[1] <= s3run.run /\ (job[1] = s3run.run => job[2] \in seen[s3run.run])
    /\ ~s3run.cancelled =>
        /\ TP!Injective(threadqueue)
        /\ \A job \in Jobs : Queued(job) \/ Worked(job) =>
             job[1] = s3run.run /\ job[2] \in seen[s3run.run] /\ job \notin idles
        /\ \A job \in Jobs : ~(Queued(job) /\ Worked(job))
        /\ \A t, u \in Busy : worker[t].job = worker[u].job => t = u
        /\ s3run.run \in Runs =>
             \A f \in seen[s3run.run] \intersect Files :
                 LET job == <<s3run.run, f>> IN
                 f \in reported \/ Queued(job) \/ Worked(job) \/ job \in idles \/ job \in Docs

\* runcount is the search and the jobs in progress; the run has ended when it is 0.
CountInv ==
    ~s3run.cancelled /\ ~disturbed =>
        /\ s3run.runcount =
            (IF s3run.run \in Runs \intersect DOMAIN found THEN 1 ELSE 0)
            + Len(threadqueue.q) + Cardinality(Busy)
            + Cardinality({job \in idles : job[1] = s3run.run})
            + Cardinality({job \in Docs : job[1] = s3run.run})
        /\ ended => s3run.runcount = 0 /\ s3run.run \in Runs

\* The open advanced has a reference for its search and for each file whose filter is due.
OaInv ==
    /\ oa.refcount = Cardinality(oa.pending) + (IF OpenAdv \in DOMAIN found THEN 1 ELSE 0)
    /\ oa.pending \union oa.opened = seen[OpenAdv] \intersect Files

\* The inductive invariant
IInv == /\ FilesInv /\ Covered /\ Types /\ ThreadsInv /\ JoinInv /\ RunsInv /\ DocsInv
        /\ JobsInv /\ CountInv /\ OaInv

-----------------------------------------------------------------------------
(* The tree                                                                *)

\* How deep a directory lies: every one but the top has its parent one level above.
LEMMA DepthFacts ==
    /\ Depth \in [Dirs -> Nat]
    /\ Top \in Dirs /\ Depth[Top] = 0
    /\ \A d \in Dirs : \A e \in Tree[d] \intersect Dirs : Depth[e] = Depth[d] + 1
    /\ \A e \in Dirs \ {Top} : \E d \in Dirs : e \in Tree[d]
    /\ \A f \in Files : \E d \in Dirs : f \in Tree[d] /\ Depth[d] <= MaxDepth
    /\ \A d \in Dirs : Top \notin Tree[d]
<1>1. IsFiniteSet(Dirs)
  BY TreeAssumption
<1>2. Cardinality(Dirs) \in Nat
  BY <1>1, FS_CardinalityType
<1>3. Depth \in [Dirs -> 0 .. Cardinality(Dirs)] /\ IsDepth(Depth)
  BY TopAssumption DEF Depth
<1>4. Depth \in [Dirs -> Nat]
  BY <1>2, <1>3
<1>5. Top \in Dirs /\ Depth[Top] = 0
  BY <1>3, TopAssumption DEF IsDepth
<1>6. ASSUME NEW d \in Dirs, Top \in Tree[d]
      PROVE  FALSE
  <2>1. Depth[Top] = Depth[d] + 1 /\ Depth[d] \in Nat
    BY <1>3, <1>4, <1>5, <1>6 DEF IsDepth
  <2>. QED BY <2>1, <1>5
<1>. QED BY <1>3, <1>4, <1>5, <1>6 DEF IsDepth

\* A directory and a file are in one directory only.
LEMMA TreeFacts ==
    /\ IsFiniteSet(Dirs) /\ IsFiniteSet(Files) /\ Dirs \intersect Files = {}
    /\ \A d \in Dirs : Tree[d] \subseteq Entries
    /\ \A d, e \in Dirs : d # e => Tree[d] \intersect Tree[e] = {}
BY TreeAssumption DEF Entries

\* The searches are those of the runs and that of the open advanced.
LEMMA SearchFacts ==
    /\ OpenAdv \in Searches /\ OpenAdv \notin Runs
    /\ Runs \subseteq Searches /\ Runs \subseteq Nat
    /\ Searches = Runs \union {OpenAdv} /\ Searches \subseteq Nat
BY RunsAssumption DEF OpenAdv

-----------------------------------------------------------------------------
(* The directories                                                         *)

\* A queue that gives one directory a slot, or none.
LEMMA RunDirsLeft ==
    ASSUME NEW Q, NEW lf, RunDirs(Q, lf)
    PROVE  /\ DOMAIN left' = Started(Q) \union DOMAIN lf
           /\ ffdqueue' = Run(Q)
           /\ \A e \in DOMAIN lf : left'[e] = lf[e]
           /\ \A e \in Started(Q) \ DOMAIN lf : left'[e] = [opened |-> FALSE, entries |-> Tree[e.dir]]
BY DEF RunDirs

\* found is the set of the searches that have a directory.
LEMMA FoundDomain ==
    ASSUME FoundInv, IsFiniteSet(dirs)
    PROVE  \A g : g \in DOMAIN found <=> \E d \in dirs : d.search = g
<1>1. \A d \in dirs : d.search \in DOMAIN found
  BY DEF FoundInv, RefsMatch
<1>2. ASSUME NEW g \in DOMAIN found
      PROVE  \E d \in dirs : d.search = g
  <2>1. Cardinality(Of(g)) > 0
    BY <1>2 DEF FoundInv, RefsMatch
  <2>2. Of(g) # {}
    BY <2>1, FS_EmptySet
  <2>. QED BY <2>2 DEF Of
<1>. QED BY <1>1, <1>2

\* The references that remain when some directories are freed.
LEMMA UnrefFound ==
    ASSUME FoundInv, IsFiniteSet(dirs),
           NEW ds, ds \subseteq dirs, dirs' = dirs \ ds,
           DOMAIN found' = DOMAIN Unref(ds),
           found' \in [DOMAIN found' -> [refcount : Int, cancel : BOOLEAN]],
           \A g \in DOMAIN found' : found'[g].refcount = Unref(ds)[g].refcount
    PROVE  /\ FoundInv'
           /\ DOMAIN found' \subseteq DOMAIN found
<1>. DEFINE Gone(g) == {d \in ds : d.search = g}
            dec(g) == found[g].refcount - Cardinality(Gone(g))
<1>1. Unref(ds) = [g \in {h \in DOMAIN found : dec(h) > 0} |->
                     [refcount |-> dec(g), cancel |-> found[g].cancel]]
  BY DEF Unref
<1>2. DOMAIN found' = {h \in DOMAIN found : dec(h) > 0}
  BY <1>1
<1>3. \A g \in DOMAIN found' : found'[g].refcount = dec(g)
  BY <1>1, <1>2
<1>4. ASSUME NEW g \in DOMAIN found
      PROVE  /\ IsFiniteSet(Of(g)') /\ Cardinality(Of(g)') \in Nat
             /\ dec(g) = Cardinality(Of(g)')
             /\ Of(g)' = {d \in dirs \ ds : d.search = g}
  <2>1. Of(g)' = Of(g) \ Gone(g) /\ Gone(g) \subseteq Of(g)
    BY DEF Of
  <2>2. IsFiniteSet(Of(g)) /\ IsFiniteSet(Gone(g)) /\ IsFiniteSet(Of(g)')
    BY <2>1, FS_Subset DEF Of
  <2>3. Cardinality(Of(g)') = Cardinality(Of(g)) - Cardinality(Of(g) \intersect Gone(g))
    BY <2>1, <2>2, FS_Difference
  <2>4. Of(g) \intersect Gone(g) = Gone(g)
    BY <2>1
  <2>5. found[g].refcount = Cardinality(Of(g))
    BY <1>4 DEF FoundInv, RefsMatch
  <2>6. Cardinality(Of(g)') \in Nat
    BY <2>2, FS_CardinalityType
  <2>. QED BY <2>1, <2>2, <2>3, <2>4, <2>5, <2>6 DEF Of
<1>5. \A g \in DOMAIN found' : found'[g].refcount = Cardinality(Of(g)') /\ found'[g].refcount > 0
  BY <1>2, <1>3, <1>4
<1>6. ASSUME NEW d \in dirs'
      PROVE  d.search \in DOMAIN found'
  <2>. DEFINE g == d.search
  <2>1. g \in DOMAIN found
    BY <1>6 DEF FoundInv, RefsMatch
  <2>2. d \in Of(g)'
    BY <1>6 DEF Of
  <2>3. Cardinality(Of(g)') # 0
    BY <2>1, <2>2, <1>4, FS_EmptySet
  <2>. QED BY <2>1, <2>3, <1>2, <1>4
<1>7. RefsMatch'
  BY <1>5, <1>6 DEF RefsMatch
<1>8. \A g \in DOMAIN found' : found'[g] \in [refcount : Nat, cancel : BOOLEAN]
  BY <1>2, <1>4, <1>5
<1>9. found' \in [DOMAIN found' -> [refcount : Nat, cancel : BOOLEAN]]
  BY <1>8
<1>10. DOMAIN found' \subseteq DOMAIN found
  BY <1>2
<1>. QED BY <1>7, <1>9, <1>10 DEF FoundInv

-----------------------------------------------------------------------------
(* The queue of directories                                                *)

\* A directory has the slot it had, or waits or gets one with all its entries.
KeepsLeft ==
    \A e \in dirs \intersect dirs' :
        /\ e \in DOMAIN left => e \in DOMAIN left' /\ left'[e].entries = left[e].entries
        /\ e \in DOMAIN left' \ DOMAIN left => left'[e].entries = Tree[e.dir]

\* The entries to come of a directory
Lefts == [opened : BOOLEAN, entries : SUBSET Entries]

\* findfiles_rundir of the directories that queue_run takes: the queue serves them.
LEMMA RunDirsInv ==
    ASSUME NEW Q, NEW lf, NEW D, DOMAIN lf = D, RunDirs(Q, lf),
           NEW new, new = Started(Q), new \intersect D = {},
           Serves(DirRecs, Run(Q), dirs' \ (D \union new), D \union new),
           Run(Q).worknum <= MaxWorknum,
           D \union new \subseteq dirs', dirs' \subseteq DirRecs, IsFiniteSet(dirs'),
           \A e \in D : lf[e] \in Lefts /\ lf[e].entries \subseteq Tree[e.dir]
    PROVE  DirsInv' /\ DOMAIN left' = D \union new
<1>1. /\ DOMAIN left' = D \union new
      /\ ffdqueue' = Run(Q)
      /\ \A e \in D : left'[e] = lf[e]
      /\ \A e \in new : left'[e] = [opened |-> FALSE, entries |-> Tree[e.dir]]
  <2>1. /\ DOMAIN left' = Started(Q) \union DOMAIN lf
        /\ ffdqueue' = Run(Q)
        /\ \A e \in DOMAIN lf : left'[e] = lf[e]
        /\ \A e \in Started(Q) \ DOMAIN lf : left'[e] = [opened |-> FALSE, entries |-> Tree[e.dir]]
    BY RunDirsLeft
  <2>2. \A e \in new : e \in Started(Q) \ DOMAIN lf
    OBVIOUS
  <2>. QED BY <2>1, <2>2
<1>2. \A e \in new : e.dir \in Dirs
  BY DEF DirRecs
<1>3. ASSUME NEW e \in new
      PROVE  left'[e] \in Lefts /\ left'[e].entries \subseteq Tree[e.dir]
  <2>1. Tree[e.dir] \in SUBSET Entries
    BY <1>2, TreeFacts
  <2>2. left'[e] = [opened |-> FALSE, entries |-> Tree[e.dir]]
    BY <1>1, <1>3
  <2>3. left'[e] \in Lefts
    BY <2>1, <2>2 DEF Lefts
  <2>. QED BY <2>2, <2>3
<1>4. \A e \in DOMAIN left' : left'[e] \in Lefts /\ left'[e].entries \subseteq Tree[e.dir]
  BY <1>1, <1>3
<1>5. left' = [e \in DOMAIN left' |-> left'[e]]
  BY <1>1 DEF RunDirs
<1>6. left' \in [DOMAIN left' -> Lefts]
  BY <1>4, <1>5
<1>7. Serves(DirRecs, ffdqueue', dirs' \ DOMAIN left', DOMAIN left') /\ ffdqueue'.worknum <= MaxWorknum
  BY <1>1
<1>8. DOMAIN left' \subseteq dirs'
  BY <1>1
<1>. QED BY <1>1, <1>4, <1>6, <1>7, <1>8 DEF DirsInv, Lefts

\* findfiles_load_directory_cleanup
LEMMA CleanupDirs ==
    ASSUME FilesInv, NEW d \in DOMAIN left, Cleanup(d)
    PROVE  DirsInv' /\ KeepsLeft /\ dirs' = dirs \ {d}
<1>. DEFINE waits == dirs \ DOMAIN left
            works == DOMAIN left
            D == DOMAIN left \ {d}
            lf == [e \in D |-> left[e]]
            Q == WorkerReady(ffdqueue)
            new == Started(Q)
<1>1. /\ Serves(DirRecs, ffdqueue, waits, works)
      /\ works \subseteq dirs /\ IsFiniteSet(dirs)
      /\ ffdqueue.worknum <= MaxWorknum
      /\ \A e \in works : left[e] \in Lefts /\ left[e].entries \subseteq Tree[e.dir]
  BY DEF FilesInv, DirsInv, Lefts
<1>2. dirs' = dirs \ {d} /\ RunDirs(Q, lf) /\ DOMAIN lf = D
  BY DEF Cleanup
<1>3. IsFiniteSet(dirs') /\ dirs' \subseteq DirRecs
  BY <1>1, <1>2, FS_Subset DEF Serves
<1>4. Run(Q).worknum <= MaxWorknum
  BY <1>1, ReadyBound
<1>5. waits \intersect works = {} /\ d \in works
  OBVIOUS
<1>6. \/ \E t \in waits : /\ new = {t}
                          /\ Serves(DirRecs, Run(Q), waits \ {t}, D \union {t})
      \/ new = {} /\ Serves(DirRecs, Run(Q), waits, D)
  BY <1>1, <1>5, ReadyServes
<1>7. /\ new \subseteq waits
      /\ Serves(DirRecs, Run(Q), waits \ new, D \union new)
  <2>1. CASE new = {} /\ Serves(DirRecs, Run(Q), waits, D)
    <3>1. waits \ new = waits /\ D \union new = D
      BY <2>1
    <3>. QED BY <2>1, <3>1
  <2>2. CASE \E t \in waits : /\ new = {t}
                              /\ Serves(DirRecs, Run(Q), waits \ {t}, D \union {t})
    BY <2>2
  <2>. QED BY <1>6, <2>1, <2>2
<1>8. dirs' \ (D \union new) = waits \ new /\ D \union new \subseteq dirs' /\ new \intersect D = {}
  BY <1>1, <1>2, <1>7
<1>9. \A e \in D : lf[e] \in Lefts /\ lf[e].entries \subseteq Tree[e.dir]
  BY <1>1
<1>10. Serves(DirRecs, Run(Q), dirs' \ (D \union new), D \union new)
  BY <1>7, <1>8
<1>11. DirsInv' /\ DOMAIN left' = D \union new
  <2>1. D \union new \subseteq dirs' /\ new \intersect D = {} /\ new = Started(Q)
    BY <1>8
  <2>2. DOMAIN lf = D /\ RunDirs(Q, lf)
    BY <1>2
  <2>. HIDE DEF Q, lf, D, new
  <2>. QED BY <1>3, <1>4, <1>9, <1>10, <2>1, <2>2, RunDirsInv
<1>12. KeepsLeft
  <2>1. /\ \A e \in D : left'[e] = lf[e]
        /\ \A e \in new \ D : left'[e] = [opened |-> FALSE, entries |-> Tree[e.dir]]
    <3>. HIDE DEF Q, lf
    <3>1. /\ \A e \in DOMAIN lf : left'[e] = lf[e]
          /\ \A e \in Started(Q) \ DOMAIN lf : left'[e] = [opened |-> FALSE, entries |-> Tree[e.dir]]
      BY <1>2, RunDirsLeft
    <3>. QED BY <1>2, <3>1
  <2>. QED BY <2>1, <1>2, <1>8, <1>11 DEF KeepsLeft
<1>. QED BY <1>2, <1>11, <1>12

\* findfiles_backend
LEMMA PushDirs ==
    ASSUME FilesInv, NEW d \in DirRecs, d \notin dirs, dirs' = dirs \union {d},
           NEW lf, DOMAIN lf = DOMAIN left, RunDirs(Push(ffdqueue, d), lf),
           \A e \in DOMAIN lf : lf[e] \in Lefts /\ lf[e].entries \subseteq Tree[e.dir]
    PROVE  /\ DirsInv'
           /\ DOMAIN left \subseteq DOMAIN left' /\ DOMAIN left' \subseteq DOMAIN left \union {d}
           /\ \A e \in DOMAIN left : left'[e] = lf[e]
           /\ d \in DOMAIN left' => left'[d].entries = Tree[d.dir]
<1>. DEFINE waits == dirs \ DOMAIN left
            D == DOMAIN left
            Q == Push(ffdqueue, d)
            new == Started(Q)
<1>1. /\ Serves(DirRecs, ffdqueue, waits, D)
      /\ D \subseteq dirs /\ IsFiniteSet(dirs)
      /\ ffdqueue.worknum <= MaxWorknum
  BY DEF FilesInv, DirsInv
<1>2. IsFiniteSet(dirs') /\ dirs' \subseteq DirRecs
  BY <1>1, FS_AddElement DEF Serves
<1>3. d \notin waits /\ d \notin D
  BY <1>1
<1>4. Run(Q).worknum <= MaxWorknum
  BY <1>1, <1>3, PushBound
<1>5. \/ new = {d} /\ Serves(DirRecs, Run(Q), waits, D \union {d})
      \/ new = {} /\ Serves(DirRecs, Run(Q), waits \union {d}, D)
  BY <1>1, <1>3, PushServes
<1>6. /\ new \subseteq {d}
      /\ Serves(DirRecs, Run(Q), dirs' \ (D \union new), D \union new)
  <2>1. CASE new = {d} /\ Serves(DirRecs, Run(Q), waits, D \union {d})
    <3>1. dirs' \ (D \union new) = waits /\ D \union new = D \union {d}
      BY <2>1, <1>1, <1>3
    <3>. QED BY <2>1, <3>1
  <2>2. CASE new = {} /\ Serves(DirRecs, Run(Q), waits \union {d}, D)
    <3>1. dirs' \ (D \union new) = waits \union {d} /\ D \union new = D
      BY <2>2, <1>1, <1>3
    <3>. QED BY <2>2, <3>1
  <2>. QED BY <1>5, <2>1, <2>2
<1>7. D \union new \subseteq dirs' /\ new \intersect D = {}
  BY <1>1, <1>3, <1>6
<1>8. DOMAIN lf = D /\ RunDirs(Q, lf)
  OBVIOUS
<1>9. DirsInv' /\ DOMAIN left' = D \union new
  <2>1. \A e \in D : lf[e] \in Lefts /\ lf[e].entries \subseteq Tree[e.dir]
    OBVIOUS
  <2>. HIDE DEF Q, D
  <2>. QED BY <1>2, <1>4, <1>6, <1>7, <1>8, <2>1, RunDirsInv, ZenonT(60)
<1>10. /\ \A e \in D : left'[e] = lf[e]
       /\ \A e \in new \ D : left'[e] = [opened |-> FALSE, entries |-> Tree[e.dir]]
  <2>0. RunDirs(Q, lf)
    OBVIOUS
  <2>. HIDE DEF Q
  <2>1. /\ \A e \in DOMAIN lf : left'[e] = lf[e]
        /\ \A e \in Started(Q) \ DOMAIN lf : left'[e] = [opened |-> FALSE, entries |-> Tree[e.dir]]
    BY <2>0 DEF RunDirs
  <2>. QED BY <1>8, <2>1
<1>11. d \in DOMAIN left' => left'[d].entries = Tree[d.dir]
  BY <1>3, <1>9, <1>10
<1>. QED BY <1>6, <1>9, <1>10, <1>11

\* The directories that wait.
LEMMA WaitingFacts ==
    ASSUME DirsInv
    PROVE  waiting = dirs \ DOMAIN left /\ dirs \subseteq DirRecs
<1>1. /\ ffdqueue \in Queue(DirRecs)
      /\ dirs \ DOMAIN left \subseteq DirRecs /\ DOMAIN left \subseteq DirRecs
      /\ \A d \in DirRecs : Holds(ffdqueue, d) <=> d \in dirs \ DOMAIN left
  BY DEF DirsInv, Serves
<1>2. ffdqueue.q \in Seq(DirRecs)
  BY <1>1, QueueParts
<1>3. waiting = {ffdqueue.q[i] : i \in 1 .. Len(ffdqueue.q)}
  BY <1>2 DEF waiting
<1>4. waiting \subseteq DirRecs
  BY <1>2, <1>3
<1>5. \A d : d \in waiting <=> Holds(ffdqueue, d)
  BY <1>3 DEF Holds
<1>. QED BY <1>1, <1>4, <1>5

\* What was met stays met when directories are freed.
LEMMA MetKept ==
    ASSUME FilesInv, KeepsLeft, seen' = seen, dirs' \subseteq dirs
    PROVE  MetOnce'
<1>1. \A e \in dirs' :
        e \in DOMAIN left => e \in DOMAIN left' /\ left'[e].entries = left[e].entries
  BY DEF KeepsLeft
<1>2. ASSUME NEW f \in Searches, NEW p \in Dirs, NEW e \in Tree[p] \intersect seen'[f]
      PROVE  /\ p \in seen'[f]
             /\ \A d \in dirs' : d.search = f /\ d.dir = p =>
                                    d \in DOMAIN left' /\ e \notin left'[d].entries
  <2>1. /\ p \in seen[f]
        /\ \A d \in dirs : d.search = f /\ d.dir = p =>
                               d \in DOMAIN left /\ e \notin left[d].entries
    BY <1>2 DEF FilesInv, MetOnce
  <2>. QED BY <1>1, <2>1
<1>3. /\ seen' \in [Searches -> SUBSET Entries]
      /\ \A f \in Searches : seen'[f] # {} => Top \in seen'[f]
      /\ \A d \in dirs' : d.dir \in seen'[d.search] /\ d.recursion = Depth[d.dir]
  BY DEF FilesInv, MetOnce
<1>. QED BY <1>2, <1>3 DEF MetOnce

\* findfiles_load_directory_cleanup: the search keeps its other directories, or goes.
LEMMA CleanupFiles ==
    ASSUME FilesInv, NEW d \in DOMAIN left, Cleanup(d), seen' = seen
    PROVE  /\ FilesInv' /\ KeepsLeft /\ dirs' = dirs \ {d}
           /\ DOMAIN found' \subseteq DOMAIN found
           /\ \A g \in DOMAIN found' : found'[g].cancel = found[g].cancel
<1>1. DirsInv' /\ KeepsLeft /\ dirs' = dirs \ {d}
  BY CleanupDirs
<1>2. d \in dirs /\ IsFiniteSet(dirs) /\ FoundInv
  BY DEF FilesInv, DirsInv
<1>3. found' = Unref({d})
  BY DEF Cleanup
<1>. DEFINE dec(g) == found[g].refcount - Cardinality({e \in {d} : e.search = g})
<1>4. found' = [g \in {h \in DOMAIN found : dec(h) > 0} |->
                     [refcount |-> dec(g), cancel |-> found[g].cancel]]
  BY <1>3 DEF Unref
<1>5. ASSUME NEW g \in DOMAIN found
      PROVE  dec(g) \in Int /\ found[g].cancel \in BOOLEAN
  <2>1. IsFiniteSet({e \in {d} : e.search = g})
    BY FS_Singleton, FS_Subset
  <2>2. Cardinality({e \in {d} : e.search = g}) \in Nat
    BY <2>1, FS_CardinalityType
  <2>3. found[g].refcount \in Nat /\ found[g].cancel \in BOOLEAN
    BY <1>2, <1>5 DEF FoundInv
  <2>. QED BY <2>2, <2>3
<1>6. found' \in [DOMAIN found' -> [refcount : Int, cancel : BOOLEAN]]
  BY <1>4, <1>5
<1>7. \A g \in DOMAIN found' : found'[g].cancel = found[g].cancel
  BY <1>4
<1>8. FoundInv' /\ DOMAIN found' \subseteq DOMAIN found
  <2>1. {d} \subseteq dirs /\ dirs' = dirs \ {d}
    BY <1>1, <1>2
  <2>2. DOMAIN found' = DOMAIN Unref({d}) /\ \A g \in DOMAIN found' : found'[g].refcount = Unref({d})[g].refcount
    BY <1>3
  <2>. QED BY <1>2, <1>6, <2>1, <2>2, UnrefFound
<1>9. MetOnce'
  BY <1>1, MetKept
<1>. QED BY <1>1, <1>7, <1>8, <1>9 DEF FilesInv

\* A directory that was opened.
LEMMA OpenedFiles ==
    ASSUME FilesInv, NEW d \in DOMAIN left, UNCHANGED <<ffdqueue, found, dirs, seen>>,
           left' = [left EXCEPT ![d] = [opened |-> TRUE, entries |-> left[d].entries]]
    PROVE  FilesInv' /\ KeepsLeft
<1>1. DOMAIN left' = DOMAIN left /\ \A e \in DOMAIN left : left'[e].entries = left[e].entries
  OBVIOUS
<1>2. KeepsLeft
  BY <1>1 DEF KeepsLeft
<1>3. left \in [DOMAIN left -> Lefts]
  BY DEF FilesInv, DirsInv, Lefts
<1>4. [opened |-> TRUE, entries |-> left[d].entries] \in Lefts
  BY <1>3 DEF Lefts
<1>5. left' \in [DOMAIN left' -> Lefts]
  BY <1>3, <1>4
<1>6. DirsInv'
  BY <1>1, <1>5 DEF FilesInv, DirsInv, Lefts
<1>7. FoundInv'
  BY DEF FilesInv, FoundInv, RefsMatch, Of
<1>8. MetOnce'
  BY <1>2, MetKept
<1>. QED BY <1>2, <1>6, <1>7, <1>8 DEF FilesInv

\* findfiles_cancel: every directory that waits goes.
LEMMA CancelFiles ==
    ASSUME FilesInv, NEW f, FindFilesCancel(f)
    PROVE  /\ FilesInv' /\ KeepsLeft /\ dirs' = dirs \ waiting
           /\ DOMAIN found' \subseteq DOMAIN found
           /\ \A g \in DOMAIN found' : found'[g].cancel = (found[g].cancel \/ g = f)
<1>1. /\ dirs' = dirs \ waiting /\ left' = left /\ seen' = seen
      /\ ffdqueue' = [q |-> << >>, worknum |-> ffdqueue.worknum]
  BY DEF FindFilesCancel, Cancelled
<1>2. waiting = dirs \ DOMAIN left /\ dirs \subseteq DirRecs
  BY WaitingFacts DEF FilesInv
<1>3. IsFiniteSet(dirs) /\ FoundInv /\ DOMAIN left \subseteq dirs
  BY DEF FilesInv, DirsInv
<1>. DEFINE dec(g) == found[g].refcount - Cardinality({e \in waiting : e.search = g})
<1>4. Unref(waiting) = [g \in {h \in DOMAIN found : dec(h) > 0} |->
                     [refcount |-> dec(g), cancel |-> found[g].cancel]]
  BY DEF Unref
<1>5. found' = [g \in {h \in DOMAIN found : dec(h) > 0} |->
                     [refcount |-> dec(g), cancel |-> found[g].cancel \/ g = f]]
  BY <1>4 DEF FindFilesCancel
<1>6. ASSUME NEW g \in DOMAIN found
      PROVE  dec(g) \in Int /\ found[g].cancel \in BOOLEAN
  <2>1. IsFiniteSet(waiting) /\ IsFiniteSet({e \in waiting : e.search = g})
    BY <1>2, <1>3, FS_Subset
  <2>2. Cardinality({e \in waiting : e.search = g}) \in Nat
    BY <2>1, FS_CardinalityType
  <2>3. found[g].refcount \in Nat /\ found[g].cancel \in BOOLEAN
    BY <1>3, <1>6 DEF FoundInv
  <2>. QED BY <2>2, <2>3
<1>7. found' \in [DOMAIN found' -> [refcount : Int, cancel : BOOLEAN]]
  BY <1>5, <1>6
<1>8. \A g \in DOMAIN found' : found'[g].cancel = (found[g].cancel \/ g = f)
  BY <1>5
<1>9. FoundInv' /\ DOMAIN found' \subseteq DOMAIN found
  <2>1. waiting \subseteq dirs
    BY <1>2
  <2>2. DOMAIN found' = DOMAIN Unref(waiting) /\ \A g \in DOMAIN found' : found'[g].refcount = Unref(waiting)[g].refcount
    BY <1>4, <1>5
  <2>. QED BY <1>1, <1>3, <1>7, <2>1, <2>2, UnrefFound
<1>10. KeepsLeft
  BY <1>1 DEF KeepsLeft
<1>11. MetOnce'
  BY <1>1, <1>10, MetKept
<1>12. DirsInv'
  <2>1. dirs' = DOMAIN left /\ dirs' \ DOMAIN left' = {} /\ IsFiniteSet(dirs')
    BY <1>1, <1>2, <1>3, FS_Subset
  <2>2. /\ ffdqueue \in Queue(DirRecs) /\ DOMAIN left \subseteq DirRecs
        /\ IsFiniteSet(DOMAIN left) /\ ffdqueue.worknum = Cardinality(DOMAIN left)
        /\ ffdqueue.worknum <= MaxWorknum
    BY DEF FilesInv, DirsInv, Serves
  <2>3. /\ ffdqueue' \in Queue(DirRecs)
        /\ Settled(ffdqueue)' /\ Injective(ffdqueue)'
        /\ \A s : ~ Holds(ffdqueue, s)'
    BY <1>1, <2>2 DEF Queue, Settled, Injective, Holds
  <2>4. ffdqueue'.worknum = ffdqueue.worknum
    BY <1>1
  <2>5. Serves(DirRecs, ffdqueue', dirs' \ DOMAIN left', DOMAIN left')
    BY <1>1, <2>1, <2>2, <2>3, <2>4 DEF Serves, Settled, Injective, Holds
  <2>. QED BY <1>1, <2>1, <2>2, <2>4, <2>5 DEF FilesInv, DirsInv
<1>. QED BY <1>1, <1>8, <1>9, <1>10, <1>11, <1>12 DEF FilesInv

\* findfiles: a search that is not in memory begins anew.
LEMMA BeginFiles ==
    ASSUME FilesInv, NEW f \in Searches, FindFiles(f, Top)
    PROVE  LET top == Dir(f, Top, 0) IN
           /\ FilesInv' /\ KeepsLeft
           /\ f \notin DOMAIN found
           /\ DOMAIN found' = DOMAIN found \union {f}
           /\ dirs' = dirs \union {top} /\ top \notin dirs
           /\ seen' = [seen EXCEPT ![f] = {Top}]
           /\ \A g \in DOMAIN found : found'[g] = found[g]
           /\ ~found'[f].cancel
           /\ top \in DOMAIN left' => left'[top].entries = Tree[Top]
<1>. DEFINE top == Dir(f, Top, 0)
<1>1. /\ f \notin DOMAIN found
      /\ found' = [g \in DOMAIN found \union {f} |->
                     IF g = f THEN [refcount |-> 1, cancel |-> FALSE] ELSE found[g]]
      /\ dirs' = dirs \union {top}
      /\ seen' = [seen EXCEPT ![f] = {Top}]
      /\ RunDirs(Push(ffdqueue, top), left)
  BY DEF FindFiles
<1>2. \A d \in dirs : d.search # f
  BY <1>1 DEF FilesInv, FoundInv, RefsMatch
<1>3. top \in DirRecs /\ top.search = f /\ top.dir = Top /\ top.recursion = 0
  BY DepthFacts DEF Dir, DirRecs
<1>4. top \notin dirs
  BY <1>2, <1>3
<1>5. DirsInv /\ FoundInv /\ MetOnce /\ IsFiniteSet(dirs) /\ DOMAIN left \subseteq dirs
  BY DEF FilesInv, DirsInv
<1>6. \A e \in DOMAIN left : left[e] \in Lefts /\ left[e].entries \subseteq Tree[e.dir]
  BY <1>5 DEF DirsInv, Lefts
<1>7. /\ DirsInv'
      /\ DOMAIN left \subseteq DOMAIN left' /\ DOMAIN left' \subseteq DOMAIN left \union {top}
      /\ \A e \in DOMAIN left : left'[e] = left[e]
      /\ top \in DOMAIN left' => left'[top].entries = Tree[Top]
  <2>. HIDE DEF top
  <2>1. top \in DOMAIN left' => left'[top].entries = Tree[top.dir]
    BY <1>1, <1>3, <1>4, <1>6, PushDirs
  <2>. QED BY <1>1, <1>3, <1>4, <1>6, <2>1, PushDirs
<1>8. KeepsLeft
  BY <1>1, <1>4, <1>7 DEF KeepsLeft
<1>9. DOMAIN found' = DOMAIN found \union {f} /\ \A g \in DOMAIN found : found'[g] = found[g]
  BY <1>1
<1>10. found'[f] = [refcount |-> 1, cancel |-> FALSE]
  BY <1>1
<1>11. FoundInv'
  <2>1. \A g \in DOMAIN found : g # f /\ Of(g)' = Of(g)
    BY <1>1, <1>3 DEF Of
  <2>2. Of(f)' = {top} /\ Cardinality(Of(f)') = 1
    <3>1. Of(f)' = {top}
      BY <1>1, <1>2, <1>3 DEF Of
    <3>. QED BY <3>1, FS_Singleton
  <2>3. \A g \in DOMAIN found' : found'[g].refcount = Cardinality(Of(g)') /\ found'[g].refcount > 0
    <3>1. \A g \in DOMAIN found : found'[g].refcount = Cardinality(Of(g)') /\ found'[g].refcount > 0
      BY <1>5, <1>9, <2>1 DEF FoundInv, RefsMatch
    <3>2. found'[f].refcount = Cardinality(Of(f)') /\ found'[f].refcount > 0
      BY <1>10, <2>2
    <3>. QED BY <1>9, <3>1, <3>2
  <2>4. \A d \in dirs' : d.search \in DOMAIN found'
    BY <1>1, <1>3, <1>5, <1>9 DEF FoundInv, RefsMatch
  <2>5. RefsMatch'
    BY <2>3, <2>4 DEF RefsMatch
  <2>6. \A g \in DOMAIN found' : found'[g] \in [refcount : Nat, cancel : BOOLEAN]
    <3>1. \A g \in DOMAIN found : found'[g] \in [refcount : Nat, cancel : BOOLEAN]
      BY <1>5, <1>9 DEF FoundInv
    <3>2. found'[f] \in [refcount : Nat, cancel : BOOLEAN]
      BY <1>10
    <3>. QED BY <1>9, <3>1, <3>2
  <2>7. found' \in [DOMAIN found' -> [refcount : Nat, cancel : BOOLEAN]]
    BY <1>1, <2>6
  <2>8. DOMAIN found' \subseteq Searches
    BY <1>5, <1>9 DEF FoundInv
  <2>. QED BY <2>5, <2>7, <2>8 DEF FoundInv
<1>12. MetOnce'
  <2>1. seen \in [Searches -> SUBSET Entries] /\ Top \in Entries
    BY <1>5, DepthFacts DEF MetOnce, Entries
  <2>2. seen' \in [Searches -> SUBSET Entries]
    BY <1>1, <2>1
  <2>3. /\ seen'[f] = {Top}
        /\ \A g \in Searches : g # f => seen'[g] = seen[g]
    BY <1>1, <2>1
  <2>4. \A g \in Searches : seen'[g] # {} => Top \in seen'[g]
    BY <1>5, <2>3 DEF MetOnce
  <2>5. \A d \in dirs' : d.dir \in seen'[d.search] /\ d.recursion = Depth[d.dir]
    <3>1. \A d \in dirs : d.search # f /\ d.search \in Searches
      BY <1>2, <1>5 DEF FoundInv, RefsMatch
    <3>. QED BY <1>1, <1>3, <1>5, <2>3, <3>1, DepthFacts DEF MetOnce
  <2>6. ASSUME NEW g \in Searches, NEW p \in Dirs, NEW e \in Tree[p] \intersect seen'[g]
        PROVE  /\ p \in seen'[g]
               /\ \A d \in dirs' : d.search = g /\ d.dir = p =>
                                      d \in DOMAIN left' /\ e \notin left'[d].entries
    <3>1. g # f
      BY <2>3, <2>6, DepthFacts
    <3>2. /\ p \in seen[g]
          /\ \A d \in dirs : d.search = g /\ d.dir = p =>
                                 d \in DOMAIN left /\ e \notin left[d].entries
      BY <1>5, <2>3, <2>6, <3>1 DEF MetOnce
    <3>. QED BY <1>1, <1>3, <1>7, <2>3, <3>1, <3>2
  <2>. QED BY <2>2, <2>4, <2>5, <2>6 DEF MetOnce
<1>. QED BY <1>1, <1>4, <1>7, <1>8, <1>9, <1>10, <1>11, <1>12 DEF FilesInv

\* An entry that a search meets.
Meets(d, e) == e \in Files \/ d.recursion < MaxDepth

\* A directory in memory is that of its name.
LEMMA NotMetTwice ==
    ASSUME FilesInv, NEW d \in DOMAIN left, NEW e \in left[d].entries
    PROVE  /\ d \in dirs /\ d.search \in Searches /\ d.dir \in Dirs /\ d.recursion \in Nat
           /\ d.recursion = Depth[d.dir]
           /\ e \in Tree[d.dir] /\ e \in Entries /\ e \notin seen[d.search]
           /\ d.dir \in seen[d.search]
           /\ \A c \in dirs : c.search = d.search => c.dir # e
           /\ \A c \in dirs : c.search = d.search /\ c.dir = d.dir => c = d
           /\ d.search \in DOMAIN found
<1>1. d \in DirRecs /\ d \in dirs /\ e \in Tree[d.dir] /\ dirs \subseteq DirRecs
  BY WaitingFacts DEF FilesInv, DirsInv
<1>2. d.search \in Searches /\ d.dir \in Dirs /\ d.recursion \in Nat
  BY <1>1 DEF DirRecs
<1>3. d.recursion = Depth[d.dir] /\ d.dir \in seen[d.search]
  BY <1>1 DEF FilesInv, MetOnce
<1>4. e \notin seen[d.search]
  <2>1. ASSUME e \in seen[d.search]
        PROVE  FALSE
    <3>1. e \in Tree[d.dir] \intersect seen[d.search]
      BY <1>1, <2>1
    <3>2. e \notin left[d].entries
      BY <1>1, <1>2, <3>1 DEF FilesInv, MetOnce
    <3>. QED BY <3>2
  <2>. QED BY <2>1
<1>5. \A c \in dirs : c.search = d.search => c.dir # e
  BY <1>4 DEF FilesInv, MetOnce
<1>6. ASSUME NEW c \in dirs, c.search = d.search, c.dir = d.dir
      PROVE  c = d
  <2>1. c \in DirRecs /\ c.recursion = d.recursion
    BY <1>1, <1>3, <1>6 DEF FilesInv, MetOnce
  <2>2. c = [search |-> c.search, dir |-> c.dir, recursion |-> c.recursion]
    BY <2>1 DEF DirRecs
  <2>3. d = [search |-> d.search, dir |-> d.dir, recursion |-> d.recursion]
    BY <1>1 DEF DirRecs
  <2>. QED BY <1>6, <2>1, <2>2, <2>3
<1>7. e \in Entries
  BY <1>1, <1>2, TreeFacts
<1>8. d.search \in DOMAIN found
  BY <1>1 DEF FilesInv, FoundInv, RefsMatch
<1>. QED BY <1>1, <1>2, <1>3, <1>4, <1>5, <1>6, <1>7, <1>8

\* enumerator_next_files_lcb, when an entry is read: the search meets it, unless it is a
\* directory that is too deep.
LEMMA ReadFiles ==
    ASSUME FilesInv, NEW d \in DOMAIN left, NEW e \in left[d].entries,
           NextFiles(d, {e}), ~found[d.search].cancel
    PROVE  LET f == d.search
               below == Dir(f, e, d.recursion + 1)
           IN  /\ FilesInv'
               /\ DOMAIN found' = DOMAIN found
               /\ \A g \in DOMAIN found : found'[g].cancel = found[g].cancel
               /\ seen' = [seen EXCEPT ![f] = IF Meets(d, e) THEN @ \union {e} ELSE @]
               /\ dirs' = IF e \in Dirs /\ Meets(d, e) THEN dirs \union {below} ELSE dirs
               /\ \A c \in dirs : c \in DOMAIN left' => c \in DOMAIN left
               /\ \A c \in DOMAIN left \ {d} : c \in DOMAIN left' /\ left'[c] = left[c]
               /\ d \in DOMAIN left' /\ left'[d].entries = left[d].entries \ {e}
               /\ below \notin dirs
               /\ below \in DOMAIN left' => left'[below].entries = Tree[e]
<1>. DEFINE f == d.search
            below == Dir(f, e, d.recursion + 1)
            lf == [left EXCEPT ![d] = [opened |-> TRUE, entries |-> @.entries \ {e}]]
            S == {Dir(d.search, c, d.recursion + 1) : c \in {e} \intersect Dirs}
            sub == IF d.recursion < MaxDepth THEN S ELSE {}
<1>1. /\ d \in dirs /\ f \in Searches /\ d.dir \in Dirs /\ d.recursion \in Nat
      /\ d.recursion = Depth[d.dir]
      /\ e \in Tree[d.dir] /\ e \in Entries /\ e \notin seen[f]
      /\ d.dir \in seen[f]
      /\ \A c \in dirs : c.search = f => c.dir # e
      /\ \A c \in dirs : c.search = f /\ c.dir = d.dir => c = d
      /\ f \in DOMAIN found
  BY NotMetTwice
<1>2. /\ found' = [found EXCEPT ![f] = [refcount |-> @.refcount + Cardinality(sub), cancel |-> @.cancel]]
      /\ dirs' = dirs \union sub
      /\ seen' = [seen EXCEPT ![f] = @ \union {c.dir : c \in sub} \union ({e} \intersect Files)]
      /\ \E order \in Orders(sub) :
           RunDirs([q |-> order \o ffdqueue.q, worknum |-> ffdqueue.worknum], lf)
  BY DEF NextFiles
<1>3. /\ DirsInv /\ FoundInv /\ MetOnce /\ IsFiniteSet(dirs) /\ DOMAIN left \subseteq dirs
      /\ dirs \subseteq DirRecs
  BY WaitingFacts DEF FilesInv, DirsInv
<1>4. MaxDepth \in Nat /\ Dirs \intersect Files = {} /\ Entries = Dirs \union Files
  BY MaxDepthAssumption, TreeFacts DEF Entries
<1>5. below.search = f /\ below.dir = e /\ below.recursion = d.recursion + 1
  BY DEF Dir
<1>6. below \notin dirs
  BY <1>1, <1>5
<1>7. \A c \in DOMAIN left : left[c] \in Lefts /\ left[c].entries \subseteq Tree[c.dir]
  BY <1>3 DEF DirsInv, Lefts
<1>8. /\ DOMAIN lf = DOMAIN left
      /\ \A c \in DOMAIN lf : lf[c] \in Lefts /\ lf[c].entries \subseteq Tree[c.dir]
      /\ lf[d].entries = left[d].entries \ {e}
      /\ \A c \in DOMAIN left \ {d} : lf[c] = left[c]
  <2>1. lf[d] = [opened |-> TRUE, entries |-> left[d].entries \ {e}]
    OBVIOUS
  <2>2. \A c \in DOMAIN left \ {d} : lf[c] = left[c]
    OBVIOUS
  <2>3. lf[d] \in Lefts /\ lf[d].entries \subseteq Tree[d.dir]
    BY <1>7, <2>1 DEF Lefts
  <2>4. DOMAIN lf = DOMAIN left
    OBVIOUS
  <2>5. lf[d].entries = left[d].entries \ {e}
    BY <2>1
  <2>. HIDE DEF lf
  <2>. QED BY <1>7, <2>2, <2>3, <2>4, <2>5
<1>9. Serves(DirRecs, ffdqueue, dirs \ DOMAIN left, DOMAIN left) /\ ffdqueue.worknum <= MaxWorknum
  BY <1>3 DEF DirsInv
<1>10. ffdqueue \in Queue(DirRecs) /\ Settled(ffdqueue) /\ ffdqueue.q \in Seq(DirRecs)
  BY <1>9, QueueParts DEF Serves
<1>11. seen \in [Searches -> SUBSET Entries]
  BY <1>3 DEF MetOnce
<1>12. CASE e \in Dirs /\ d.recursion < MaxDepth
  <2>1. sub = {below} /\ Meets(d, e)
    BY <1>12 DEF Meets
  <2>2. Cardinality(sub) = 1
    BY <2>1, FS_Singleton
  <2>3. below \in DirRecs
    BY <1>1, <1>12, <1>5 DEF Dir, DirRecs
  <2>4. RunDirs(Push(ffdqueue, below), lf)
    <3>. HIDE DEF lf, below, sub
    <3>1. PICK order \in Orders(sub) :
             RunDirs([q |-> order \o ffdqueue.q, worknum |-> ffdqueue.worknum], lf)
      BY <1>2
    <3>2. order \in [1 .. 1 -> {below}]
      BY <3>1, <2>1, <2>2 DEF Orders
    <3>3. order = <<below>>
      BY <3>2
    <3>. QED BY <3>1, <3>3 DEF Push
  <2>5. dirs' = dirs \union {below}
    BY <1>2, <2>1
  <2>6. /\ DirsInv'
        /\ DOMAIN left \subseteq DOMAIN left' /\ DOMAIN left' \subseteq DOMAIN left \union {below}
        /\ \A c \in DOMAIN left : left'[c] = lf[c]
        /\ below \in DOMAIN left' => left'[below].entries = Tree[below.dir]
    <3>. HIDE DEF lf, below
    <3>. QED BY <1>6, <1>8, <2>3, <2>4, <2>5, PushDirs
  <2>7. seen' = [seen EXCEPT ![f] = @ \union {e}]
    <3>1. {c.dir : c \in sub} = {e} /\ {e} \intersect Files = {}
      BY <2>1, <1>4, <1>5, <1>12
    <3>2. seen[f] \union {c.dir : c \in sub} \union ({e} \intersect Files) = seen[f] \union {e}
      BY <3>1
    <3>. QED BY <1>2, <3>2
  <2>8. /\ DOMAIN found' = DOMAIN found
        /\ \A g \in DOMAIN found \ {f} : found'[g] = found[g]
        /\ found'[f] = [refcount |-> found[f].refcount + 1, cancel |-> found[f].cancel]
    BY <1>1, <1>2, <2>2
  <2>9. FoundInv'
    <3>1. \A g \in DOMAIN found \ {f} : Of(g)' = Of(g)
      BY <1>5, <2>5 DEF Of
    <3>2. Of(f)' = Of(f) \union {below} /\ below \notin Of(f) /\ IsFiniteSet(Of(f))
      BY <1>3, <1>5, <1>6, <2>5, FS_Subset DEF Of
    <3>3. Cardinality(Of(f)') = Cardinality(Of(f)) + 1
      BY <3>2, FS_AddElement
    <3>4. found[f].refcount = Cardinality(Of(f)) /\ found[f].refcount > 0 /\ found[f] \in [refcount : Nat, cancel : BOOLEAN]
      BY <1>1, <1>3 DEF FoundInv, RefsMatch
    <3>5. found'[f].refcount = Cardinality(Of(f)') /\ found'[f].refcount > 0 /\ found'[f] \in [refcount : Nat, cancel : BOOLEAN]
      BY <2>8, <3>3, <3>4
    <3>6. \A g \in DOMAIN found \ {f} :
            /\ found'[g].refcount = Cardinality(Of(g)') /\ found'[g].refcount > 0
            /\ found'[g] \in [refcount : Nat, cancel : BOOLEAN]
      BY <1>3, <2>8, <3>1 DEF FoundInv, RefsMatch
    <3>7. \A c \in dirs' : c.search \in DOMAIN found'
      BY <1>1, <1>3, <1>5, <2>5, <2>8 DEF FoundInv, RefsMatch
    <3>8. RefsMatch'
      BY <2>8, <3>5, <3>6, <3>7 DEF RefsMatch
    <3>9. found' \in [DOMAIN found' -> [refcount : Nat, cancel : BOOLEAN]]
      BY <1>2, <2>8, <3>5, <3>6
    <3>. QED BY <1>3, <2>8, <3>8, <3>9 DEF FoundInv
  <2>10. MetOnce'
    <3>1. /\ seen' \in [Searches -> SUBSET Entries]
          /\ seen'[f] = seen[f] \union {e}
          /\ \A g \in Searches \ {f} : seen'[g] = seen[g]
      BY <1>1, <1>11, <2>7
    <3>2. Top \in seen[f] /\ \A g \in Searches : seen'[g] # {} => Top \in seen'[g]
      BY <1>1, <1>3, <3>1 DEF MetOnce
    <3>3. \A c \in dirs : c.search \in Searches
      BY <1>3 DEF DirRecs
    <3>4. Depth[e] = d.recursion + 1
      BY <1>1, <1>12, DepthFacts
    <3>5. \A c \in dirs' : c.dir \in seen'[c.search] /\ c.recursion = Depth[c.dir]
      BY <1>3, <1>5, <2>5, <3>1, <3>3, <3>4 DEF MetOnce
    <3>6. ASSUME NEW g \in Searches, NEW p \in Dirs, NEW x \in Tree[p] \intersect seen'[g]
          PROVE  /\ p \in seen'[g]
                 /\ \A c \in dirs' : c.search = g /\ c.dir = p =>
                                        c \in DOMAIN left' /\ x \notin left'[c].entries
      <4>1. CASE x \in seen[g]
        <5>1. /\ p \in seen[g]
              /\ \A c \in dirs : c.search = g /\ c.dir = p =>
                                   c \in DOMAIN left /\ x \notin left[c].entries
          BY <1>3, <3>6, <4>1 DEF MetOnce
        <5>2. p = e => g # f
          BY <1>1, <5>1
        <5>3. \A c \in dirs : c.search = g /\ c.dir = p =>
                                   c \in DOMAIN left' /\ x \notin left'[c].entries
          BY <5>1, <2>6, <1>8
        <5>. QED BY <5>1, <5>2, <5>3, <3>1, <2>5, <1>5
      <4>2. CASE x \notin seen[g]
        <5>1. g = f /\ x = e
          BY <3>1, <3>6, <4>2
        <5>2. p = d.dir
          BY <1>1, <3>6, <5>1, TreeFacts
        <5>3. e # p
          BY <1>1, <5>2
        <5>4. \A c \in dirs' : c.search = g /\ c.dir = p => c = d
          BY <1>1, <1>5, <2>5, <5>1, <5>2, <5>3
        <5>5. d \in DOMAIN left' /\ e \notin left'[d].entries
          BY <1>8, <2>6
        <5>. QED BY <1>1, <3>1, <5>1, <5>2, <5>4, <5>5
      <4>. QED BY <4>1, <4>2
    <3>. QED BY <3>1, <3>2, <3>5, <3>6 DEF MetOnce
  <2>11. \A c \in dirs : c \in DOMAIN left' => c \in DOMAIN left
    BY <1>6, <2>6
  <2>12. \A c \in DOMAIN left \ {d} : c \in DOMAIN left' /\ left'[c] = left[c]
    BY <1>8, <2>6
  <2>13. d \in DOMAIN left' /\ left'[d].entries = left[d].entries \ {e}
    BY <1>8, <2>6
  <2>14. \A g \in DOMAIN found : found'[g].cancel = found[g].cancel
    BY <2>8
  <2>15. FilesInv'
    BY <2>6, <2>9, <2>10 DEF FilesInv
  <2>16. below \in DOMAIN left' => left'[below].entries = Tree[e]
    BY <1>5, <2>6
  <2>. HIDE DEF below, sub, lf
  <2>. QED BY <1>6, <1>12, <2>1, <2>5, <2>7, <2>8, <2>11, <2>12, <2>13, <2>14, <2>15, <2>16 DEF below
<1>13. CASE ~(e \in Dirs /\ d.recursion < MaxDepth)
  <2>1. sub = {} /\ Cardinality(sub) = 0
    BY <1>13, FS_EmptySet
  <2>2. dirs' = dirs
    BY <1>2, <2>1
  <2>3. RunDirs(ffdqueue, lf)
    <3>. HIDE DEF lf, sub
    <3>1. PICK order \in Orders(sub) :
             RunDirs([q |-> order \o ffdqueue.q, worknum |-> ffdqueue.worknum], lf)
      BY <1>2
    <3>2. order \in [1 .. 0 -> {}]
      BY <3>1, <2>1 DEF Orders
    <3>3. order = << >>
      BY <3>2
    <3>4. order \o ffdqueue.q = ffdqueue.q
      BY <3>3, <1>10
    <3>5. [q |-> order \o ffdqueue.q, worknum |-> ffdqueue.worknum] = ffdqueue
      BY <3>4, <1>10, QueueParts
    <3>. QED BY <3>1, <3>5
  <2>4. Run(ffdqueue) = ffdqueue /\ Started(ffdqueue) = {}
    BY <1>10, RunNothing
  <2>5. ffdqueue' = ffdqueue /\ DOMAIN left' = DOMAIN left /\ \A c \in DOMAIN left : left'[c] = lf[c]
    <3>. HIDE DEF lf
    <3>1. ffdqueue' = Run(ffdqueue) /\ DOMAIN left' = Started(ffdqueue) \union DOMAIN lf
      BY <2>3 DEF RunDirs
    <3>2. \A c \in DOMAIN lf : left'[c] = lf[c]
      BY <2>3 DEF RunDirs
    <3>. QED BY <1>8, <2>4, <3>1, <3>2
  <2>6. left' \in [DOMAIN left' -> Lefts]
    <3>. HIDE DEF lf
    <3>1. left' = [c \in DOMAIN left' |-> left'[c]]
      BY <2>3 DEF RunDirs
    <3>. QED BY <3>1, <2>5, <1>8
  <2>7. DirsInv'
    <3>. HIDE DEF lf
    <3>1. \A c \in DOMAIN left' : left'[c].entries \subseteq Tree[c.dir]
      BY <1>8, <2>5
    <3>. QED BY <1>3, <2>2, <2>5, <2>6, <3>1 DEF DirsInv, Lefts
  <2>8. /\ DOMAIN found' = DOMAIN found
        /\ \A g \in DOMAIN found : found'[g] = found[g]
    <3>1. found[f] = [refcount |-> found[f].refcount, cancel |-> found[f].cancel] /\ found[f].refcount \in Nat
      BY <1>1, <1>3 DEF FoundInv
    <3>2. found[f].refcount + Cardinality(sub) = found[f].refcount
      BY <3>1, <2>1
    <3>. HIDE DEF sub
    <3>. QED BY <1>1, <1>2, <3>1, <3>2
  <2>9. FoundInv'
    <3>1. \A g : Of(g)' = Of(g)
      BY <2>2 DEF Of
    <3>2. found' = [g \in DOMAIN found' |-> found'[g]]
      BY <1>2
    <3>3. found' \in [DOMAIN found' -> [refcount : Nat, cancel : BOOLEAN]]
      BY <1>3, <2>8, <3>2 DEF FoundInv
    <3>4. RefsMatch'
      BY <1>3, <2>2, <2>8, <3>1 DEF FoundInv, RefsMatch
    <3>. QED BY <1>3, <2>8, <3>3, <3>4 DEF FoundInv
  <2>10. Meets(d, e) <=> e \in Files
    BY <1>1, <1>4, <1>13 DEF Meets
  <2>11. seen' = [seen EXCEPT ![f] = IF Meets(d, e) THEN @ \union {e} ELSE @]
    <3>1. {c.dir : c \in sub} = {}
      BY <2>1
    <3>2. seen[f] \union {c.dir : c \in sub} \union ({e} \intersect Files)
            = IF Meets(d, e) THEN seen[f] \union {e} ELSE seen[f]
      BY <3>1, <2>10
    <3>. HIDE DEF sub
    <3>. QED BY <1>2, <3>2
  <2>12. MetOnce'
    <3>1. /\ seen' \in [Searches -> SUBSET Entries]
          /\ seen'[f] \subseteq seen[f] \union {e} /\ seen[f] \subseteq seen'[f]
          /\ \A g \in Searches \ {f} : seen'[g] = seen[g]
      BY <1>1, <1>11, <2>11
    <3>2. Top \in seen[f] /\ \A g \in Searches : seen'[g] # {} => Top \in seen'[g]
      BY <1>1, <1>3, <3>1 DEF MetOnce
    <3>3. \A c \in dirs : c.search \in Searches
      BY <1>3 DEF DirRecs
    <3>4. \A c \in dirs' : c.dir \in seen'[c.search] /\ c.recursion = Depth[c.dir]
      BY <1>3, <2>2, <3>1, <3>3 DEF MetOnce
    <3>5. ASSUME NEW g \in Searches, NEW p \in Dirs, NEW x \in Tree[p] \intersect seen'[g]
          PROVE  /\ p \in seen'[g]
                 /\ \A c \in dirs' : c.search = g /\ c.dir = p =>
                                        c \in DOMAIN left' /\ x \notin left'[c].entries
      <4>. HIDE DEF lf
      <4>1. CASE x \in seen[g]
        <5>1. /\ p \in seen[g]
              /\ \A c \in dirs : c.search = g /\ c.dir = p =>
                                   c \in DOMAIN left /\ x \notin left[c].entries
          BY <1>3, <3>5, <4>1 DEF MetOnce
        <5>2. \A c \in dirs : c.search = g /\ c.dir = p =>
                                   c \in DOMAIN left' /\ x \notin left'[c].entries
          BY <5>1, <2>5, <1>8
        <5>. QED BY <5>1, <5>2, <3>1, <2>2
      <4>2. CASE x \notin seen[g]
        <5>1. g = f /\ x = e
          BY <3>1, <3>5, <4>2
        <5>2. p = d.dir
          BY <1>1, <3>5, <5>1, TreeFacts
        <5>3. \A c \in dirs' : c.search = g /\ c.dir = p => c = d
          BY <1>1, <2>2, <5>1, <5>2
        <5>4. d \in DOMAIN left' /\ e \notin left'[d].entries
          BY <1>8, <2>5
        <5>. QED BY <1>1, <3>1, <5>1, <5>2, <5>3, <5>4
      <4>. QED BY <4>1, <4>2
    <3>. QED BY <3>1, <3>2, <3>4, <3>5 DEF MetOnce
  <2>13. \A c \in DOMAIN left \ {d} : c \in DOMAIN left' /\ left'[c] = left[c]
    BY <1>8, <2>5
  <2>14. d \in DOMAIN left' /\ left'[d].entries = left[d].entries \ {e}
    BY <1>8, <2>5
  <2>15. FilesInv'
    BY <2>7, <2>9, <2>12 DEF FilesInv
  <2>16. below \notin DOMAIN left'
    BY <1>3, <1>6, <2>5
  <2>17. ~(e \in Dirs /\ Meets(d, e))
    BY <1>4, <1>13, <2>10
  <2>18. \A g \in DOMAIN found : found'[g].cancel = found[g].cancel
    BY <2>8
  <2>. HIDE DEF sub, lf
  <2>. QED BY <1>6, <2>2, <2>5, <2>8, <2>11, <2>13, <2>14, <2>15, <2>16, <2>17, <2>18
<1>. QED BY <1>12, <1>13

-----------------------------------------------------------------------------
(* What is to come                                                         *)

\* A directory that goes when all of it was read leaves nothing out.
LEMMA CoveredKept ==
    ASSUME KeepsLeft, seen' = seen, dirs' \subseteq dirs, NEW f,
           \A d \in dirs \ dirs' : d.search = f => d \in DOMAIN left /\ left[d].entries = {},
           CoveredOf(f)
    PROVE  CoveredOf(f)'
<1>. SUFFICES ASSUME NEW p \in seen[f] \intersect Dirs, NEW e \in Tree[p],
                     e \in Files \/ Depth[p] < MaxDepth, e \notin seen[f]
              PROVE  ToCome(f, p, e)'
  BY DEF CoveredOf
<1>1. PICK d \in dirs : /\ d.search = f /\ d.dir = p
                        /\ d \in DOMAIN left => e \in left[d].entries
  BY DEF CoveredOf, ToCome
<1>2. d \in dirs'
  BY <1>1
<1>3. d \in DOMAIN left' => e \in left'[d].entries
  BY <1>1, <1>2 DEF KeepsLeft
<1>. QED BY <1>1, <1>2, <1>3 DEF ToCome

\* A search that begins has its top directory before it.
LEMMA CoveredBegun ==
    ASSUME FilesInv, NEW f \in Searches, FindFiles(f, Top)
    PROVE  /\ CoveredOf(f)'
           /\ \A g \in Searches \ {f} : CoveredOf(g) => CoveredOf(g)'
<1>. DEFINE top == Dir(f, Top, 0)
<1>1. /\ KeepsLeft
      /\ dirs' = dirs \union {top}
      /\ seen' = [seen EXCEPT ![f] = {Top}]
      /\ top \in DOMAIN left' => left'[top].entries = Tree[Top]
  BY BeginFiles
<1>2. seen \in [Searches -> SUBSET Entries]
  BY DEF FilesInv, MetOnce
<1>3. seen'[f] = {Top} /\ \A g \in Searches \ {f} : seen'[g] = seen[g]
  BY <1>1, <1>2
<1>4. CoveredOf(f)'
  <2>1. top.search = f /\ top.dir = Top
    BY DEF Dir
  <2>2. \A e \in Tree[Top] : ToCome(f, Top, e)'
    BY <1>1, <2>1 DEF ToCome
  <2>. QED BY <1>3, <2>2 DEF CoveredOf
<1>5. ASSUME NEW g \in Searches \ {f}, CoveredOf(g)
      PROVE  CoveredOf(g)'
  <2>. SUFFICES ASSUME NEW p \in seen[g] \intersect Dirs, NEW e \in Tree[p],
                     e \in Files \/ Depth[p] < MaxDepth, e \notin seen[g]
                PROVE  ToCome(g, p, e)'
    BY <1>3, <1>5 DEF CoveredOf
  <2>1. PICK d \in dirs : /\ d.search = g /\ d.dir = p
                          /\ d \in DOMAIN left => e \in left[d].entries
    BY <1>5 DEF CoveredOf, ToCome
  <2>2. d \in dirs' /\ (d \in DOMAIN left' => e \in left'[d].entries)
    BY <1>1, <2>1 DEF KeepsLeft
  <2>. QED BY <2>1, <2>2 DEF ToCome
<1>. QED BY <1>4, <1>5

\* An entry that is read is met then.
LEMMA CoveredRead ==
    ASSUME FilesInv, NEW d \in DOMAIN left, NEW e \in left[d].entries,
           NextFiles(d, {e}), ~found[d.search].cancel,
           NEW g \in Searches, CoveredOf(g)
    PROVE  CoveredOf(g)'
<1>. DEFINE f == d.search
            below == Dir(f, e, d.recursion + 1)
<1>1. /\ seen' = [seen EXCEPT ![f] = IF Meets(d, e) THEN @ \union {e} ELSE @]
      /\ dirs' = IF e \in Dirs /\ Meets(d, e) THEN dirs \union {below} ELSE dirs
      /\ \A c \in dirs : c \in DOMAIN left' => c \in DOMAIN left
      /\ \A c \in DOMAIN left \ {d} : c \in DOMAIN left' /\ left'[c] = left[c]
      /\ d \in DOMAIN left' /\ left'[d].entries = left[d].entries \ {e}
      /\ below \in DOMAIN left' => left'[below].entries = Tree[e]
  BY ReadFiles
<1>2. /\ d \in dirs /\ f \in Searches /\ d.dir \in Dirs
      /\ d.recursion = Depth[d.dir]
  BY NotMetTwice
<1>3. below.search = f /\ below.dir = e
  BY DEF Dir
<1>4. seen \in [Searches -> SUBSET Entries]
  BY DEF FilesInv, MetOnce
<1>5. /\ seen'[f] = IF Meets(d, e) THEN seen[f] \union {e} ELSE seen[f]
      /\ \A h \in Searches \ {f} : seen'[h] = seen[h]
  BY <1>1, <1>2, <1>4
<1>. SUFFICES ASSUME NEW p \in seen'[g] \intersect Dirs, NEW x \in Tree[p],
                     x \in Files \/ Depth[p] < MaxDepth, x \notin seen'[g]
              PROVE  ToCome(g, p, x)'
  BY DEF CoveredOf
<1>. HIDE DEF below
<1>6. CASE p \in seen[g]
  <2>1. x \notin seen[g]
    BY <1>5
  <2>2. PICK c \in dirs : /\ c.search = g /\ c.dir = p
                          /\ c \in DOMAIN left => x \in left[c].entries
    BY <1>6, <2>1 DEF CoveredOf, ToCome
  <2>3. c \in dirs'
    BY <1>1
  <2>4. CASE c = d
    <3>1. Meets(d, x)
      BY <1>2, <2>2, <2>4 DEF Meets
    <3>2. x # e
      BY <1>5, <2>2, <2>4, <3>1
    <3>3. x \in left'[d].entries
      BY <1>1, <2>2, <2>4, <3>2
    <3>. QED BY <2>2, <2>3, <2>4, <3>3 DEF ToCome
  <2>5. CASE c # d
    <3>1. c \in DOMAIN left' => x \in left'[c].entries
      BY <1>1, <2>2, <2>5
    <3>. QED BY <2>2, <2>3, <3>1 DEF ToCome
  <2>. QED BY <2>4, <2>5
<1>7. CASE p \notin seen[g]
  <2>1. g = f /\ p = e /\ Meets(d, e)
    BY <1>5, <1>7
  <2>2. below \in dirs'
    BY <1>1, <2>1
  <2>3. below \in DOMAIN left' => x \in left'[below].entries
    BY <1>1, <2>1
  <2>. QED BY <1>3, <2>1, <2>2, <2>3 DEF ToCome
<1>. QED BY <1>6, <1>7

-----------------------------------------------------------------------------
(* The queue of the documents                                              *)

\* The queue of the documents meets the assumptions of AsyncQueue.
LEMMA DocLimit ==
    /\ WordSize \in Nat /\ WordSize > 1 /\ DP!MaxWorknumAssumption /\ DP!WordSizeAssumption
BY ThreadsAssumption, WordSizeAssumption DEF DP!MaxWorknumAssumption, DP!WordSizeAssumption

\* The two instances of AsyncQueue for the documents are the same.
LEMMA DocRun ==
    ASSUME NEW Q
    PROVE  /\ DQ!Run(Q) = DP!Run(Q) /\ DQ!Started(Q) = DP!Started(Q)
           /\ DQ!WorkerReady(Q) = DP!WorkerReady(Q)
           /\ \A item : DQ!Push(Q, item) = DP!Push(Q, item)
BY DEF DQ!Run, DP!Run, DQ!Started, DP!Started, DQ!NumStarted, DP!NumStarted,
       DQ!WorkerReady, DP!WorkerReady, DQ!Push, DP!Push

\* Finite sets are the same in this instance.
LEMMA DocFinite ==
    ASSUME NEW S
    PROVE  (DP!IsFiniteSet(S) <=> IsFiniteSet(S)) /\ DP!Cardinality(S) = Cardinality(S)
BY DEF DP!IsFiniteSet, IsFiniteSet, DP!Cardinality, Cardinality

\* The items of a queue are those that wait.
LEMMA DocItems ==
    ASSUME NEW Q, NEW waits, NEW works, DP!Serves(Jobs, Q, waits, works)
    PROVE  {Q.q[i] : i \in DOMAIN Q.q} = waits
<1>1. /\ Q.q \in Seq(Jobs) /\ waits \subseteq Jobs
      /\ \A s \in Jobs : DP!Holds(Q, s) <=> s \in waits
  BY DEF DP!Serves, DP!Queue
<1>2. DOMAIN Q.q = 1 .. Len(Q.q) /\ \A i \in 1 .. Len(Q.q) : Q.q[i] \in Jobs
  BY <1>1
<1>. QED BY <1>1, <1>2 DEF DP!Holds

\* snr3_run_in_doc adds a job, ...
LEMMA DocPush ==
    ASSUME DocsInv, NEW job \in Jobs, job \notin Docs,
           NEW Q, Q = DQ!Push(idlequeue, job), idlequeue' = DQ!Run(Q),
           indoc' = indoc \union DQ!Started(Q)
    PROVE  /\ DP!Serves(Jobs, idlequeue', Docs' \ indoc', indoc')
           /\ idlequeue'.worknum <= 1 /\ IsFiniteSet(Docs')
           /\ Docs' = Docs \union {job}
           /\ DQ!Started(Q) # {} => indoc' # {}
           /\ indoc \subseteq indoc'
<1>. DEFINE waits == Docs \ indoc
<1>1. /\ DP!Serves(Jobs, idlequeue, waits, indoc) /\ idlequeue.worknum <= 1 /\ IsFiniteSet(Docs)
      /\ waits \subseteq Jobs /\ indoc \subseteq Docs /\ job \notin waits /\ job \notin indoc
  BY DEF DocsInv, DP!Serves, Docs
<1>2. /\ Q = DP!Push(idlequeue, job) /\ idlequeue' = DP!Run(Q) /\ DQ!Started(Q) = DP!Started(Q)
      /\ indoc' = indoc \union DP!Started(Q)
  BY DocRun
<1>3. idlequeue'.worknum <= 1
  <2>1. DP!Run(Q).worknum <= 1
    BY <1>1, <1>2, DocLimit, DP!PushBound
  <2>. QED BY <1>2, <2>1
<1>4. \/ DP!Started(Q) = {job} /\ DP!Serves(Jobs, DP!Run(Q), waits, indoc \union {job})
      \/ DP!Started(Q) = {} /\ DP!Serves(Jobs, DP!Run(Q), waits \union {job}, indoc)
  BY <1>1, <1>2, DocLimit, DP!PushServes
<1>5. Docs' = {idlequeue'.q[i] : i \in DOMAIN idlequeue'.q} \union indoc'
  BY DEF Docs
<1>6. waits \union indoc = Docs
  BY <1>1
<1>. HIDE DEF waits
<1>7. CASE DP!Started(Q) = {job} /\ DP!Serves(Jobs, DP!Run(Q), waits, indoc \union {job})
  <2>1. indoc' = indoc \union {job} /\ DP!Serves(Jobs, idlequeue', waits, indoc')
    BY <1>2, <1>7
  <2>2. Docs' = waits \union indoc'
    BY <1>5, <2>1, DocItems
  <2>3. Docs' = Docs \union {job} /\ waits = Docs' \ indoc'
    BY <1>1, <1>6, <2>1, <2>2 DEF waits
  <2>. QED BY <1>1, <1>3, <2>1, <2>3, FS_AddElement
<1>8. CASE DP!Started(Q) = {} /\ DP!Serves(Jobs, DP!Run(Q), waits \union {job}, indoc)
  <2>1. indoc' = indoc /\ DP!Serves(Jobs, idlequeue', waits \union {job}, indoc')
    BY <1>2, <1>8
  <2>2. Docs' = waits \union {job} \union indoc'
    BY <1>5, <2>1, DocItems
  <2>3. Docs' = Docs \union {job} /\ waits \union {job} = Docs' \ indoc'
    BY <1>1, <1>6, <2>1, <2>2 DEF waits
  <2>. QED BY <1>1, <1>2, <1>3, <1>8, <2>1, <2>3, FS_AddElement
<1>. QED BY <1>4, <1>7, <1>8

\* ... and queue_worker_ready gives the slot of one to the next.
LEMMA DocReady ==
    ASSUME DocsInv, NEW job \in indoc,
           NEW Q, Q = DQ!WorkerReady(idlequeue), idlequeue' = DQ!Run(Q),
           indoc' = (indoc \ {job}) \union DQ!Started(Q)
    PROVE  /\ DP!Serves(Jobs, idlequeue', Docs' \ indoc', indoc')
           /\ idlequeue'.worknum <= 1 /\ IsFiniteSet(Docs')
           /\ Docs' = Docs \ {job}
           /\ DQ!Started(Q) # {} => indoc' # {}
<1>. DEFINE waits == Docs \ indoc
            works == indoc \ {job}
<1>1. /\ DP!Serves(Jobs, idlequeue, waits, indoc) /\ idlequeue.worknum <= 1 /\ IsFiniteSet(Docs)
      /\ waits \subseteq Jobs /\ indoc \subseteq Docs /\ waits \intersect indoc = {}
  BY DEF DocsInv, DP!Serves, Docs
<1>2. /\ Q = DP!WorkerReady(idlequeue) /\ idlequeue' = DP!Run(Q)
      /\ DQ!Started(Q) = DP!Started(Q) /\ indoc' = works \union DP!Started(Q)
  BY DocRun
<1>3. idlequeue'.worknum <= 1
  <2>1. indoc # {}
    OBVIOUS
  <2>2. DP!Run(Q).worknum <= 1
    BY <1>1, <1>2, <2>1, DocLimit, DP!ReadyBound
  <2>. QED BY <1>2, <2>2
<1>4. \/ \E t \in waits : /\ DP!Started(Q) = {t}
                           /\ DP!Serves(Jobs, DP!Run(Q), waits \ {t}, (indoc \ {job}) \union {t})
      \/ DP!Started(Q) = {} /\ DP!Serves(Jobs, DP!Run(Q), waits, indoc \ {job})
  BY <1>1, <1>2, DocLimit, DP!ReadyServes
<1>5. Docs' = {idlequeue'.q[i] : i \in DOMAIN idlequeue'.q} \union indoc'
  BY DEF Docs
<1>6. /\ waits \union works = Docs \ {job} /\ waits \intersect works = {}
      /\ IsFiniteSet(Docs \ {job})
  BY <1>1, FS_Subset
<1>7. ASSUME NEW t \in waits, DP!Started(Q) = {t},
             DP!Serves(Jobs, DP!Run(Q), waits \ {t}, (indoc \ {job}) \union {t})
      PROVE  Docs' = Docs \ {job} /\ DP!Serves(Jobs, idlequeue', Docs' \ indoc', indoc')
  <2>1. indoc' = works \union {t} /\ DP!Serves(Jobs, idlequeue', waits \ {t}, indoc')
    BY <1>2, <1>7
  <2>2. Docs' = (waits \ {t}) \union indoc'
    BY <1>5, <2>1, DocItems
  <2>. HIDE DEF waits, works
  <2>3. Docs' = Docs \ {job} /\ waits \ {t} = Docs' \ indoc'
    BY <1>6, <1>7, <2>1, <2>2
  <2>. QED BY <2>1, <2>3
<1>8. ASSUME DP!Started(Q) = {}, DP!Serves(Jobs, DP!Run(Q), waits, indoc \ {job})
      PROVE  Docs' = Docs \ {job} /\ DP!Serves(Jobs, idlequeue', Docs' \ indoc', indoc')
  <2>1. indoc' = works /\ DP!Serves(Jobs, idlequeue', waits, indoc')
    BY <1>2, <1>8
  <2>2. Docs' = waits \union indoc'
    BY <1>5, <2>1, DocItems
  <2>. HIDE DEF waits, works
  <2>3. Docs' = Docs \ {job} /\ waits = Docs' \ indoc'
    BY <1>6, <2>1, <2>2
  <2>. QED BY <2>1, <2>3
<1>. QED BY <1>2, <1>3, <1>4, <1>6, <1>7, <1>8

\* A step that leaves the documents alone, and no earlier run.
LEMMA DocsSame ==
    ASSUME DocsInv, UNCHANGED docvars, s3run'.run = s3run.run, s3run'.idle_id = s3run.idle_id,
           \/ s3run'.cancelled = s3run.cancelled /\ s3run'.interrupted = s3run.interrupted
           \/ indoc # {} => s3run'.interrupted,
           \A g \in Runs : seen[g] \subseteq seen'[g]
    PROVE  DocsInv' /\ Docs' = Docs
<1>1. idlequeue' = idlequeue /\ indoc' = indoc
  BY DEF docvars
<1>2. Docs' = Docs
  BY <1>1 DEF Docs
<1>3. \A job \in Docs : job[1] \in Runs
  BY DEF DocsInv, DP!Serves, Jobs
<1>4. \A job \in Docs : job[1] <= s3run'.run /\ (job[1] = s3run'.run => job[2] \in seen'[s3run'.run])
  BY <1>3 DEF DocsInv
<1>. QED BY <1>1, <1>2, <1>4 DEF DocsInv

\* The number of jobs in documents
LEMMA DocsCount ==
    ASSUME DocsInv
    PROVE  /\ IsFiniteSet({job \in Docs : job[1] = s3run.run})
           /\ Cardinality({job \in Docs : job[1] = s3run.run}) \in Nat
<1>1. IsFiniteSet(Docs)
  BY DEF DocsInv
<1>2. IsFiniteSet({job \in Docs : job[1] = s3run.run})
  BY <1>1, FS_Subset
<1>. QED BY <1>2, FS_CardinalityType

-----------------------------------------------------------------------------
(* The callbacks of the directories                                        *)

\* The fields of the Tsnr3run.
LEMMA RunFields ==
    ASSUME NEW S \in S3run
    PROVE  /\ S.alive \in BOOLEAN /\ S.cancelled \in BOOLEAN /\ S.interrupted \in BOOLEAN
           /\ S.run \in {0} \union Runs /\ S.run \in Nat /\ S.findfiles \in Nat
           /\ S.runcount \in Int /\ S.idle_id \in BOOLEAN
<1>1. S.run \in {0} \union Runs /\ Runs \subseteq Nat
  BY SearchFacts DEF S3run
<1>2. S.run \in Nat
  <2>1. CASE S.run = 0
    BY <2>1
  <2>2. CASE S.run # 0
    BY <1>1, <2>2
  <2>. QED BY <2>1, <2>2
<1>. QED BY <1>1, <1>2 DEF S3run

\* snr3run_unrun counts down, and changes else only what the buttons show.
LEMMA UnrunFacts ==
    ASSUME NEW S \in S3run, NEW n \in Nat
    PROVE  /\ Unrun(S, n) \in S3run
           /\ Unrun(S, n).runcount = S.runcount - n
           /\ Unrun(S, n).alive = S.alive /\ Unrun(S, n).run = S.run
           /\ Unrun(S, n).cancelled = S.cancelled /\ Unrun(S, n).findfiles = S.findfiles
           /\ Unrun(S, n).interrupted = S.interrupted /\ Unrun(S, n).idle_id = S.idle_id
<1>. DEFINE r == S.runcount - n
            A == [S EXCEPT !.runcount = r, !.findall = FALSE, !.replaceall = FALSE, !.buttons = TRUE]
            B == [S EXCEPT !.runcount = r]
<1>1. r \in Int
  BY RunFields
<1>2. Unrun(S, n) = IF Zero(S, n) /\ S.callback = "threaded_all_ready" THEN A ELSE B
  BY DEF Unrun
<1>. HIDE DEF r
<1>3. A \in S3run
  BY <1>1 DEF S3run
<1>4. B \in S3run
  BY <1>1 DEF S3run
<1>5. A.runcount = r /\ B.runcount = r
  BY DEF S3run
<1>6. /\ A.alive = S.alive /\ A.run = S.run /\ A.cancelled = S.cancelled
      /\ A.findfiles = S.findfiles /\ A.interrupted = S.interrupted
      /\ A.idle_id = S.idle_id
  BY DEF S3run
<1>7. /\ B.alive = S.alive /\ B.run = S.run /\ B.cancelled = S.cancelled
      /\ B.findfiles = S.findfiles /\ B.interrupted = S.interrupted
      /\ B.idle_id = S.idle_id
  BY DEF S3run
<1>. HIDE DEF A, B
<1>8. CASE Zero(S, n) /\ S.callback = "threaded_all_ready"
  BY <1>2, <1>3, <1>5, <1>6, <1>8 DEF r
<1>9. CASE ~(Zero(S, n) /\ S.callback = "threaded_all_ready")
  BY <1>2, <1>4, <1>5, <1>7, <1>9 DEF r
<1>. QED BY <1>8, <1>9

\* The numbers that runcount is made of.
LEMMA CountTypes ==
    ASSUME Types
    PROVE  /\ IsFiniteSet(DOMAIN worker) /\ IsFiniteSet(Busy) /\ Cardinality(Busy) \in Nat
           /\ Len(threadqueue.q) \in Nat
           /\ IsFiniteSet({job \in idles : job[1] = s3run.run})
           /\ Cardinality({job \in idles : job[1] = s3run.run}) \in Nat
<1>1. MaxThreads \in Nat
  BY ThreadsAssumption
<1>2. IsFiniteSet(1 .. MaxThreads)
  BY <1>1, FS_Interval
<1>3. IsFiniteSet(DOMAIN worker)
  BY <1>2, FS_Subset DEF Types
<1>4. IsFiniteSet(Busy)
  BY <1>3, FS_Subset DEF Busy
<1>5. IsFiniteSet({job \in idles : job[1] = s3run.run})
  BY FS_Subset DEF Types
<1>6. Len(threadqueue.q) \in Nat
  BY DEF Types
<1>. QED BY <1>3, <1>4, <1>5, <1>6, FS_CardinalityType

\* A search goes, or keeps a directory.
LEMMA CleanupFinished ==
    ASSUME IInv, NEW d \in DOMAIN left, Cleanup(d), seen' = seen
    PROVE  /\ d.search \in DOMAIN found
           /\ DOMAIN found' \subseteq DOMAIN found
           /\ DOMAIN found \ DOMAIN found' \subseteq {d.search}
           /\ Finished \subseteq {d.search}
           /\ \A g \in Finished : g \in Runs => g = s3run.run /\ ~s3run.cancelled
           /\ Finished # {} => d.search \in Finished
           /\ OpenAdv \in Finished <=> OpenAdv \in DOMAIN found \ DOMAIN found'
           /\ s3run.run \in Runs /\ ~s3run.cancelled =>
                (s3run.run \in Finished <=> s3run.run \in DOMAIN found \ DOMAIN found')
<1>1. FilesInv' /\ dirs' = dirs \ {d} /\ DOMAIN found' \subseteq DOMAIN found
  BY CleanupFiles DEF IInv
<1>2. d \in dirs /\ d.search \in DOMAIN found
  BY DEF IInv, FilesInv, DirsInv, FoundInv, RefsMatch
<1>3. IsFiniteSet(dirs) /\ FoundInv
  BY DEF IInv, FilesInv, DirsInv
<1>4. \A g \in DOMAIN found : g # d.search => g \in DOMAIN found'
  <2>1. \A g \in DOMAIN found : \E c \in dirs : c.search = g
    BY <1>3, FoundDomain
  <2>2. \A c \in dirs' : c.search \in DOMAIN found'
    BY <1>1 DEF FilesInv, FoundInv, RefsMatch
  <2>. QED BY <1>1, <2>1, <2>2
<1>5. DOMAIN found \ DOMAIN found' \subseteq {d.search}
  BY <1>4
<1>6. RunsInv
  BY DEF IInv
<1>7. Finished \subseteq DOMAIN found \ DOMAIN found' /\ \A g \in Finished : ~found[g].cancel
  BY DEF Finished
<1>8. \A g \in Finished : g \in Runs => g = s3run.run /\ ~s3run.cancelled
  BY <1>6, <1>7 DEF RunsInv
<1>9. OpenAdv \in Finished <=> OpenAdv \in DOMAIN found \ DOMAIN found'
  BY <1>6 DEF RunsInv, Finished
<1>10. s3run.run \in Runs /\ ~s3run.cancelled =>
                (s3run.run \in Finished <=> s3run.run \in DOMAIN found \ DOMAIN found')
  BY <1>6 DEF RunsInv, Finished
<1>. QED BY <1>1, <1>2, <1>5, <1>7, <1>8, <1>9, <1>10

\* A directory goes, and with the last one its search, which calls finished_cb.
LEMMA CleanupStep ==
    ASSUME IInv, misuse = {}, NEW d \in DOMAIN left, Cleanup(d), seen' = seen,
           FinishedCallbacks(Finished),
           UNCHANGED <<threadqueue, threads, worker, docvars, idles, join, reported, disturbed, misuse>>,
           \/ incomplete' = incomplete \union {d.search}
           \/ incomplete' = incomplete /\ (found[d.search].cancel \/ left[d].entries = {})
    PROVE  IInv'
<1>1. /\ FilesInv' /\ KeepsLeft /\ dirs' = dirs \ {d}
      /\ DOMAIN found' \subseteq DOMAIN found
      /\ \A g \in DOMAIN found' : found'[g].cancel = found[g].cancel
  BY CleanupFiles DEF IInv
<1>2. /\ d.search \in DOMAIN found
      /\ DOMAIN found \ DOMAIN found' \subseteq {d.search}
      /\ Finished \subseteq {d.search}
      /\ \A g \in Finished : g \in Runs => g = s3run.run /\ ~s3run.cancelled
      /\ Finished # {} => d.search \in Finished
      /\ OpenAdv \in Finished <=> OpenAdv \in DOMAIN found \ DOMAIN found'
      /\ s3run.run \in Runs /\ ~s3run.cancelled =>
           (s3run.run \in Finished <=> s3run.run \in DOMAIN found \ DOMAIN found')
  BY CleanupFinished
<1>3. /\ FilesInv /\ Covered /\ Types /\ ThreadsInv /\ JoinInv /\ RunsInv /\ DocsInv
      /\ JobsInv /\ CountInv /\ OaInv
  BY DEF IInv
<1>4. /\ s3run \in S3run /\ ended \in BOOLEAN /\ disturbed \in BOOLEAN
      /\ oa \in [refcount : Int, pending : SUBSET Files, opened : SUBSET Files]
  BY <1>3 DEF Types
<1>. DEFINE gone == Finished \ {OpenAdv} # {}
<1>5. /\ s3run' \in S3run
      /\ s3run'.alive = s3run.alive /\ s3run'.run = s3run.run
      /\ s3run'.cancelled = s3run.cancelled /\ s3run'.interrupted = s3run.interrupted
      /\ s3run'.idle_id = s3run.idle_id
      /\ s3run'.findfiles = IF gone THEN 0 ELSE s3run.findfiles
      /\ s3run'.runcount = IF gone THEN s3run.runcount - 1 ELSE s3run.runcount
      /\ ended' = IF gone THEN ended \/ Zero(s3run, 1) ELSE ended
  <2>1. CASE ~gone
    BY <1>4, <2>1 DEF FinishedCallbacks
  <2>2. CASE gone
    <3>. DEFINE U == Unrun(s3run, 1)
    <3>1. /\ U \in S3run
          /\ U.runcount = s3run.runcount - 1
          /\ U.alive = s3run.alive /\ U.run = s3run.run
          /\ U.cancelled = s3run.cancelled /\ U.interrupted = s3run.interrupted
          /\ U.idle_id = s3run.idle_id
      BY <1>4, UnrunFacts
    <3>2. s3run' = [U EXCEPT !.findfiles = 0] /\ ended' = (ended \/ Zero(s3run, 1))
      BY <2>2 DEF FinishedCallbacks
    <3>. HIDE DEF U
    <3>3. s3run' \in S3run
      BY <3>1, <3>2 DEF S3run
    <3>4. /\ s3run'.alive = U.alive /\ s3run'.run = U.run /\ s3run'.cancelled = U.cancelled
          /\ s3run'.interrupted = U.interrupted /\ s3run'.runcount = U.runcount
          /\ s3run'.idle_id = U.idle_id
          /\ s3run'.findfiles = 0
      BY <3>1, <3>2 DEF S3run
    <3>. HIDE DEF gone
    <3>. QED BY <2>2, <3>1, <3>2, <3>3, <3>4
  <2>. QED BY <2>1, <2>2
<1>6. gone => s3run.run \in Runs /\ ~s3run.cancelled /\ s3run.run \in DOMAIN found \ DOMAIN found' /\ s3run.run = d.search
  <2>1. ASSUME gone PROVE s3run.run \in Runs /\ ~s3run.cancelled /\ s3run.run \in Finished /\ s3run.run = d.search
    <3>1. PICK g \in Finished : g # OpenAdv
      BY <2>1
    <3>2. g \in Runs
      BY <3>1, <1>3, SearchFacts DEF FilesInv, FoundInv, Finished
    <3>. QED BY <1>2, <3>1, <3>2
  <2>. QED BY <2>1, <1>2
<1>7. ~gone /\ s3run.run \in Runs /\ ~s3run.cancelled /\ s3run.run \in DOMAIN found => s3run.run \in DOMAIN found'
  <2>1. s3run.run \in Runs => s3run.run # OpenAdv
    BY SearchFacts
  <2>. QED BY <1>2, <2>1
<1>. HIDE DEF gone
<1>8. incomplete' \subseteq incomplete \union {d.search} /\ incomplete \subseteq incomplete'
  OBVIOUS
<1>9. Covered'
  <2>. SUFFICES ASSUME NEW f \in Searches \ incomplete', Whole(f)'
                PROVE  CoveredOf(f)'
    BY DEF Covered
  <2>1. Whole(f) /\ CoveredOf(f)
    BY <1>3, <1>5, <1>8 DEF Covered, Whole
  <2>2. f = d.search => left[d].entries = {}
    <3>1. ASSUME f = d.search PROVE ~found[f].cancel
      BY <1>2, <1>3, <2>1, <3>1, SearchFacts DEF RunsInv, Whole
    <3>. QED BY <3>1
  <2>3. \A c \in dirs \ dirs' : c.search = f => c \in DOMAIN left /\ left[c].entries = {}
    BY <1>1, <2>2
  <2>. QED BY <1>1, <2>1, <2>3, CoveredKept
<1>10. Types'
  <2>1. oa' \in [refcount : Int, pending : SUBSET Files, opened : SUBSET Files]
    BY <1>4 DEF FinishedCallbacks
  <2>2. ended' \in BOOLEAN
    BY <1>4, <1>5 DEF Zero
  <2>3. incomplete' \subseteq {OpenAdv} \union {g \in Runs : g <= s3run'.run}
    <3>1. d.search \in {OpenAdv} \union {g \in Runs : g <= s3run'.run}
      BY <1>2, <1>3, <1>5, SearchFacts DEF RunsInv, FilesInv, FoundInv
    <3>. QED BY <1>3, <1>5, <1>8, <3>1 DEF Types
  <2>. QED BY <1>3, <1>5, <2>1, <2>2, <2>3 DEF Types
<1>11. ThreadsInv'
  BY <1>3, <1>5 DEF ThreadsInv
<1>12. JoinInv'
  BY <1>3, <1>5 DEF JoinInv
<1>13. RunsInv'
  <2>1. \A g \in Runs \intersect DOMAIN found' : g \in Runs \intersect DOMAIN found
    BY <1>1
  <2>2. CASE gone
    <3>1. s3run'.findfiles = 0 /\ ~s3run'.cancelled /\ s3run'.run = s3run.run /\ s3run.run \notin DOMAIN found'
      BY <1>5, <1>6, <2>2
    <3>2. 0 <= s3run'.run
      BY <1>5, RunFields
    <3>. QED BY <1>1, <1>3, <1>5, <2>1, <3>1, <3>2 DEF RunsInv
  <2>3. CASE ~gone
    <3>1. s3run'.findfiles = s3run.findfiles
      BY <1>5, <2>3
    <3>2. s3run.findfiles # 0 => s3run.findfiles \in DOMAIN found' \/ s3run.interrupted
      <4>1. ASSUME s3run.findfiles # 0, ~s3run.interrupted
            PROVE  s3run.findfiles \in DOMAIN found'
        <5>1. s3run.findfiles \in DOMAIN found
          BY <1>3, <4>1 DEF RunsInv
        <5>2. s3run.findfiles \in Runs
          BY <5>1, <4>1, <1>3, SearchFacts DEF FilesInv, FoundInv, OpenAdv
        <5>3. CASE ~s3run.cancelled
          <6>1. s3run.findfiles = s3run.run
            BY <1>3, <4>1, <5>3 DEF RunsInv
          <6>. QED BY <1>7, <2>3, <5>1, <5>2, <5>3, <6>1
        <5>4. CASE s3run.cancelled
          BY <1>3, <4>1, <5>1, <5>2, <5>4 DEF RunsInv
        <5>. QED BY <5>3, <5>4
      <4>. QED BY <4>1
    <3>3. s3run.run \in Runs \intersect DOMAIN found /\ ~s3run.cancelled <=> s3run.run \in Runs \intersect DOMAIN found' /\ ~s3run.cancelled
      BY <1>1, <1>7, <2>3
    <3>. QED BY <1>1, <1>3, <1>5, <2>1, <3>1, <3>2, <3>3 DEF RunsInv
  <2>. QED BY <2>2, <2>3
<1>17. DocsInv' /\ Docs' = Docs
  BY <1>3, <1>5, DocsSame
<1>14. JobsInv'
  BY <1>3, <1>5, <1>17 DEF JobsInv, Busy, Queued, Worked
<1>15. CountInv'
  <2>. SUFFICES ASSUME ~s3run.cancelled, ~disturbed
                PROVE  CountInv'
    BY <1>5 DEF CountInv
  <2>. DEFINE one == IF s3run.run \in Runs \intersect DOMAIN found THEN 1 ELSE 0
              n == Len(threadqueue.q)
              b == Cardinality(Busy)
              i == Cardinality({job \in idles : job[1] = s3run.run})
              o == Cardinality({job \in Docs : job[1] = s3run.run})
              one1 == IF s3run.run \in Runs \intersect DOMAIN found' THEN 1 ELSE 0
  <2>1. n \in Nat /\ b \in Nat /\ i \in Nat /\ o \in Nat
    BY <1>3, CountTypes, DocsCount
  <2>2. s3run.runcount = one + n + b + i + o /\ (ended => s3run.runcount = 0 /\ s3run.run \in Runs)
    BY <1>3 DEF CountInv
  <2>3. one1 = IF gone THEN one - 1 ELSE one
    BY <1>1, <1>6, <1>7
  <2>4. gone => one = 1 /\ s3run.run \in Runs
    BY <1>6
  <2>5. one \in {0, 1}
    OBVIOUS
  <2>. HIDE DEF one, n, b, i, o, one1
  <2>6. s3run'.runcount = one1 + n + b + i + o
    BY <1>5, <2>1, <2>2, <2>3, <2>5
  <2>7. Zero(s3run, 1) => s3run.runcount = 1
    BY DEF Zero
  <2>8. ended' => s3run'.runcount = 0 /\ s3run'.run \in Runs
    <3>1. CASE gone
      <4>1. s3run.runcount > 0
        BY <2>1, <2>2, <2>4, <3>1
      <4>2. ~ended
        BY <2>2, <4>1
      <4>3. s3run'.runcount = s3run.runcount - 1 /\ s3run'.run = s3run.run
        BY <1>5, <3>1
      <4>4. ended' => Zero(s3run, 1)
        BY <1>5, <3>1, <4>2
      <4>5. ended' => s3run.runcount = 1
        BY <2>7, <4>4
      <4>. QED BY <2>4, <3>1, <4>3, <4>5
    <3>2. CASE ~gone
      BY <1>5, <2>2, <3>2
    <3>. QED BY <3>1, <3>2
  <2>9. Busy' = Busy
    BY DEF Busy
  <2>. QED BY <1>5, <1>17, <2>6, <2>8, <2>9 DEF CountInv, one1, n, b, i, o
<1>16. OaInv'
  <2>1. oa'.pending = oa.pending /\ oa'.opened = oa.opened
    BY <1>4 DEF FinishedCallbacks
  <2>2. oa'.refcount = IF OpenAdv \in DOMAIN found \ DOMAIN found' THEN oa.refcount - 1 ELSE oa.refcount
    BY <1>2, <1>4 DEF FinishedCallbacks
  <2>3. oa.pending \subseteq Files /\ Cardinality(oa.pending) \in Nat
    BY <1>4, TreeFacts, FS_Subset, FS_CardinalityType
  <2>4. oa'.refcount = Cardinality(oa.pending) + (IF OpenAdv \in DOMAIN found' THEN 1 ELSE 0)
    BY <1>1, <1>3, <2>2, <2>3 DEF OaInv
  <2>. QED BY <1>3, <2>1, <2>4 DEF OaInv
<1>. QED BY <1>1, <1>9, <1>10, <1>11, <1>12, <1>13, <1>14, <1>15, <1>16, <1>17 DEF IInv

-----------------------------------------------------------------------------
(* The queue of the jobs                                                   *)

\* The queue of the jobs meets the assumptions of AsyncQueue.
LEMMA ThreadLimit ==
    /\ MaxThreads \in Nat \ {0} /\ WordSize \in Nat /\ WordSize > MaxThreads
    /\ TP!MaxWorknumAssumption /\ TP!WordSizeAssumption
BY ThreadsAssumption, WordSizeAssumption DEF TP!MaxWorknumAssumption, TP!WordSizeAssumption

\* The two instances of AsyncQueue for the jobs are the same.
LEMMA ThreadRun == ASSUME NEW Q PROVE TQ!Run(Q) = TP!Run(Q) /\ TQ!Started(Q) = TP!Started(Q)
BY DEF TQ!Run, TP!Run, TQ!Started, TP!Started, TQ!NumStarted, TP!NumStarted

\* queue_push of a job: the items that wait and those that are worked on become one more.
LEMMA JobPush ==
    ASSUME NEW S, NEW Q \in TP!Queue(S), TP!Settled(Q), TP!Injective(Q),
           NEW job \in S, ~ TP!Holds(Q, job),
           NEW P, P = TQ!Push(Q, job)
    PROVE  /\ TQ!Run(P) \in TP!Queue(S)
           /\ TP!Settled(TQ!Run(P))
           /\ TP!Injective(TQ!Run(P))
           /\ \/ /\ TQ!Started(P) = {job}
                 /\ Q.worknum < MaxThreads
                 /\ TQ!Run(P).worknum = Q.worknum + 1
                 /\ Len(TQ!Run(P).q) = Len(Q.q)
                 /\ \A s : ~ TP!Holds(TQ!Run(P), s)
                 /\ \A s : ~ TP!Holds(Q, s)
              \/ /\ TQ!Started(P) = {}
                 /\ TQ!Run(P).worknum = Q.worknum
                 /\ Len(TQ!Run(P).q) = Len(Q.q) + 1
                 /\ \A s : TP!Holds(TQ!Run(P), s) <=> (s = job \/ TP!Holds(Q, s))
<1>. DEFINE R == TP!Run(P)
<1>1. P = TP!Push(Q, job)
  BY DEF TQ!Push, TP!Push
<1>2. /\ R \in TP!Queue(S) /\ TP!Settled(R) /\ TP!Injective(R)
      /\ \/ /\ TP!Started(P) = {job}
            /\ Q.worknum < MaxThreads
            /\ R.worknum = Q.worknum + 1
            /\ \A s : ~ TP!Holds(R, s)
            /\ \A s : ~ TP!Holds(Q, s)
         \/ /\ TP!Started(P) = {}
            /\ R.worknum = Q.worknum
            /\ \A s : TP!Holds(R, s) <=> (s = job \/ TP!Holds(Q, s))
  BY <1>1, ThreadLimit, TP!PushRun
<1>3. P.q = <<job>> \o Q.q /\ P.worknum = Q.worknum /\ P \in TP!Queue(S)
  BY <1>1 DEF TP!Push, TP!Queue
<1>4. Len(P.q) = Len(Q.q) + 1 /\ Len(Q.q) \in Nat /\ Q.worknum \in Int
  BY <1>3 DEF TP!Queue
<1>5. R.worknum + Len(R.q) = P.worknum + Len(P.q)
  BY <1>3, ThreadLimit, TP!RunConserves
<1>6. Len(R.q) \in Nat
  BY <1>2 DEF TP!Queue
<1>7. R.worknum = Q.worknum + 1 => Len(R.q) = Len(Q.q)
  BY <1>3, <1>4, <1>5, <1>6
<1>8. R.worknum = Q.worknum => Len(R.q) = Len(Q.q) + 1
  BY <1>3, <1>4, <1>5, <1>6
<1>9. TQ!Run(P) = R /\ TQ!Started(P) = TP!Started(P)
  BY ThreadRun
<1>. HIDE DEF R
<1>. QED BY <1>2, <1>7, <1>8, <1>9

\* A job is pushed: a new thread takes it, or it waits.
LEMMA JobPushed ==
    ASSUME Types, ThreadsInv, ~s3run.cancelled, TP!Injective(threadqueue),
           NEW job \in Jobs, ~Queued(job),
           RunThreads(TQ!Push(threadqueue, job)), s3run'.cancelled = s3run.cancelled
    PROVE  /\ threadqueue' \in TP!Queue(Jobs) /\ TP!Injective(threadqueue')
           /\ worker' \in [DOMAIN worker' -> [job : Jobs, pc : {"load", "search", "ready", "over"}]]
           /\ DOMAIN worker' \subseteq 1 .. MaxThreads
           /\ ThreadsInv'
           /\ \/ \E t \in (1 .. MaxThreads) \ DOMAIN worker :
                    /\ DOMAIN worker' = DOMAIN worker \union {t}
                    /\ worker'[t] = [job |-> job, pc |-> "load"]
                    /\ \A u \in DOMAIN worker : worker'[u] = worker[u]
                    /\ Len(threadqueue'.q) = Len(threadqueue.q)
                    /\ \A s : ~ Queued(s)'
                    /\ \A s : ~ Queued(s)
              \/ /\ worker' = worker
                 /\ Len(threadqueue'.q) = Len(threadqueue.q) + 1
                 /\ \A s : Queued(s)' <=> (s = job \/ Queued(s))
<1>. DEFINE P == TQ!Push(threadqueue, job)
            new == TQ!Started(P)
            fresh == CHOOSE t \in 1 .. MaxThreads : t \notin DOMAIN worker
<1>1. /\ threadqueue' = TQ!Run(P)
      /\ threads' = IF new = {} THEN threads ELSE Append(threads, fresh)
      /\ worker' = [t \in DOMAIN worker \union (IF new = {} THEN {} ELSE {fresh}) |->
                      IF t \in DOMAIN worker THEN worker[t]
                      ELSE [job |-> CHOOSE j \in new : TRUE, pc |-> "load"]]
  BY DEF RunThreads
<1>2. /\ threadqueue \in TP!Queue(Jobs) /\ TP!Settled(threadqueue)
      /\ ~ TP!Holds(threadqueue, job)
      /\ threadqueue.worknum = Cardinality(DOMAIN worker)
      /\ threads \in Seq(1 .. MaxThreads)
      /\ worker \in [DOMAIN worker -> [job : Jobs, pc : {"load", "search", "ready", "over"}]]
      /\ DOMAIN worker \subseteq 1 .. MaxThreads /\ IsFiniteSet(DOMAIN worker)
      /\ MaxThreads \in Nat
  BY CountTypes, ThreadLimit DEF Types, ThreadsInv, Queued
<1>3. /\ TQ!Run(P) \in TP!Queue(Jobs)
      /\ TP!Settled(TQ!Run(P))
      /\ TP!Injective(TQ!Run(P))
      /\ \/ /\ new = {job}
            /\ threadqueue.worknum < MaxThreads
            /\ TQ!Run(P).worknum = threadqueue.worknum + 1
            /\ Len(TQ!Run(P).q) = Len(threadqueue.q)
            /\ \A s : ~ TP!Holds(TQ!Run(P), s)
            /\ \A s : ~ TP!Holds(threadqueue, s)
         \/ /\ new = {}
            /\ TQ!Run(P).worknum = threadqueue.worknum
            /\ Len(TQ!Run(P).q) = Len(threadqueue.q) + 1
            /\ \A s : TP!Holds(TQ!Run(P), s) <=> (s = job \/ TP!Holds(threadqueue, s))
  BY <1>2, JobPush
<1>. HIDE DEF P, new
<1>4. CASE /\ new = {job}
           /\ threadqueue.worknum < MaxThreads
           /\ TQ!Run(P).worknum = threadqueue.worknum + 1
           /\ Len(TQ!Run(P).q) = Len(threadqueue.q)
           /\ \A s : ~ TP!Holds(TQ!Run(P), s)
           /\ \A s : ~ TP!Holds(threadqueue, s)
  <2>1. fresh \in 1 .. MaxThreads /\ fresh \notin DOMAIN worker
    <3>1. Cardinality(1 .. MaxThreads) = MaxThreads
      BY <1>2, FS_Interval
    <3>2. DOMAIN worker # 1 .. MaxThreads
      BY <1>2, <1>4, <3>1
    <3>3. \E t \in 1 .. MaxThreads : t \notin DOMAIN worker
      BY <1>2, <3>2
    <3>. QED BY <3>3
  <2>. HIDE DEF fresh
  <2>2. threads' = Append(threads, fresh)
    BY <1>1, <1>4
  <2>3. (CHOOSE j \in new : TRUE) = job
    BY <1>4
  <2>4. /\ DOMAIN worker' = DOMAIN worker \union {fresh}
        /\ worker'[fresh] = [job |-> job, pc |-> "load"]
        /\ \A u \in DOMAIN worker : worker'[u] = worker[u]
    BY <1>1, <1>4, <2>1, <2>3
  <2>5. worker' \in [DOMAIN worker' -> [job : Jobs, pc : {"load", "search", "ready", "over"}]]
    <3>1. \A u \in DOMAIN worker' : worker'[u] \in [job : Jobs, pc : {"load", "search", "ready", "over"}]
      BY <1>2, <2>4
    <3>2. worker' = [u \in DOMAIN worker' |-> worker'[u]]
      BY <1>1
    <3>. QED BY <3>1, <3>2
  <2>6. DOMAIN worker' \subseteq 1 .. MaxThreads
    BY <1>2, <2>1, <2>4
  <2>7. threadqueue'.worknum = Cardinality(DOMAIN worker')
    <3>1. Cardinality(DOMAIN worker') = Cardinality(DOMAIN worker) + 1
      BY <1>2, <2>1, <2>4, FS_AddElement
    <3>. QED BY <1>1, <1>2, <1>4, <3>1
  <2>8. /\ threads' \in Seq(1 .. MaxThreads) /\ Len(threads') = Len(threads) + 1
        /\ \A i \in 1 .. Len(threads) : threads'[i] = threads[i]
        /\ threads'[Len(threads) + 1] = fresh
        /\ Len(threads) \in Nat
    BY <1>2, <2>1, <2>2
  <2>9. {threads[i] : i \in 1 .. Len(threads)} = DOMAIN worker
    BY DEF ThreadsInv
  <2>10. \A i \in 1 .. Len(threads') : i = Len(threads) + 1 \/ i \in 1 .. Len(threads)
    BY <2>8
  <2>11. {threads'[i] : i \in 1 .. Len(threads')} = DOMAIN worker'
    <3>1. 1 .. Len(threads') = (1 .. Len(threads)) \union {Len(threads) + 1}
      BY <2>8
    <3>. QED BY <2>4, <2>8, <2>9, <3>1
  <2>12. \A i, k \in 1 .. Len(threads') : threads'[i] = threads'[k] => i = k
    <3>. SUFFICES ASSUME NEW i \in 1 .. Len(threads'), NEW k \in 1 .. Len(threads'), threads'[i] = threads'[k]
                  PROVE  i = k
      OBVIOUS
    <3>1. \A m \in 1 .. Len(threads) : threads'[m] # fresh
      BY <2>1, <2>8, <2>9
    <3>2. CASE i \in 1 .. Len(threads) /\ k \in 1 .. Len(threads)
      BY <2>8, <3>2 DEF ThreadsInv
    <3>. QED BY <2>8, <2>10, <3>1, <3>2
  <2>13. \A u \in DOMAIN worker' : worker'[u].pc # "over"
    <3>1. \A u \in DOMAIN worker : worker[u].pc # "over"
      BY DEF ThreadsInv
    <3>. QED BY <2>4, <3>1
  <2>14. ThreadsInv'
    BY <1>1, <1>3, <2>7, <2>8, <2>11, <2>12, <2>13 DEF ThreadsInv
  <2>15. (\A s : ~ Queued(s)') /\ (\A s : ~ Queued(s))
    BY <1>1, <1>4 DEF Queued
  <2>. QED BY <1>1, <1>3, <1>4, <2>1, <2>4, <2>5, <2>6, <2>14, <2>15
<1>5. CASE /\ new = {}
           /\ TQ!Run(P).worknum = threadqueue.worknum
           /\ Len(TQ!Run(P).q) = Len(threadqueue.q) + 1
           /\ \A s : TP!Holds(TQ!Run(P), s) <=> (s = job \/ TP!Holds(threadqueue, s))
  <2>. HIDE DEF fresh
  <2>1. threads' = threads
    BY <1>1, <1>5
  <2>2. worker' = worker
    <3>1. DOMAIN worker \union {} = DOMAIN worker
      OBVIOUS
    <3>2. worker = [t \in DOMAIN worker |-> worker[t]]
      BY <1>2
    <3>. QED BY <1>1, <1>5, <3>1, <3>2
  <2>3. ThreadsInv'
    BY <1>1, <1>2, <1>3, <1>5, <2>1, <2>2 DEF ThreadsInv
  <2>4. \A s : Queued(s)' <=> (s = job \/ Queued(s))
    BY <1>1, <1>5 DEF Queued
  <2>. QED BY <1>1, <1>2, <1>3, <1>5, <2>2, <2>3, <2>4
<1>. QED BY <1>3, <1>4, <1>5

-----------------------------------------------------------------------------
(* The steps                                                               *)

\* A step that leaves FindFiles alone leaves its invariant.
LEMMA FilesSame ==
    ASSUME FilesInv, UNCHANGED ffvars
    PROVE  FilesInv'
<1>1. DirsInv'
  BY DEF FilesInv, DirsInv, ffvars
<1>2. FoundInv'
  BY DEF FilesInv, FoundInv, RefsMatch, Of, ffvars
<1>3. MetOnce'
  BY DEF FilesInv, MetOnce, ffvars
<1>. QED BY <1>1, <1>2, <1>3 DEF FilesInv

\* No search is whole that was not.
LEMMA CoveredSame ==
    ASSUME Covered, UNCHANGED ffvars, incomplete' = incomplete,
           \A f : Whole(f)' => Whole(f)
    PROVE  Covered'
BY DEF Covered, CoveredOf, ToCome, ffvars

\* The finished_cb of no search.
LEMMA NoneFinished ==
    ASSUME DOMAIN found' = DOMAIN found
    PROVE  /\ Finished = {}
           /\ FinishedCallbacks(Finished) => UNCHANGED <<s3run, ended, oa>>
<1>1. Finished = {}
  BY DEF Finished
<1>. QED BY <1>1 DEF FinishedCallbacks

\* enumerate_children_lcb, of a directory that opens and of one that does not
LEMMA EnumerateStep ==
    ASSUME IInv, misuse = {}, NEW d \in DOMAIN left, NEW ok \in BOOLEAN, EnumerateChildrenLcb(d, ok)
    PROVE  IInv'
<1>1. /\ EnumerateChildren(d, ok) /\ FinishedCallbacks(Finished)
      /\ incomplete' = IF ok THEN incomplete ELSE incomplete \union {d.search}
      /\ UNCHANGED <<threadqueue, threads, worker, docvars, idles, join, reported, disturbed, misuse>>
      /\ seen' = seen
  BY DEF EnumerateChildrenLcb, EnumerateChildren
<1>2. CASE ok
  <2>1. /\ left' = [left EXCEPT ![d] = [opened |-> TRUE, entries |-> left[d].entries]]
        /\ UNCHANGED <<ffdqueue, found, dirs, seen>>
    BY <1>1, <1>2 DEF EnumerateChildren
  <2>2. FilesInv' /\ KeepsLeft
    BY <2>1, OpenedFiles DEF IInv
  <2>3. UNCHANGED <<s3run, ended, oa, incomplete>>
    BY <1>1, <1>2, <2>1, NoneFinished
  <2>4. Covered'
    <3>1. \A f : CoveredOf(f) => CoveredOf(f)'
      BY <2>1, <2>2, CoveredKept
    <3>. QED BY <2>3, <3>1 DEF IInv, Covered, Whole
  <2>5. Types' /\ ThreadsInv' /\ JoinInv'
    BY <1>1, <2>3 DEF IInv, Types, ThreadsInv, JoinInv
  <2>6. RunsInv' /\ OaInv'
    BY <1>1, <2>1, <2>3 DEF IInv, RunsInv, OaInv
  <2>8. DocsInv' /\ Docs' = Docs
    BY <1>1, <2>3, DocsSame DEF IInv
  <2>7. JobsInv' /\ CountInv'
    BY <1>1, <2>1, <2>3, <2>8 DEF IInv, JobsInv, CountInv, Busy, Queued, Worked
  <2>. QED BY <2>2, <2>4, <2>5, <2>6, <2>7, <2>8 DEF IInv
<1>3. CASE ~ok
  BY <1>1, <1>3, CleanupStep DEF EnumerateChildren
<1>. QED BY <1>2, <1>3

\* open_advanced_filematch_cb: the files wait for the content filter, or are open already.
OpenAdvFilematch(files) ==
    \/ oa' = [oa EXCEPT !.pending = @ \union files, !.refcount = @ + Cardinality(files)]
    \/ oa' = [oa EXCEPT !.opened = @ \union files]

\* A chunk of the open advanced: its file waits for the content filter.
LEMMA ReadOpenStep ==
    ASSUME IInv, NEW d \in DOMAIN left, NEW e \in left[d].entries,
           NextFiles(d, {e}), ~found[d.search].cancel, d.search = OpenAdv,
           OpenAdvFilematch(Matches({e})),
           UNCHANGED <<s3run, threadqueue, threads, worker, docvars, ended,
                       idles, join, reported, incomplete, disturbed, misuse>>
    PROVE  IInv'
<1>1. /\ FilesInv'
      /\ DOMAIN found' = DOMAIN found
      /\ \A g \in DOMAIN found : found'[g].cancel = found[g].cancel
      /\ seen' = [seen EXCEPT ![OpenAdv] = IF Meets(d, e) THEN @ \union {e} ELSE @]
  BY ReadFiles DEF IInv
<1>2. e \in Entries /\ e \notin seen[OpenAdv]
  BY NotMetTwice DEF IInv
<1>3. seen \in [Searches -> SUBSET Entries]
  BY DEF IInv, FilesInv, MetOnce
<1>4. /\ seen'[OpenAdv] = IF Meets(d, e) THEN seen[OpenAdv] \union {e} ELSE seen[OpenAdv]
      /\ \A g \in Searches : seen[g] \subseteq seen'[g]
      /\ \A g \in Runs : seen'[g] = seen[g]
  BY <1>1, <1>3, SearchFacts
<1>5. Covered'
  <2>1. \A g \in Searches : CoveredOf(g) => CoveredOf(g)'
    BY CoveredRead DEF IInv
  <2>. QED BY <2>1 DEF IInv, Covered, Whole
<1>6. oa \in [refcount : Int, pending : SUBSET Files, opened : SUBSET Files]
  BY DEF IInv, Types
<1>. DEFINE files == Matches({e})
<1>7. files \subseteq Files /\ IsFiniteSet(files) /\ Cardinality(files) \in Nat
  BY TreeFacts, FS_Subset, FS_CardinalityType DEF Matches
<1>a. ASSUME oa' = [oa EXCEPT !.opened = @ \union files]
      PROVE  /\ oa' \in [refcount : Int, pending : SUBSET Files, opened : SUBSET Files]
             /\ oa'.pending = oa.pending /\ oa'.opened = oa.opened \union files
             /\ oa'.refcount = oa.refcount
  <2>. DEFINE p == oa.opened \union files
  <2>1. p \in SUBSET Files /\ oa' = [oa EXCEPT !.opened = p]
    BY <1>6, <1>7, <1>a
  <2>. HIDE DEF p
  <2>2. /\ oa' \in [refcount : Int, pending : SUBSET Files, opened : SUBSET Files]
        /\ oa'.pending = oa.pending /\ oa'.opened = p /\ oa'.refcount = oa.refcount
    BY <1>6, <2>1
  <2>. QED BY <2>2 DEF p
<1>b. ASSUME oa' = [oa EXCEPT !.pending = @ \union files, !.refcount = @ + Cardinality(files)]
      PROVE  oa' \in [refcount : Int, pending : SUBSET Files, opened : SUBSET Files]
  <2>. DEFINE r == oa.refcount + Cardinality(files)
              p == oa.pending \union files
  <2>0. oa.refcount \in Int /\ oa.pending \subseteq Files
    BY <1>6
  <2>1. r \in Int /\ p \in SUBSET Files
    <3>. HIDE DEF files
    <3>1. r \in Int
      BY <1>7, <2>0
    <3>2. p \in SUBSET Files
      BY <1>7, <2>0
    <3>. QED BY <3>1, <3>2
  <2>2. oa' = [oa EXCEPT !.pending = p, !.refcount = r]
    BY <1>b
  <2>. HIDE DEF r, p
  <2>. QED BY <1>6, <2>1, <2>2
<1>c. \/ oa' = [oa EXCEPT !.opened = @ \union files]
      \/ oa' = [oa EXCEPT !.pending = @ \union files, !.refcount = @ + Cardinality(files)]
  BY DEF OpenAdvFilematch
<1>8. oa' \in [refcount : Int, pending : SUBSET Files, opened : SUBSET Files]
  BY <1>a, <1>b, <1>c
<1>9. \/ /\ oa'.pending = oa.pending \union files /\ oa'.opened = oa.opened
         /\ oa'.refcount = oa.refcount + Cardinality(files)
      \/ /\ oa'.pending = oa.pending /\ oa'.opened = oa.opened \union files
         /\ oa'.refcount = oa.refcount
  BY <1>6, <1>a, <1>c
<1>10. Types' /\ ThreadsInv' /\ JoinInv'
  BY <1>8 DEF IInv, Types, ThreadsInv, JoinInv
<1>11. RunsInv'
  BY <1>1, <1>4, SearchFacts DEF IInv, RunsInv
<1>14. DocsInv' /\ Docs' = Docs
  BY <1>4, DocsSame DEF IInv
<1>12. JobsInv' /\ CountInv'
  <2>1. s3run.run \in Runs => seen'[s3run.run] = seen[s3run.run]
    BY <1>4
  <2>2. \A job \in idles : job[1] \in Runs
    BY DEF IInv, Types, Jobs
  <2>3. JobsInv'
    <3>1. JobsInv
      BY DEF IInv
    <3>2. \A job \in Jobs : job[1] \in Runs
      BY DEF Jobs
    <3>. QED BY <1>14, <2>1, <2>2, <3>1, <3>2 DEF JobsInv, Busy, Queued, Worked
  <2>4. CountInv'
    BY <1>1, <1>14 DEF IInv, CountInv, Busy
  <2>. QED BY <2>3, <2>4
<1>13. OaInv'
  <2>1. OaInv
    BY DEF IInv
  <2>2. seen'[OpenAdv] \intersect Files = (seen[OpenAdv] \intersect Files) \union files
    BY <1>4 DEF Meets, Matches
  <2>3. oa'.pending \union oa'.opened = seen'[OpenAdv] \intersect Files
    BY <1>9, <2>1, <2>2 DEF OaInv
  <2>4. files \intersect oa.pending = {}
    BY <1>2, <2>1 DEF OaInv, Matches
  <2>5. Cardinality(oa.pending \union files) = Cardinality(oa.pending) + Cardinality(files)
    <3>1. IsFiniteSet(oa.pending)
      BY <1>6, TreeFacts, FS_Subset
    <3>2. oa.pending \intersect files = {} /\ Cardinality({}) = 0
      BY <2>4, FS_EmptySet
    <3>3. Cardinality(oa.pending) \in Nat
      BY <3>1, FS_CardinalityType
    <3>. HIDE DEF files
    <3>4. Cardinality(oa.pending \union files) = Cardinality(oa.pending) + Cardinality(files) - Cardinality(oa.pending \intersect files)
      BY <1>7, <3>1, FS_Union
    <3>5. Cardinality(oa.pending \intersect files) = 0
      BY <3>2
    <3>. QED BY <1>7, <3>3, <3>4, <3>5
  <2>6. Cardinality(oa.pending) \in Nat
    <3>1. IsFiniteSet(oa.pending)
      BY <1>6, TreeFacts, FS_Subset
    <3>. QED BY <3>1, FS_CardinalityType
  <2>. HIDE DEF files
  <2>8. CASE oa'.pending = oa.pending /\ oa'.refcount = oa.refcount
    BY <1>1, <2>1, <2>3, <2>8 DEF OaInv
  <2>9. ASSUME oa'.pending = oa.pending \union files, oa'.refcount = oa.refcount + Cardinality(files)
        PROVE  oa'.refcount = Cardinality(oa'.pending) + (IF OpenAdv \in DOMAIN found' THEN 1 ELSE 0)
    <3>. DEFINE one == IF OpenAdv \in DOMAIN found THEN 1 ELSE 0
                one1 == IF OpenAdv \in DOMAIN found' THEN 1 ELSE 0
    <3>1. one1 = one /\ one \in Nat
      BY <1>1
    <3>2. oa.refcount = Cardinality(oa.pending) + one
      BY <2>1 DEF OaInv
    <3>3. Cardinality(oa'.pending) = Cardinality(oa.pending) + Cardinality(files)
      BY <2>9, <2>5
    <3>. HIDE DEF one, one1
    <3>4. oa'.refcount = Cardinality(oa'.pending) + one1
      BY <1>7, <2>9, <2>6, <3>1, <3>2, <3>3
    <3>. QED BY <3>4 DEF one1
  <2>. QED BY <1>9, <2>3, <2>8, <2>9 DEF OaInv
<1>. QED BY <1>1, <1>5, <1>10, <1>11, <1>12, <1>13, <1>14 DEF IInv

\* A chunk of a run whose file is open: the document is searched, or waits for that.
LEMMA ReadDocStep ==
    ASSUME IInv, misuse = {}, NEW d \in DOMAIN left, NEW e \in left[d].entries,
           NextFiles(d, {e}), ~found[d.search].cancel, d.search # OpenAdv, e \in Files,
           RunInDoc([s3run EXCEPT !.runcount = @ + 1], <<d.search, e>>),
           UNCHANGED <<threadqueue, threads, worker, oa, ended, idles, join, reported, incomplete,
                       disturbed, misuse>>
    PROVE  IInv'
<1>. DEFINE g == d.search
            job == <<g, e>>
<1>1. /\ FilesInv'
      /\ DOMAIN found' = DOMAIN found
      /\ \A h \in DOMAIN found : found'[h].cancel = found[h].cancel
      /\ seen' = [seen EXCEPT ![g] = IF Meets(d, e) THEN @ \union {e} ELSE @]
  BY ReadFiles DEF IInv
<1>2. g \in Searches /\ g \in DOMAIN found /\ e \in Entries /\ e \notin seen[g]
  BY NotMetTwice DEF IInv
<1>3. /\ FilesInv /\ Covered /\ Types /\ ThreadsInv /\ JoinInv /\ RunsInv /\ DocsInv
      /\ JobsInv /\ CountInv /\ OaInv
  BY DEF IInv
<1>4. g \in Runs /\ g = s3run.run /\ ~s3run.cancelled
  <2>1. g \in Runs
    BY <1>2, SearchFacts
  <2>. QED BY <1>2, <1>3, <2>1 DEF RunsInv
<1>5. seen \in [Searches -> SUBSET Entries]
  BY <1>3 DEF FilesInv, MetOnce
<1>6. /\ seen'[g] = seen[g] \union {e}
      /\ \A h \in Searches : seen[h] \subseteq seen'[h]
      /\ \A h \in Runs : seen[h] \subseteq seen'[h]
      /\ seen'[OpenAdv] = seen[OpenAdv]
  <2>1. Meets(d, e)
    BY DEF Meets
  <2>. QED BY <1>1, <1>2, <1>4, <1>5, <2>1, SearchFacts
<1>7. s3run \in S3run /\ s3run.runcount \in Int
  BY <1>3, RunFields DEF Types
<1>8. job \in Jobs /\ job[1] = g /\ job[2] = e
  BY <1>4 DEF Jobs
<1>. DEFINE Q == DQ!Push(idlequeue, job)
            r == s3run.runcount + 1
            i1 == s3run.idle_id \/ DQ!Started(Q) # {}
<1>9. /\ r \in Int /\ i1 \in BOOLEAN
      /\ s3run' = [s3run EXCEPT !.runcount = r, !.idle_id = i1]
      /\ idlequeue' = DQ!Run(Q) /\ indoc' = indoc \union DQ!Started(Q)
  BY <1>7 DEF RunInDoc, S3run
<1>. HIDE DEF job, Q, r, i1
<1>10. /\ s3run' \in S3run /\ s3run'.runcount = r /\ s3run'.idle_id = i1
       /\ s3run'.alive = s3run.alive /\ s3run'.run = s3run.run
       /\ s3run'.cancelled = s3run.cancelled /\ s3run'.interrupted = s3run.interrupted
       /\ s3run'.findfiles = s3run.findfiles
  BY <1>7, <1>9 DEF S3run
<1>11. job \notin Docs
  BY <1>2, <1>3, <1>4, <1>8 DEF DocsInv
<1>12. /\ DP!Serves(Jobs, idlequeue', Docs' \ indoc', indoc')
       /\ idlequeue'.worknum <= 1 /\ IsFiniteSet(Docs')
       /\ Docs' = Docs \union {job}
       /\ DQ!Started(Q) # {} => indoc' # {}
       /\ indoc \subseteq indoc'
  BY <1>3, <1>8, <1>9, <1>11, DocPush DEF Q
<1>13. DocsInv'
  <2>1. s3run'.idle_id => indoc' # {}
    BY <1>3, <1>10, <1>12 DEF DocsInv, i1
  <2>2. \A j \in Docs : j[1] <= s3run.run /\ (j[1] = s3run.run => j[2] \in seen'[s3run.run])
    BY <1>3, <1>4, <1>6 DEF DocsInv
  <2>3. s3run.run <= s3run.run
    BY <1>7, RunFields
  <2>4. \A j \in Docs' : j[1] <= s3run.run /\ (j[1] = s3run.run => j[2] \in seen'[s3run.run])
    BY <1>4, <1>6, <1>8, <1>12, <2>2, <2>3
  <2>. QED BY <1>4, <1>10, <1>12, <2>1, <2>4 DEF DocsInv
<1>14. Covered'
  <2>1. \A h \in Searches : CoveredOf(h) => CoveredOf(h)'
    BY CoveredRead DEF IInv
  <2>. QED BY <1>3, <1>10, <2>1 DEF Covered, Whole
<1>15. Types' /\ ThreadsInv'
  BY <1>3, <1>10 DEF Types, ThreadsInv
<1>16. JoinInv'
  BY <1>3, <1>10 DEF JoinInv
<1>17. RunsInv'
  BY <1>1, <1>3, <1>6, <1>10, SearchFacts DEF RunsInv
<1>18. JobsInv'
  <2>1. \A i \in idles : i[1] <= s3run.run /\ (i[1] = s3run.run => i[2] \in seen'[s3run.run])
    BY <1>3, <1>4, <1>6 DEF JobsInv
  <2>2. \A f \in seen'[s3run.run] \intersect Files :
             LET jb == <<s3run.run, f>> IN
             f \in reported \/ Queued(jb) \/ Worked(jb) \/ jb \in idles \/ jb \in Docs'
    <3>. SUFFICES ASSUME NEW f \in seen'[s3run.run] \intersect Files
                  PROVE  LET jb == <<s3run.run, f>> IN
                         f \in reported \/ Queued(jb) \/ Worked(jb) \/ jb \in idles \/ jb \in Docs'
      OBVIOUS
    <3>1. CASE f = e
      BY <1>4, <1>12, <3>1 DEF job
    <3>2. CASE f # e
      <4>1. f \in seen[s3run.run] \intersect Files
        BY <1>4, <1>6, <3>2
      <4>. QED BY <1>3, <1>4, <1>12, <4>1 DEF JobsInv
    <3>. QED BY <3>1, <3>2
  <2>3. \A j \in Jobs : Queued(j) \/ Worked(j) =>
             j[1] = s3run.run /\ j[2] \in seen'[s3run.run] /\ j \notin idles
    BY <1>3, <1>4, <1>6 DEF JobsInv
  <2>4. /\ TP!Injective(threadqueue)
        /\ \A j \in Jobs : ~(Queued(j) /\ Worked(j))
        /\ \A t, u \in Busy : worker[t].job = worker[u].job => t = u
    BY <1>3, <1>4 DEF JobsInv
  <2>5. Busy' = Busy /\ \A j : (Queued(j)' <=> Queued(j)) /\ (Worked(j)' <=> Worked(j))
    BY DEF Busy, Queued, Worked
  <2>. QED BY <1>10, <2>1, <2>2, <2>3, <2>4, <2>5 DEF JobsInv
<1>19. CountInv'
  <2>. SUFFICES ASSUME ~disturbed PROVE CountInv'
    BY DEF CountInv
  <2>. DEFINE one == IF s3run.run \in Runs \intersect DOMAIN found THEN 1 ELSE 0
              n == Len(threadqueue.q)
              b == Cardinality(Busy)
              i == Cardinality({x \in idles : x[1] = s3run.run})
              o == Cardinality({x \in Docs : x[1] = s3run.run})
              o1 == Cardinality({x \in Docs' : x[1] = s3run'.run})
  <2>1. s3run.runcount = one + n + b + i + o /\ (ended => s3run.runcount = 0)
    BY <1>3, <1>4 DEF CountInv
  <2>2. o1 = o + 1
    <3>1. {x \in Docs' : x[1] = s3run'.run} = {x \in Docs : x[1] = s3run.run} \union {job}
      BY <1>4, <1>8, <1>10, <1>12
    <3>2. job \notin {x \in Docs : x[1] = s3run.run}
      BY <1>11
    <3>. QED BY <1>3, <3>1, <3>2, DocsCount, FS_AddElement
  <2>3. one = 1 /\ n \in Nat /\ b \in Nat /\ i \in Nat /\ o \in Nat
    BY <1>2, <1>3, <1>4, CountTypes, DocsCount
  <2>4. /\ one = (IF s3run'.run \in Runs \intersect DOMAIN found' THEN 1 ELSE 0)
        /\ i = Cardinality({x \in idles' : x[1] = s3run'.run})
        /\ b = Cardinality(Busy') /\ n = Len(threadqueue'.q)
    BY <1>1, <1>10 DEF Busy
  <2>. HIDE DEF one, n, b, i, o, o1
  <2>5. s3run'.runcount = one + n + b + i + o1
    BY <1>10, <2>1, <2>2, <2>3 DEF r
  <2>6. ~ended
    BY <2>1, <2>3
  <2>. QED BY <2>4, <2>5, <2>6 DEF CountInv, o1
<1>20. OaInv'
  BY <1>1, <1>3, <1>6 DEF OaInv
<1>. QED BY <1>1, <1>13, <1>14, <1>15, <1>16, <1>17, <1>18, <1>19, <1>20 DEF IInv

\* A chunk of a run: its file is pushed on the queue of the jobs.
LEMMA ReadRunStep ==
    ASSUME IInv, misuse = {}, NEW d \in DOMAIN left, NEW e \in left[d].entries,
           NextFiles(d, {e}), ~found[d.search].cancel, d.search # OpenAdv,
           FileMatch(d.search, Matches({e})),
           UNCHANGED <<oa, ended, idles, join, reported, incomplete, disturbed, misuse>>
    PROVE  IInv'
<1>. DEFINE g == d.search
            job == <<g, e>>
<1>1. /\ FilesInv'
      /\ DOMAIN found' = DOMAIN found
      /\ \A h \in DOMAIN found : found'[h].cancel = found[h].cancel
      /\ seen' = [seen EXCEPT ![g] = IF Meets(d, e) THEN @ \union {e} ELSE @]
  BY ReadFiles DEF IInv
<1>2. g \in Searches /\ g \in DOMAIN found /\ e \in Entries /\ e \notin seen[g]
  BY NotMetTwice DEF IInv
<1>3. /\ FilesInv /\ Covered /\ Types /\ ThreadsInv /\ JoinInv /\ RunsInv /\ DocsInv
      /\ JobsInv /\ CountInv /\ OaInv
  BY DEF IInv
<1>4. g \in Runs /\ g = s3run.run /\ ~s3run.cancelled
  <2>1. g \in Runs
    BY <1>2, SearchFacts
  <2>. QED BY <1>2, <1>3, <2>1 DEF RunsInv
<1>5. seen \in [Searches -> SUBSET Entries]
  BY <1>3 DEF FilesInv, MetOnce
<1>6. /\ seen'[g] = IF Meets(d, e) THEN seen[g] \union {e} ELSE seen[g]
      /\ \A h \in Searches : seen[h] \subseteq seen'[h]
      /\ seen'[OpenAdv] = seen[OpenAdv]
  BY <1>1, <1>2, <1>4, <1>5, SearchFacts
<1>7. s3run \in S3run /\ s3run.runcount \in Int
  BY <1>3, RunFields DEF Types
<1>10. ASSUME e \in Files
       PROVE  \/ /\ s3run' = [s3run EXCEPT !.runcount = @ + 1]
                 /\ RunThreads(TQ!Push(threadqueue, job)) /\ UNCHANGED docvars
              \/ /\ RunInDoc([s3run EXCEPT !.runcount = @ + 1], job)
                 /\ UNCHANGED <<threadqueue, threads, worker>>
  <2>1. Matches({e}) = {e} /\ (CHOOSE f \in {e} : TRUE) = e
    BY <1>10 DEF Matches
  <2>. QED BY <1>4, <2>1 DEF FileMatch
<1>8. ASSUME e \in Files, s3run' = [s3run EXCEPT !.runcount = @ + 1],
             RunThreads(TQ!Push(threadqueue, job)), UNCHANGED docvars
      PROVE  IInv'
  <2>2. /\ s3run' = [s3run EXCEPT !.runcount = @ + 1]
        /\ RunThreads(TQ!Push(threadqueue, job))
    BY <1>8
  <2>3. /\ s3run' \in S3run /\ s3run'.runcount = s3run.runcount + 1
        /\ s3run'.alive = s3run.alive /\ s3run'.run = s3run.run
        /\ s3run'.cancelled = s3run.cancelled /\ s3run'.interrupted = s3run.interrupted
        /\ s3run'.findfiles = s3run.findfiles /\ s3run'.idle_id = s3run.idle_id
    <3>. DEFINE r == s3run.runcount + 1
    <3>1. r \in Int /\ s3run' = [s3run EXCEPT !.runcount = r]
      BY <1>7, <2>2
    <3>. HIDE DEF r
    <3>2. s3run' \in S3run
      BY <1>7, <3>1 DEF S3run
    <3>3. /\ s3run'.alive = s3run.alive /\ s3run'.run = s3run.run
          /\ s3run'.cancelled = s3run.cancelled /\ s3run'.interrupted = s3run.interrupted
          /\ s3run'.findfiles = s3run.findfiles /\ s3run'.idle_id = s3run.idle_id
      BY <1>7, <3>1 DEF S3run
    <3>4. s3run'.runcount = r
      BY <1>7, <3>1 DEF S3run
    <3>. QED BY <3>2, <3>3, <3>4 DEF r
  <2>4. job \in Jobs /\ job[1] = g /\ job[2] = e
    BY <1>4, <1>8 DEF Jobs
  <2>5. ~Queued(job) /\ ~Worked(job) /\ job \notin idles
    BY <1>2, <1>3, <1>4, <2>4 DEF JobsInv
  <2>6. TP!Injective(threadqueue)
    BY <1>3, <1>4 DEF JobsInv
  <2>. HIDE DEF job
  <2>7. /\ threadqueue' \in TP!Queue(Jobs) /\ TP!Injective(threadqueue')
        /\ worker' \in [DOMAIN worker' -> [job : Jobs, pc : {"load", "search", "ready", "over"}]]
        /\ DOMAIN worker' \subseteq 1 .. MaxThreads
        /\ ThreadsInv'
        /\ \/ \E t \in (1 .. MaxThreads) \ DOMAIN worker :
                    /\ DOMAIN worker' = DOMAIN worker \union {t}
                    /\ worker'[t] = [job |-> job, pc |-> "load"]
                    /\ \A u \in DOMAIN worker : worker'[u] = worker[u]
                    /\ Len(threadqueue'.q) = Len(threadqueue.q)
                    /\ \A s : ~ Queued(s)'
                    /\ \A s : ~ Queued(s)
           \/ /\ worker' = worker
              /\ Len(threadqueue'.q) = Len(threadqueue.q) + 1
              /\ \A s : Queued(s)' <=> (s = job \/ Queued(s))
    BY <1>3, <1>4, <2>2, <2>3, <2>4, <2>5, <2>6, JobPushed
  <2>8. /\ IsFiniteSet(Busy) /\ Cardinality(Busy) \in Nat
        /\ Len(threadqueue.q) \in Nat
        /\ Cardinality({i \in idles : i[1] = s3run.run}) \in Nat
    BY <1>3, CountTypes
  <2>9. /\ TP!Injective(threadqueue')
        /\ \A j \in Jobs : (Queued(j) \/ Worked(j))' <=> (Queued(j) \/ Worked(j) \/ j = job)
        /\ \A j \in Jobs : ~(Queued(j) /\ Worked(j))'
        /\ (\A t, u \in Busy : worker[t].job = worker[u].job => t = u)'
        /\ Len(threadqueue.q)' + Cardinality(Busy)' = Len(threadqueue.q) + Cardinality(Busy) + 1
        /\ (Len(threadqueue.q) \in Nat)' /\ (Cardinality(Busy) \in Nat)'
    <3>1. ASSUME NEW t \in (1 .. MaxThreads) \ DOMAIN worker,
                 DOMAIN worker' = DOMAIN worker \union {t},
                 worker'[t] = [job |-> job, pc |-> "load"],
                 \A u \in DOMAIN worker : worker'[u] = worker[u],
                 Len(threadqueue'.q) = Len(threadqueue.q),
                 \A s : ~ Queued(s)',
                 \A s : ~ Queued(s)
          PROVE  /\ \A j \in Jobs : (Queued(j) \/ Worked(j))' <=> (Queued(j) \/ Worked(j) \/ j = job)
                 /\ \A j \in Jobs : ~(Queued(j) /\ Worked(j))'
                 /\ (\A x, u \in Busy : worker[x].job = worker[u].job => x = u)'
                 /\ Len(threadqueue.q)' + Cardinality(Busy)' = Len(threadqueue.q) + Cardinality(Busy) + 1
                 /\ (Len(threadqueue.q) \in Nat)' /\ (Cardinality(Busy) \in Nat)'
      <4>1. Busy' = Busy \union {t} /\ t \notin Busy
        BY <3>1 DEF Busy
      <4>2. Cardinality(Busy') = Cardinality(Busy) + 1
        BY <2>8, <4>1, FS_AddElement
      <4>3. \A u \in Busy : worker'[u] = worker[u]
        BY <3>1 DEF Busy
      <4>4. worker'[t].job = job
        BY <3>1
      <4>5. \A j : Worked(j)' <=> (Worked(j) \/ j = job)
        BY <4>1, <4>3, <4>4 DEF Worked
      <4>6. \A u \in Busy : worker[u].job # job
        BY <2>5 DEF Worked
      <4>7. \A x, u \in Busy : worker[x].job = worker[u].job => x = u
        BY <1>3, <1>4 DEF JobsInv
      <4>8. (\A x, u \in Busy : worker[x].job = worker[u].job => x = u)'
        BY <4>1, <4>3, <4>4, <4>6, <4>7
      <4>9. \A j \in Jobs : (Queued(j) \/ Worked(j))' <=> (Queued(j) \/ Worked(j) \/ j = job)
        BY <3>1, <4>5
      <4>10. \A j \in Jobs : ~(Queued(j) /\ Worked(j))'
        BY <3>1
      <4>. QED BY <2>8, <3>1, <4>2, <4>8, <4>9, <4>10
    <3>2. ASSUME worker' = worker,
                 Len(threadqueue'.q) = Len(threadqueue.q) + 1,
                 \A s : Queued(s)' <=> (s = job \/ Queued(s))
          PROVE  /\ \A j \in Jobs : (Queued(j) \/ Worked(j))' <=> (Queued(j) \/ Worked(j) \/ j = job)
                 /\ \A j \in Jobs : ~(Queued(j) /\ Worked(j))'
                 /\ (\A x, u \in Busy : worker[x].job = worker[u].job => x = u)'
                 /\ Len(threadqueue.q)' + Cardinality(Busy)' = Len(threadqueue.q) + Cardinality(Busy) + 1
                 /\ (Len(threadqueue.q) \in Nat)' /\ (Cardinality(Busy) \in Nat)'
      <4>1. Busy' = Busy
        BY <3>2 DEF Busy
      <4>2. \A j : Worked(j)' <=> Worked(j)
        BY <3>2, <4>1 DEF Worked
      <4>3. \A x, u \in Busy : worker[x].job = worker[u].job => x = u
        BY <1>3, <1>4 DEF JobsInv
      <4>4. \A j \in Jobs : ~(Queued(j) /\ Worked(j))
        BY <1>3, <1>4 DEF JobsInv
      <4>5. Cardinality(Busy') = Cardinality(Busy)
        BY <4>1
      <4>6. \A j \in Jobs : (Queued(j) \/ Worked(j))' <=> (Queued(j) \/ Worked(j) \/ j = job)
        BY <3>2, <4>2
      <4>7. \A j \in Jobs : ~(Queued(j) /\ Worked(j))'
        BY <2>5, <3>2, <4>2, <4>4
      <4>8. (\A x, u \in Busy : worker[x].job = worker[u].job => x = u)'
        BY <3>2, <4>1, <4>3
      <4>9. Len(threadqueue.q)' + Cardinality(Busy)' = Len(threadqueue.q) + Cardinality(Busy) + 1
        BY <2>8, <3>2, <4>5
      <4>. QED BY <2>8, <3>2, <4>5, <4>6, <4>7, <4>8, <4>9
    <3>. QED BY <2>7, <3>1, <3>2
  <2>10. Covered'
    <3>1. \A h \in Searches : CoveredOf(h) => CoveredOf(h)'
      BY CoveredRead DEF IInv
    <3>. QED BY <1>3, <2>3, <3>1 DEF Covered, Whole
  <2>11. Types'
    <3>1. threadqueue' \in [q : Seq(Jobs), worknum : Int]
      BY <2>7 DEF TP!Queue
    <3>. QED BY <1>3, <2>3, <2>7, <3>1 DEF Types
  <2>12. JoinInv'
    <3>1. join.after = "none" /\ join = NoJoin
      BY <1>3, <1>4 DEF JoinInv
    <3>2. join.at = 0
      BY <3>1 DEF NoJoin
    <3>. QED BY <3>1, <3>2 DEF JoinInv
  <2>13. RunsInv'
    BY <1>1, <1>3, <1>6, <2>3, SearchFacts DEF RunsInv
  <2>17. DocsInv' /\ Docs' = Docs
    <3>1. \A h \in Runs : seen[h] \subseteq seen'[h]
      BY <1>6, SearchFacts
    <3>. QED BY <1>3, <1>8, <2>3, <3>1, DocsSame
  <2>14. JobsInv'
    <3>1. e \in seen'[g] /\ seen[g] \subseteq seen'[g] /\ seen'[g] = seen[g] \union {e}
      BY <1>6, <1>8 DEF Meets
    <3>2. \A i \in idles : i[1] <= s3run.run /\ (i[1] = s3run.run => i[2] \in seen'[s3run.run])
      BY <1>3, <1>4, <3>1 DEF JobsInv
    <3>3. \A j \in Jobs : (Queued(j) \/ Worked(j))' =>
             j[1] = s3run.run /\ j[2] \in seen'[s3run.run] /\ j \notin idles
      BY <1>3, <1>4, <2>4, <2>5, <2>9, <3>1 DEF JobsInv
    <3>4. ASSUME NEW f \in seen'[s3run.run] \intersect Files
          PROVE  LET jb == <<g, f>> IN
                 f \in reported \/ Queued(jb)' \/ Worked(jb)' \/ jb \in idles \/ jb \in Docs
      <4>. DEFINE jb == <<g, f>>
      <4>1. jb \in Jobs
        BY <1>4, <3>4 DEF Jobs
      <4>2. CASE f = e
        <5>1. jb = job
          BY <4>2 DEF job
        <5>. HIDE DEF jb
        <5>2. (Queued(jb) \/ Worked(jb))' <=> (Queued(jb) \/ Worked(jb) \/ jb = job)
          BY <2>9, <4>1
        <5>3. Queued(jb)' \/ Worked(jb)'
          BY <5>1, <5>2
        <5>. QED BY <5>3 DEF jb
      <4>3. CASE f # e
        <5>1. f \in seen[s3run.run] \intersect Files /\ jb = <<s3run.run, f>>
          BY <1>4, <3>1, <3>4, <4>3
        <5>2. f \in reported \/ Queued(jb) \/ Worked(jb) \/ jb \in idles \/ jb \in Docs
          BY <1>3, <1>4, <5>1 DEF JobsInv
        <5>. HIDE DEF jb
        <5>3. (Queued(jb) \/ Worked(jb))' <=> (Queued(jb) \/ Worked(jb) \/ jb = job)
          BY <2>9, <4>1
        <5>4. f \in reported \/ Queued(jb)' \/ Worked(jb)' \/ jb \in idles \/ jb \in Docs
          BY <5>2, <5>3
        <5>. QED BY <5>4 DEF jb
      <4>. QED BY <4>2, <4>3
    <3>5. \A f \in seen'[s3run.run] \intersect Files :
             LET jb == <<g, f>> IN
             f \in reported \/ Queued(jb)' \/ Worked(jb)' \/ jb \in idles \/ jb \in Docs
      BY <3>4
    <3>. QED BY <1>4, <2>3, <2>9, <2>17, <3>2, <3>3, <3>5 DEF JobsInv
  <2>15. CountInv'
    <3>. SUFFICES ASSUME ~disturbed PROVE CountInv'
      BY DEF CountInv
    <3>. DEFINE one == IF s3run.run \in Runs \intersect DOMAIN found THEN 1 ELSE 0
                n == Len(threadqueue.q)
                b == Cardinality(Busy)
                i == Cardinality({x \in idles : x[1] = s3run.run})
                o == Cardinality({x \in Docs : x[1] = s3run.run})
                one1 == IF s3run'.run \in Runs \intersect DOMAIN found' THEN 1 ELSE 0
                n1 == Len(threadqueue'.q)
                b1 == Cardinality(Busy')
                i1 == Cardinality({x \in idles' : x[1] = s3run'.run})
                o1 == Cardinality({x \in Docs' : x[1] = s3run'.run})
    <3>1. s3run.runcount = one + n + b + i + o /\ (ended => s3run.runcount = 0)
      BY <1>3, <1>4 DEF CountInv
    <3>2. one = 1 /\ one1 = 1 /\ i1 = i /\ o1 = o /\ o \in Nat
      BY <1>1, <1>2, <1>3, <1>4, <2>3, <2>17, DocsCount
    <3>3. n1 + b1 = n + b + 1 /\ n \in Nat /\ b \in Nat /\ i \in Nat /\ n1 \in Nat /\ b1 \in Nat
      BY <2>8, <2>9
    <3>4. s3run'.runcount = s3run.runcount + 1
      BY <2>3
    <3>. HIDE DEF one, n, b, i, o, one1, n1, b1, i1, o1
    <3>5. s3run'.runcount = one1 + n1 + b1 + i1 + o1
      BY <3>1, <3>2, <3>3, <3>4
    <3>6. ~ended
      BY <3>1, <3>2, <3>3
    <3>. QED BY <3>5, <3>6 DEF CountInv, one1, n1, b1, i1, o1
  <2>16. OaInv'
    BY <1>1, <1>3, <1>6 DEF OaInv
  <2>. QED BY <1>1, <2>7, <2>10, <2>11, <2>12, <2>13, <2>14, <2>15, <2>16, <2>17 DEF IInv
<1>9. CASE e \notin Files
  <2>1. Matches({e}) = {}
    BY <1>9 DEF Matches
  <2>2. UNCHANGED <<s3run, threadqueue, threads, worker, docvars>>
    BY <2>1 DEF FileMatch
  <2>3. Covered'
    <3>1. \A h \in Searches : CoveredOf(h) => CoveredOf(h)'
      BY CoveredRead DEF IInv
    <3>. QED BY <1>3, <2>2, <3>1 DEF Covered, Whole
  <2>4. Types' /\ ThreadsInv' /\ JoinInv'
    BY <1>3, <2>2 DEF Types, ThreadsInv, JoinInv
  <2>5. RunsInv'
    BY <1>1, <1>3, <1>6, <2>2, SearchFacts DEF RunsInv
  <2>8. DocsInv' /\ Docs' = Docs
    <3>1. \A h \in Runs : seen[h] \subseteq seen'[h]
      BY <1>6, SearchFacts
    <3>. QED BY <1>3, <2>2, <3>1, DocsSame
  <2>6. JobsInv'
    <3>1. seen'[g] \intersect Files = seen[g] \intersect Files /\ seen[g] \subseteq seen'[g]
      BY <1>6, <1>9
    <3>2. \A i \in idles : i[1] <= s3run.run /\ (i[1] = s3run.run => i[2] \in seen'[s3run.run])
      BY <1>3, <1>4, <3>1 DEF JobsInv
    <3>. QED BY <1>3, <1>4, <2>2, <2>8, <3>1, <3>2 DEF JobsInv, Busy, Queued, Worked
  <2>7. CountInv' /\ OaInv'
    BY <1>1, <1>3, <1>6, <2>2, <2>8 DEF CountInv, OaInv, Busy
  <2>. QED BY <1>1, <2>3, <2>4, <2>5, <2>6, <2>7, <2>8 DEF IInv
<1>11. ASSUME e \in Files, RunInDoc([s3run EXCEPT !.runcount = @ + 1], job),
              UNCHANGED <<threadqueue, threads, worker>>
       PROVE  IInv'
  BY <1>11, ReadDocStep
<1>. QED BY <1>8, <1>9, <1>10, <1>11

\* enumerator_next_files_lcb
LEMMA NextFilesStep ==
    ASSUME IInv, misuse = {}, NEW d \in DOMAIN left,
           NEW chunk \in {{}} \union {{e} : e \in left[d].entries}, NextFilesLcb(d, chunk)
    PROVE  IInv'
<1>. DEFINE files == Matches(chunk)
<1>1. /\ NextFiles(d, chunk)
      /\ IF chunk = {} THEN /\ FinishedCallbacks(Finished)
                            /\ UNCHANGED <<threadqueue, threads, worker, docvars>>
         ELSE IF d.search = OpenAdv
         THEN /\ \/ oa' = [oa EXCEPT !.pending = @ \union files,
                                     !.refcount = @ + Cardinality(files)]
                 \/ oa' = [oa EXCEPT !.opened = @ \union files]
              /\ UNCHANGED <<s3run, threadqueue, threads, worker, docvars, ended>>
         ELSE FileMatch(d.search, files) /\ UNCHANGED <<oa, ended>>
      /\ incomplete' = IF chunk = {} /\ left[d].entries # {}
                       THEN incomplete \union {d.search} ELSE incomplete
      /\ UNCHANGED <<idles, join, reported, disturbed, misuse>>
  BY DEF NextFilesLcb
<1>2. CASE chunk = {}
  <2>1. /\ Cleanup(d) /\ seen' = seen
        /\ \/ incomplete' = incomplete \union {d.search}
           \/ incomplete' = incomplete /\ left[d].entries = {}
    BY <1>1, <1>2 DEF NextFiles
  <2>. QED BY <1>1, <1>2, <2>1, CleanupStep
<1>3. CASE chunk # {}
  <2>1. PICK e \in left[d].entries : chunk = {e}
    BY <1>3
  <2>2. NextFiles(d, {e}) /\ ~found[d.search].cancel
    BY <1>1, <1>3, <2>1 DEF NextFiles
  <2>3. CASE d.search = OpenAdv
    <3>1. OpenAdvFilematch(Matches({e}))
      BY <1>1, <1>3, <2>1, <2>3 DEF OpenAdvFilematch
    <3>2. UNCHANGED <<s3run, threadqueue, threads, worker, docvars, ended,
                      idles, join, reported, incomplete, disturbed, misuse>>
      BY <1>1, <1>3, <2>3
    <3>. QED BY <2>2, <2>3, <3>1, <3>2, ReadOpenStep
  <2>4. CASE d.search # OpenAdv
    BY <1>1, <1>3, <2>1, <2>2, <2>4, ReadRunStep
  <2>. QED BY <2>3, <2>4
<1>. QED BY <1>2, <1>3

\* open_advanced
LEMMA OpenStep ==
    ASSUME IInv, OpenAdvanced
    PROVE  IInv'
<1>1. /\ oa.refcount = 0 /\ oa.opened = {} /\ OpenAdv \notin incomplete
      /\ FindFiles(OpenAdv, Top)
      /\ oa' = [oa EXCEPT !.refcount = 1]
      /\ UNCHANGED <<s3vars, history>>
  BY DEF OpenAdvanced
<1>2. /\ FilesInv'
      /\ OpenAdv \notin DOMAIN found
      /\ DOMAIN found' = DOMAIN found \union {OpenAdv}
      /\ seen' = [seen EXCEPT ![OpenAdv] = {Top}]
      /\ \A g \in DOMAIN found : found'[g] = found[g]
      /\ ~found'[OpenAdv].cancel
  BY <1>1, BeginFiles, SearchFacts DEF IInv
<1>3. seen \in [Searches -> SUBSET Entries]
  BY DEF IInv, FilesInv, MetOnce
<1>4. seen'[OpenAdv] = {Top} /\ \A g \in Runs : seen'[g] = seen[g]
  BY <1>2, <1>3, SearchFacts
<1>5. UNCHANGED <<s3run, threadqueue, threads, worker, docvars, idles, join, ended, reported, disturbed, incomplete, misuse>>
  BY <1>1 DEF s3vars, history
<1>6. Covered'
  <2>1. CoveredOf(OpenAdv)' /\ \A g \in Searches \ {OpenAdv} : CoveredOf(g) => CoveredOf(g)'
    BY <1>1, CoveredBegun, SearchFacts DEF IInv
  <2>. QED BY <1>5, <2>1 DEF IInv, Covered, Whole
<1>7. oa \in [refcount : Int, pending : SUBSET Files, opened : SUBSET Files]
  BY DEF IInv, Types
<1>8. oa' \in [refcount : Int, pending : SUBSET Files, opened : SUBSET Files]
  BY <1>1, <1>7
<1>9. Types' /\ ThreadsInv' /\ JoinInv'
  BY <1>5, <1>8 DEF IInv, Types, ThreadsInv, JoinInv
<1>10. RunsInv'
  <2>1. Runs \intersect DOMAIN found' = Runs \intersect DOMAIN found
    BY <1>2, SearchFacts
  <2>2. \A g \in Runs \intersect DOMAIN found : found'[g].cancel = found[g].cancel
    BY <1>2
  <2>3. DOMAIN found \subseteq DOMAIN found'
    BY <1>2
  <2>. QED BY <1>2, <1>4, <1>5, <2>1, <2>2, <2>3 DEF IInv, RunsInv
<1>14. DocsInv' /\ Docs' = Docs
  BY <1>4, <1>5, DocsSame DEF IInv
<1>11. JobsInv'
  <2>1. \A job \in Jobs : job[1] \in Runs
    BY DEF Jobs
  <2>2. idles \subseteq Jobs
    BY DEF IInv, Types
  <2>. QED BY <1>4, <1>5, <1>14, <2>1, <2>2 DEF IInv, JobsInv, Busy, Queued, Worked
<1>12. CountInv'
  <2>1. s3run.run \in Runs \intersect DOMAIN found' <=> s3run.run \in Runs \intersect DOMAIN found
    BY <1>2, SearchFacts
  <2>. QED BY <1>5, <1>14, <2>1 DEF IInv, CountInv, Busy
<1>13. OaInv'
  <2>1. oa.pending \subseteq Files /\ IsFiniteSet(oa.pending) /\ Cardinality(oa.pending) \in Nat
    BY <1>7, TreeFacts, FS_Subset, FS_CardinalityType
  <2>2. Cardinality(oa.pending) = 0
    BY <1>1, <1>2, <2>1 DEF IInv, OaInv
  <2>3. oa.pending = {}
    BY <2>1, <2>2, FS_EmptySet
  <2>4. oa'.refcount = 1 /\ oa'.pending = {} /\ oa'.opened = {}
    BY <1>1, <1>7, <2>3
  <2>5. Top \notin Files
    BY TreeFacts, DepthFacts
  <2>. QED BY <1>2, <1>4, <2>4, <2>5, FS_EmptySet DEF OaInv
<1>. QED BY <1>2, <1>6, <1>9, <1>10, <1>11, <1>12, <1>13, <1>14 DEF IInv

\* open_adv_content_filter_lcb
LEMMA FilterStep ==
    ASSUME IInv, NEW f \in oa.pending, OpenAdvContentFilter(f)
    PROVE  IInv'
<1>1. /\ oa' = [oa EXCEPT !.pending = @ \ {f}, !.opened = @ \union {f}, !.refcount = @ - 1]
      /\ UNCHANGED ffvars /\ UNCHANGED s3vars /\ UNCHANGED history
  BY DEF OpenAdvContentFilter
<1>2. UNCHANGED <<s3run, threadqueue, threads, worker, docvars, idles, join, ended, reported, disturbed, incomplete, misuse>>
  BY <1>1 DEF s3vars, history
<1>3. oa \in [refcount : Int, pending : SUBSET Files, opened : SUBSET Files]
  BY DEF IInv, Types
<1>4. /\ oa' \in [refcount : Int, pending : SUBSET Files, opened : SUBSET Files]
      /\ oa'.pending = oa.pending \ {f} /\ oa'.opened = oa.opened \union {f}
      /\ oa'.refcount = oa.refcount - 1
  <2>. DEFINE p == oa.pending \ {f}
              o == oa.opened \union {f}
              r == oa.refcount - 1
  <2>0. oa.refcount \in Int /\ oa.pending \subseteq Files /\ oa.opened \subseteq Files
    BY <1>3
  <2>1. r \in Int
    BY <2>0
  <2>2. p \in SUBSET Files /\ o \in SUBSET Files
    BY <2>0
  <2>3. oa' = [oa EXCEPT !.pending = p, !.opened = o, !.refcount = r]
    BY <1>1
  <2>. HIDE DEF p, o, r
  <2>4. oa' \in [refcount : Int, pending : SUBSET Files, opened : SUBSET Files]
    BY <1>3, <2>1, <2>2, <2>3
  <2>5. oa'.pending = p /\ oa'.opened = o /\ oa'.refcount = r
    BY <1>3, <2>3
  <2>. QED BY <2>4, <2>5 DEF p, o, r
<1>5. FilesInv' /\ Covered'
  <2>1. \A g : Whole(g)' => Whole(g)
    BY <1>2 DEF Whole
  <2>. QED BY <1>1, <1>2, <2>1, FilesSame, CoveredSame DEF IInv
<1>6. Types' /\ ThreadsInv' /\ JoinInv'
  BY <1>2, <1>4 DEF IInv, Types, ThreadsInv, JoinInv
<1>7. found' = found /\ seen' = seen
  BY <1>1 DEF ffvars
<1>10. DocsInv' /\ Docs' = Docs
  BY <1>2, <1>7, DocsSame DEF IInv
<1>8. RunsInv' /\ JobsInv' /\ CountInv'
  <2>1. RunsInv'
    BY <1>2, <1>7 DEF IInv, RunsInv
  <2>2. JobsInv'
    BY <1>2, <1>7, <1>10 DEF IInv, JobsInv, Busy, Queued, Worked
  <2>3. CountInv'
    BY <1>2, <1>7, <1>10 DEF IInv, CountInv, Busy
  <2>. QED BY <2>1, <2>2, <2>3
<1>9. OaInv'
  <2>1. IsFiniteSet(oa.pending) /\ Cardinality(oa.pending) \in Nat
    BY <1>3, TreeFacts, FS_Subset, FS_CardinalityType
  <2>2. Cardinality(oa'.pending) = Cardinality(oa.pending) - 1
    <3>1. Cardinality(oa.pending \ {f}) = Cardinality(oa.pending) - 1
      BY <2>1, FS_RemoveElement
    <3>. QED BY <1>4, <3>1
  <2>3. oa'.pending \union oa'.opened = oa.pending \union oa.opened
    BY <1>4
  <2>. QED BY <1>3, <1>4, <1>7, <2>1, <2>2, <2>3 DEF IInv, OaInv
<1>. QED BY <1>5, <1>6, <1>8, <1>9, <1>10 DEF IInv

-----------------------------------------------------------------------------
(* The worker threads                                                      *)

\* The threads on a list
Links(s) == {s[i] : i \in 1 .. Len(s)}

\* g_slist_remove takes out the one link that holds the thread.
LEMMA ListRemoveFacts ==
    ASSUME NEW S, NEW s \in Seq(S), NEW t,
           \A i, k \in 1 .. Len(s) : s[i] = s[k] => i = k,
           \E i \in 1 .. Len(s) : s[i] = t,
           NEW R, R = ListRemove(s, t)
    PROVE  /\ R \in Seq(S)
           /\ \A i, k \in 1 .. Len(R) : R[i] = R[k] => i = k
           /\ Links(R) = Links(s) \ {t}
           /\ s[1] # t => R # << >> /\ Head(R) = s[1]
<1>0. PICK at \in 1 .. Len(s) : s[at] = t
  OBVIOUS
<1>. DEFINE First(i) == s[i] = t /\ \A k \in 1 .. i - 1 : s[k] # t
            L == SubSeq(s, 1, at - 1)
            U == SubSeq(s, at + 1, Len(s))
<1>1. Len(s) \in Nat /\ at \in Nat /\ 1 <= at /\ at <= Len(s)
  OBVIOUS
<1>2. First(at)
  BY <1>0, <1>1
<1>3. \A i \in 1 .. Len(s) : First(i) => i = at
  BY <1>0
<1>4. (CHOOSE i \in 1 .. Len(s) : First(i)) = at
  BY <1>2, <1>3
<1>5. R = L \o U
  BY <1>2, <1>4 DEF ListRemove
<1>6. /\ L \in Seq(S) /\ Len(L) = at - 1
      /\ \A i \in 1 .. at - 1 : L[i] = s[i]
  BY <1>1
<1>7. /\ U \in Seq(S) /\ Len(U) = Len(s) - at
      /\ \A i \in 1 .. Len(s) - at : U[i] = s[at + i]
  BY <1>1
<1>. HIDE DEF L, U
<1>8. R \in Seq(S) /\ Len(R) = Len(s) - 1
  <2>. HIDE DEF First
  <2>1. L \in Seq(S) /\ U \in Seq(S)
    BY <1>6, <1>7
  <2>2. R \in Seq(S) /\ Len(R) = Len(L) + Len(U)
    BY <1>5, <2>1
  <2>3. Len(L) + Len(U) = Len(s) - 1
    BY <1>1, <1>6, <1>7
  <2>. QED BY <2>2, <2>3
<1>9. \A i \in 1 .. Len(R) : R[i] = IF i < at THEN s[i] ELSE s[i + 1]
  <2>. TAKE i \in 1 .. Len(R)
  <2>1. CASE i < at
    BY <1>1, <1>5, <1>6, <1>7, <1>8, <2>1
  <2>2. CASE ~(i < at)
    <3>1. i - (at - 1) \in 1 .. Len(s) - at /\ at + (i - (at - 1)) = i + 1
      BY <1>1, <1>8, <2>2
    <3>2. R[i] = U[i - (at - 1)]
      BY <1>1, <1>5, <1>6, <1>7, <1>8, <2>2
    <3>3. R[i] = s[i + 1]
      BY <1>7, <3>1, <3>2
    <3>. QED BY <2>2, <3>3
  <2>. QED BY <2>1, <2>2
<1>10. ASSUME NEW i \in 1 .. Len(R), NEW k \in 1 .. Len(R), R[i] = R[k]
       PROVE  i = k
  <2>. DEFINE up(m) == IF m < at THEN m ELSE m + 1
  <2>1. up(i) \in 1 .. Len(s) /\ up(k) \in 1 .. Len(s)
    BY <1>1, <1>8
  <2>2. s[up(i)] = s[up(k)]
    BY <1>9, <1>10
  <2>3. up(i) = up(k)
    BY <2>1, <2>2
  <2>. QED BY <1>1, <2>3
<1>11. Links(R) = Links(s) \ {t}
  <2>1. ASSUME NEW i \in 1 .. Len(R)
        PROVE  R[i] # t /\ \E k \in 1 .. Len(s) : s[k] = R[i]
    <3>. DEFINE up == IF i < at THEN i ELSE i + 1
    <3>1. up \in 1 .. Len(s) /\ up # at /\ R[i] = s[up]
      BY <1>1, <1>8, <1>9
    <3>2. s[up] # t
      BY <1>0, <3>1
    <3>. QED BY <3>1, <3>2
  <2>2. ASSUME NEW i \in 1 .. Len(s), s[i] # t
        PROVE  \E k \in 1 .. Len(R) : R[k] = s[i]
    <3>. DEFINE down == IF i < at THEN i ELSE i - 1
    <3>1. i # at
      BY <1>0, <2>2
    <3>2. down \in 1 .. Len(R) /\ R[down] = s[i]
      BY <1>1, <1>8, <1>9, <3>1
    <3>. QED BY <3>2
  <2>3. ASSUME NEW x, NEW i \in 1 .. Len(R), R[i] = x
        PROVE  x # t /\ \E k \in 1 .. Len(s) : s[k] = x
    BY <2>1, <2>3
  <2>4. ASSUME NEW x, x # t, NEW i \in 1 .. Len(s), s[i] = x
        PROVE  \E k \in 1 .. Len(R) : R[k] = x
    BY <2>2, <2>4
  <2>5. \A x : (x \in Links(R) <=> \E i \in 1 .. Len(R) : R[i] = x)
                /\ (x \in Links(s) <=> \E i \in 1 .. Len(s) : s[i] = x)
    BY DEF Links
  <2>6. \A x : x \in Links(R) => x \in Links(s) \ {t}
    BY <2>3, <2>5
  <2>7. \A x : x \in Links(s) \ {t} => x \in Links(R)
    BY <2>4, <2>5
  <2>. QED BY <2>6, <2>7
<1>12. ASSUME s[1] # t PROVE R # << >> /\ Head(R) = s[1]
  <2>1. at > 1 /\ 1 \in 1 .. Len(R)
    BY <1>0, <1>1, <1>8, <1>12
  <2>2. R[1] = s[1]
    BY <1>1, <1>9, <2>1
  <2>. QED BY <1>8, <2>1, <2>2
<1>. QED BY <1>8, <1>10, <1>11, <1>12

WorkerRecs == [job : Jobs, pc : {"load", "search", "ready", "over"}]

\* A worker that goes on with its job; or that ends because of a cancel.
LEMMA GoStep ==
    ASSUME IInv, NEW t \in DOMAIN worker, NEW pc \in {"load", "search", "ready", "over"}, Goto(t, pc),
           s3run.cancelled \/ (worker[t].pc \in {"load", "search"} /\ pc \in {"load", "search"}),
           UNCHANGED <<idles, ffvars, s3run, threadqueue, threads, join, docvars, oa, history>>
    PROVE  IInv'
<1>1. worker \in [DOMAIN worker -> WorkerRecs] /\ worker[t] \in WorkerRecs
  BY DEF IInv, Types, WorkerRecs
<1>2. /\ worker' = [worker EXCEPT ![t] = [worker[t] EXCEPT !.pc = pc]]
      /\ UNCHANGED <<ended, reported, disturbed, incomplete, misuse>> /\ UNCHANGED ffvars
      /\ found' = found /\ seen' = seen
  BY <1>1 DEF Goto, history, ffvars
<1>. DEFINE w == [worker[t] EXCEPT !.pc = pc]
<1>3. w \in WorkerRecs /\ w.job = worker[t].job /\ w.pc = pc
  BY <1>1 DEF WorkerRecs
<1>. HIDE DEF w
<1>4. /\ worker' \in [DOMAIN worker' -> WorkerRecs] /\ DOMAIN worker' = DOMAIN worker
      /\ worker'[t] = w /\ \A u \in DOMAIN worker : u # t => worker'[u] = worker[u]
  BY <1>1, <1>2, <1>3 DEF w
<1>5. FilesInv' /\ Covered'
  <2>1. \A g : Whole(g)' => Whole(g)
    BY DEF Whole
  <2>. QED BY <1>2, <2>1, FilesSame, CoveredSame DEF IInv
<1>6. Types'
  BY <1>2, <1>4 DEF IInv, Types, WorkerRecs
<1>7. ThreadsInv'
  <2>1. ~s3run.cancelled => \A u \in DOMAIN worker' : worker'[u].pc # "over"
    BY <1>3, <1>4 DEF IInv, ThreadsInv
  <2>. QED BY <1>4, <2>1 DEF IInv, ThreadsInv
<1>8. JoinInv' /\ RunsInv' /\ OaInv'
  BY <1>2 DEF IInv, JoinInv, RunsInv, OaInv
<1>9. ~s3run.cancelled => Busy' = Busy /\ \A u \in Busy : worker'[u].job = worker[u].job
  BY <1>3, <1>4 DEF Busy
<1>10. \A job : Queued(job)' <=> Queued(job)
  BY DEF Queued
<1>11. ~s3run.cancelled => \A job : Worked(job)' <=> Worked(job)
  BY <1>9 DEF Worked
<1>14. DocsInv' /\ Docs' = Docs
  BY <1>2, DocsSame DEF IInv
<1>12. JobsInv'
  <2>1. CASE s3run.cancelled
    BY <1>2, <1>14, <2>1 DEF IInv, JobsInv
  <2>2. CASE ~s3run.cancelled
    BY <1>2, <1>9, <1>10, <1>11, <1>14, <2>2 DEF IInv, JobsInv
  <2>. QED BY <2>1, <2>2
<1>13. CountInv'
  BY <1>2, <1>9, <1>14 DEF IInv, CountInv
<1>. QED BY <1>5, <1>6, <1>7, <1>8, <1>12, <1>13, <1>14 DEF IInv

\* A worker that is through with its file reports it.
LEMMA ReportStep ==
    ASSUME IInv, NEW t \in DOMAIN worker, Goto(t, "ready"), ~s3run.cancelled,
           worker[t].pc \in {"load", "search"}, idles' = idles \union {worker[t].job},
           UNCHANGED <<ffvars, s3run, threadqueue, threads, join, docvars, oa, history>>
    PROVE  IInv'
<1>1. worker \in [DOMAIN worker -> WorkerRecs] /\ worker[t] \in WorkerRecs
  BY DEF IInv, Types, WorkerRecs
<1>2. /\ worker' = [worker EXCEPT ![t] = [worker[t] EXCEPT !.pc = "ready"]]
      /\ UNCHANGED <<ended, reported, disturbed, incomplete, misuse>> /\ UNCHANGED ffvars
      /\ found' = found /\ seen' = seen
  BY <1>1 DEF Goto, history, ffvars
<1>. DEFINE w == [worker[t] EXCEPT !.pc = "ready"]
            job == worker[t].job
<1>3. w \in WorkerRecs /\ w.pc = "ready" /\ job \in Jobs
  BY <1>1 DEF WorkerRecs
<1>. HIDE DEF w
<1>4. /\ worker' \in [DOMAIN worker' -> WorkerRecs] /\ DOMAIN worker' = DOMAIN worker
      /\ worker'[t] = w /\ \A u \in DOMAIN worker : u # t => worker'[u] = worker[u]
  BY <1>1, <1>2, <1>3 DEF w
<1>5. FilesInv' /\ Covered'
  <2>1. \A g : Whole(g)' => Whole(g)
    BY DEF Whole
  <2>. QED BY <1>2, <2>1, FilesSame, CoveredSame DEF IInv
<1>6. Types /\ ThreadsInv /\ JoinInv /\ RunsInv /\ DocsInv /\ JobsInv /\ CountInv /\ OaInv
  BY DEF IInv
<1>7. IsFiniteSet(idles') /\ idles' \subseteq Jobs
  BY <1>3, <1>6, FS_AddElement DEF Types
<1>8. Types'
  BY <1>2, <1>4, <1>6, <1>7 DEF Types, WorkerRecs
<1>9. ThreadsInv'
  <2>1. \A u \in DOMAIN worker' : worker'[u].pc # "over"
    BY <1>3, <1>4, <1>6 DEF ThreadsInv
  <2>. QED BY <1>4, <1>6, <2>1 DEF ThreadsInv
<1>10. JoinInv' /\ RunsInv' /\ OaInv'
  BY <1>2, <1>6 DEF JoinInv, RunsInv, OaInv
<1>11. /\ t \in Busy /\ Busy' = Busy \ {t}
       /\ \A u \in Busy' : worker'[u] = worker[u]
  BY <1>3, <1>4 DEF Busy
<1>12. Worked(job) /\ job \notin idles /\ job[1] = s3run.run /\ job[2] \in seen[s3run.run] /\ ~Queued(job)
  <2>1. Worked(job)
    BY <1>11 DEF Worked
  <2>. QED BY <1>3, <1>6, <2>1 DEF JobsInv
<1>13. \A u \in Busy' : worker'[u].job # job
  BY <1>6, <1>11 DEF JobsInv
<1>. HIDE DEF job
<1>14. \A j : Worked(j)' <=> (Worked(j) /\ j # job)
  <2>1. ASSUME NEW j, Worked(j), j # job
        PROVE  Worked(j)'
    <3>1. PICK u \in Busy : worker[u].job = j
      BY <2>1 DEF Worked
    <3>2. u # t
      BY <2>1, <3>1 DEF job
    <3>3. u \in Busy' /\ worker'[u].job = j
      BY <1>11, <3>1, <3>2
    <3>. QED BY <3>3 DEF Worked
  <2>2. ASSUME NEW j, Worked(j)'
        PROVE  Worked(j) /\ j # job
    <3>1. PICK u \in Busy' : worker'[u].job = j
      BY <2>2 DEF Worked
    <3>2. u \in Busy /\ worker[u].job = j
      BY <1>11, <3>1
    <3>. QED BY <1>13, <3>1, <3>2 DEF Worked
  <2>. QED BY <2>1, <2>2
<1>15. \A j : Queued(j)' <=> Queued(j)
  BY DEF Queued
<1>16. idles' = idles \union {job}
  BY DEF job
<1>19. DocsInv' /\ Docs' = Docs
  BY <1>2, <1>6, DocsSame
<1>17. JobsInv'
  <2>1. \A j \in idles' : j[1] <= s3run.run /\ (j[1] = s3run.run => j[2] \in seen[s3run.run])
    <3>1. s3run.run <= s3run.run
      BY <1>6, RunFields DEF Types
    <3>. QED BY <1>6, <1>12, <1>16, <3>1 DEF JobsInv
  <2>2. TP!Injective(threadqueue)
    BY <1>6 DEF JobsInv
  <2>3. \A j \in Jobs : Queued(j)' \/ Worked(j)' =>
             j[1] = s3run.run /\ j[2] \in seen[s3run.run] /\ j \notin idles'
    BY <1>6, <1>12, <1>14, <1>15, <1>16 DEF JobsInv
  <2>4. \A j \in Jobs : ~(Queued(j)' /\ Worked(j)')
    BY <1>6, <1>14, <1>15 DEF JobsInv
  <2>5. \A x, u \in Busy' : worker'[x].job = worker'[u].job => x = u
    BY <1>6, <1>11 DEF JobsInv
  <2>6. s3run.run \in Runs =>
             \A f \in seen[s3run.run] \intersect Files :
                 LET j == <<s3run.run, f>> IN
                 f \in reported \/ Queued(j)' \/ Worked(j)' \/ j \in idles' \/ j \in Docs
    BY <1>6, <1>14, <1>15, <1>16 DEF JobsInv
  <2>. QED BY <1>2, <1>19, <2>1, <2>2, <2>3, <2>4, <2>5, <2>6 DEF JobsInv
<1>18. CountInv'
  <2>. DEFINE I == {j \in idles : j[1] = s3run.run}
              I1 == {j \in idles' : j[1] = s3run'.run}
              b == Cardinality(Busy)
              b1 == Cardinality(Busy')
              i == Cardinality(I)
              i1 == Cardinality(I1)
              o == Cardinality({j \in Docs : j[1] = s3run.run})
              n == Len(threadqueue.q)
              one == IF s3run.run \in Runs \intersect DOMAIN found THEN 1 ELSE 0
  <2>1. IsFiniteSet(Busy) /\ b \in Nat /\ IsFiniteSet(I) /\ i \in Nat /\ n \in Nat /\ o \in Nat
    BY <1>6, CountTypes, DocsCount
  <2>2. b1 = b - 1
    BY <1>11, <2>1, FS_RemoveElement
  <2>3. I1 = I \union {job} /\ job \notin I
    BY <1>12, <1>16
  <2>4. i1 = i + 1
    <3>. HIDE DEF I, I1
    <3>. QED BY <2>1, <2>3, FS_AddElement
  <2>5. one \in Nat
    OBVIOUS
  <2>. SUFFICES ASSUME ~disturbed
                PROVE  CountInv'
    BY <1>2 DEF CountInv
  <2>6. s3run.runcount = one + n + b + i + o /\ (ended => s3run.runcount = 0 /\ s3run.run \in Runs)
    BY <1>6 DEF CountInv
  <2>. HIDE DEF one, n, b, i, b1, i1, o
  <2>7. s3run.runcount = one + n + b1 + i1 + o
    BY <2>1, <2>2, <2>4, <2>5, <2>6
  <2>. QED BY <1>2, <1>19, <2>6, <2>7 DEF CountInv, one, n, b1, i1, o
<1>. QED BY <1>5, <1>8, <1>9, <1>10, <1>17, <1>18, <1>19 DEF IInv

\* A worker has loaded its file, found it unreadable, or sees the cancel.
LEMMA LoadedStep ==
    ASSUME IInv, NEW t \in DOMAIN worker, NEW ok \in BOOLEAN, Loaded(t, ok)
    PROVE  IInv'
<1>1. /\ worker[t].pc = "load"
      /\ IF s3run.cancelled THEN Goto(t, "over") /\ UNCHANGED idles
         ELSE IF ok THEN Goto(t, "search") /\ UNCHANGED idles
         ELSE Goto(t, "ready") /\ idles' = idles \union {worker[t].job}
      /\ UNCHANGED <<ffvars, s3run, threadqueue, threads, join, docvars, oa, history>>
  BY DEF Loaded, At
<1>2. CASE s3run.cancelled
  <2>1. Goto(t, "over") /\ "over" \in {"load", "search", "ready", "over"}
    BY <1>1, <1>2
  <2>2. UNCHANGED <<idles, ffvars, s3run, threadqueue, threads, join, docvars, oa, history>>
    BY <1>1, <1>2
  <2>3. s3run.cancelled \/ (worker[t].pc \in {"load", "search"} /\ "over" \in {"load", "search"})
    BY <1>2
  <2>. QED BY <2>1, <2>2, <2>3, GoStep
<1>3. CASE ~s3run.cancelled /\ ok
  <2>1. /\ Goto(t, "search") /\ "search" \in {"load", "search", "ready", "over"}
        /\ worker[t].pc \in {"load", "search"} /\ "search" \in {"load", "search"}
    BY <1>1, <1>3
  <2>2. UNCHANGED <<idles, ffvars, s3run, threadqueue, threads, join, docvars, oa, history>>
    BY <1>1, <1>3
  <2>. QED BY <2>1, <2>2, GoStep
<1>4. CASE ~s3run.cancelled /\ ~ok
  BY <1>1, <1>4, ReportStep
<1>. QED BY <1>2, <1>3, <1>4

\* A worker has searched its file.
LEMMA SearchedStep ==
    ASSUME IInv, NEW t \in DOMAIN worker, Searched(t)
    PROVE  IInv'
<1>1. /\ worker[t].pc = "search" /\ Goto(t, "ready")
      /\ idles' = IF s3run.cancelled THEN idles ELSE idles \union {worker[t].job}
      /\ UNCHANGED <<ffvars, s3run, threadqueue, threads, join, docvars, oa, history>>
  BY DEF Searched, At
<1>2. CASE s3run.cancelled
  <2>1. Goto(t, "ready") /\ "ready" \in {"load", "search", "ready", "over"}
    BY <1>1
  <2>2. UNCHANGED <<idles, ffvars, s3run, threadqueue, threads, join, docvars, oa, history>>
    BY <1>1, <1>2
  <2>3. s3run.cancelled \/ (worker[t].pc \in {"load", "search"} /\ "ready" \in {"load", "search"})
    BY <1>2
  <2>. QED BY <2>1, <2>2, <2>3, GoStep
<1>3. CASE ~s3run.cancelled
  BY <1>1, <1>3, ReportStep
<1>. QED BY <1>2, <1>3

\* A prefix of a sequence.
LEMMA Prefix ==
    ASSUME NEW S, NEW q \in Seq(S), NEW n \in Int, 0 <= n, n <= Len(q)
    PROVE  /\ SubSeq(q, 1, n) \in Seq(S)
           /\ Len(SubSeq(q, 1, n)) = n
           /\ \A i \in 1 .. n : SubSeq(q, 1, n)[i] = q[i]
OBVIOUS

\* The thread takes the job that waits longest.
LEMMA TakeStep ==
    ASSUME IInv, NEW t \in DOMAIN worker, worker[t].pc = "ready",
           NEW q, q = threadqueue.q, q # << >>,
           NEW r, r = SubSeq(q, 1, Len(q) - 1), NEW job, job = q[Len(q)],
           NEW w, w = [job |-> job, pc |-> "load"],
           threadqueue' = [threadqueue EXCEPT !.q = r], worker' = [worker EXCEPT ![t] = w],
           UNCHANGED <<threads, misuse, docvars, idles, join, oa, ended, reported, incomplete, disturbed, s3run>>,
           UNCHANGED ffvars
    PROVE  IInv'
<1>1. Types /\ ThreadsInv /\ JoinInv /\ RunsInv /\ DocsInv /\ JobsInv /\ CountInv /\ OaInv
  BY DEF IInv
<1>2. /\ q \in Seq(Jobs) /\ Len(q) \in Nat /\ Len(q) > 0 /\ threadqueue.worknum \in Int
      /\ worker \in [DOMAIN worker -> WorkerRecs]
      /\ threadqueue \in [q : Seq(Jobs), worknum : Int]
  BY <1>1 DEF Types, WorkerRecs
<1>3. job \in Jobs /\ w \in WorkerRecs
  BY <1>2 DEF WorkerRecs
<1>4. /\ r \in Seq(Jobs) /\ Len(r) = Len(q) - 1
      /\ \A i \in 1 .. Len(q) - 1 : r[i] = q[i]
  <2>1. Len(q) - 1 \in Int /\ 0 <= Len(q) - 1 /\ Len(q) - 1 <= Len(q)
    BY <1>2
  <2>. QED BY <1>2, <2>1, Prefix, ZenonT(60)
<1>5. threadqueue'.q = r /\ threadqueue'.worknum = threadqueue.worknum
      /\ threadqueue' \in [q : Seq(Jobs), worknum : Int]
  BY <1>2, <1>4
<1>6. /\ worker' \in [DOMAIN worker' -> WorkerRecs] /\ DOMAIN worker' = DOMAIN worker
      /\ worker'[t] = w /\ \A u \in DOMAIN worker : u # t => worker'[u] = worker[u]
  BY <1>2, <1>3
<1>7. found' = found /\ seen' = seen
  BY DEF ffvars
<1>8. FilesInv' /\ Covered'
  <2>1. \A g : Whole(g)' => Whole(g)
    BY DEF Whole
  <2>. QED BY <2>1, FilesSame, CoveredSame DEF IInv
<1>9. Types'
  <2>1. ~s3run.cancelled => threadqueue' \in TP!Queue(Jobs)
    <3>1. ~s3run.cancelled => threadqueue.worknum \in 0 .. WordSize - 1
      BY <1>1 DEF Types, TP!Queue
    <3>. QED BY <1>4, <1>5, <3>1 DEF TP!Queue
  <2>. QED BY <1>1, <1>5, <1>6, <2>1 DEF Types, WorkerRecs
<1>10. ThreadsInv'
  <2>1. ~s3run.cancelled => \A u \in DOMAIN worker' : worker'[u].pc # "over"
    BY <1>1, <1>6 DEF ThreadsInv
  <2>2. ~s3run.cancelled => threadqueue.worknum >= MaxThreads
    BY <1>1, <1>2 DEF ThreadsInv, TP!Settled
  <2>3. ~s3run.cancelled => TP!Settled(threadqueue')
    BY <1>5, <2>2 DEF TP!Settled
  <2>. QED BY <1>1, <1>5, <1>6, <2>1, <2>3 DEF ThreadsInv
<1>11. JoinInv' /\ RunsInv' /\ OaInv'
  BY <1>1, <1>7 DEF JoinInv, RunsInv, OaInv
<1>14. DocsInv' /\ Docs' = Docs
  BY <1>1, <1>7, DocsSame
<1>12. CASE s3run.cancelled
  <2>1. JobsInv' /\ CountInv'
    BY <1>1, <1>7, <1>12 DEF JobsInv, CountInv
  <2>. QED BY <1>8, <1>9, <1>10, <1>11, <1>14, <2>1 DEF IInv
<1>13. CASE ~s3run.cancelled
  <2>1. TP!Injective(threadqueue)
    BY <1>1, <1>13 DEF JobsInv
  <2>2. \A i, k \in 1 .. Len(q) : q[i] = q[k] => i = k
    BY <2>1 DEF TP!Injective
  <2>3. TP!Injective(threadqueue')
    <3>1. ASSUME NEW i \in 1 .. Len(r), NEW k \in 1 .. Len(r), r[i] = r[k]
          PROVE  i = k
      <4>1. i \in 1 .. Len(q) - 1 /\ k \in 1 .. Len(q) - 1 /\ i \in 1 .. Len(q) /\ k \in 1 .. Len(q)
        BY <1>2, <1>4
      <4>2. q[i] = q[k]
        BY <1>4, <3>1, <4>1
      <4>. QED BY <2>2, <4>1, <4>2
    <3>. QED BY <1>5, <3>1 DEF TP!Injective
  <2>4. Queued(job)
    BY <1>2 DEF Queued, TP!Holds
  <2>5. ASSUME NEW j
        PROVE  Queued(j)' <=> (Queued(j) /\ j # job)
    <3>1. Queued(j)' <=> \E i \in 1 .. Len(q) - 1 : q[i] = j
      BY <1>2, <1>4, <1>5 DEF Queued, TP!Holds
    <3>2. Queued(j) <=> \E i \in 1 .. Len(q) : q[i] = j
      BY DEF Queued, TP!Holds
    <3>3. \A i \in 1 .. Len(q) : i \in 1 .. Len(q) - 1 \/ i = Len(q)
      BY <1>2
    <3>4. \A i \in 1 .. Len(q) - 1 : i \in 1 .. Len(q) /\ i # Len(q) /\ Len(q) \in 1 .. Len(q)
      BY <1>2
    <3>. QED BY <2>2, <3>1, <3>2, <3>3, <3>4
  <2>6. Busy' = Busy \union {t} /\ t \notin Busy
    BY <1>6 DEF Busy
  <2>7. (\A u \in Busy : worker'[u] = worker[u]) /\ worker'[t].job = job
    BY <1>6, <2>6 DEF Busy
  <2>8. \A j : Worked(j)' <=> (Worked(j) \/ j = job)
    BY <2>6, <2>7 DEF Worked
  <2>9. ~Worked(job)
    BY <1>1, <1>3, <1>13, <2>4 DEF JobsInv
  <2>10. \A u \in Busy : worker[u].job # job
    BY <2>9 DEF Worked
  <2>11. JobsInv'
    <3>1. \A j \in Jobs : Queued(j)' \/ Worked(j)' =>
             j[1] = s3run.run /\ j[2] \in seen[s3run.run] /\ j \notin idles
      BY <1>1, <1>13, <2>4, <2>5, <2>8 DEF JobsInv
    <3>2. \A j \in Jobs : ~(Queued(j)' /\ Worked(j)')
      BY <1>1, <1>13, <2>5, <2>8 DEF JobsInv
    <3>3. \A x, u \in Busy : worker[x].job = worker[u].job => x = u
      BY <1>1, <1>13 DEF JobsInv
    <3>4. \A x, u \in Busy' : worker'[x].job = worker'[u].job => x = u
      BY <2>6, <2>7, <2>10, <3>3
    <3>5. s3run.run \in Runs =>
             \A f \in seen[s3run.run] \intersect Files :
                 LET j == <<s3run.run, f>> IN
                 f \in reported \/ Queued(j)' \/ Worked(j)' \/ j \in idles \/ j \in Docs
      BY <1>1, <1>13, <2>5, <2>8 DEF JobsInv
    <3>. QED BY <1>1, <1>7, <1>14, <2>3, <3>1, <3>2, <3>4, <3>5 DEF JobsInv
  <2>12. CountInv'
    <3>. DEFINE b == Cardinality(Busy)
                b1 == Cardinality(Busy')
                i == Cardinality({j \in idles : j[1] = s3run.run})
                o == Cardinality({j \in Docs : j[1] = s3run.run})
                n == Len(threadqueue.q)
                n1 == Len(threadqueue'.q)
                one == IF s3run.run \in Runs \intersect DOMAIN found THEN 1 ELSE 0
    <3>1. IsFiniteSet(Busy) /\ b \in Nat /\ i \in Nat /\ n \in Nat /\ o \in Nat
      BY <1>1, CountTypes, DocsCount
    <3>2. b1 = b + 1
      BY <2>6, <3>1, FS_AddElement
    <3>3. n1 = n - 1
      BY <1>4, <1>5
    <3>4. one \in Nat
      OBVIOUS
    <3>. SUFFICES ASSUME ~disturbed
                  PROVE  CountInv'
      BY DEF CountInv
    <3>5. s3run.runcount = one + n + b + i + o /\ (ended => s3run.runcount = 0 /\ s3run.run \in Runs)
      BY <1>1, <1>13 DEF CountInv
    <3>. HIDE DEF one, n, b, i, b1, n1, o
    <3>6. s3run.runcount = one + n1 + b1 + i + o
      BY <3>1, <3>2, <3>3, <3>4, <3>5
    <3>. QED BY <1>7, <1>14, <3>5, <3>6 DEF CountInv, one, n1, b1, i, o
  <2>. QED BY <1>8, <1>9, <1>10, <1>11, <1>14, <2>11, <2>12 DEF IInv
<1>. QED BY <1>12, <1>13

\* The thread is on the list no more, and the thread that is joined is still its first.
LEMMA ThreadLeaves ==
    ASSUME threads \in Seq(1 .. MaxThreads),
           \A i, k \in 1 .. Len(threads) : threads[i] = threads[k] => i = k,
           NEW t, \E i \in 1 .. Len(threads) : threads[i] = t,
           threads' = ListRemove(threads, t)
    PROVE  /\ threads' \in Seq(1 .. MaxThreads)
           /\ \A i, k \in 1 .. Len(threads') : threads'[i] = threads'[k] => i = k
           /\ Links(threads') = Links(threads) \ {t}
           /\ threads[1] # t => threads' # << >> /\ Head(threads') = threads[1]
<1>. DEFINE S == 1 .. MaxThreads
<1>1. threads \in Seq(S)
  OBVIOUS
<1>. HIDE DEF S
<1>2. /\ threads' \in Seq(S)
      /\ \A i, k \in 1 .. Len(threads') : threads'[i] = threads'[k] => i = k
      /\ Links(threads') = Links(threads) \ {t}
      /\ threads[1] # t => threads' # << >> /\ Head(threads') = threads[1]
  BY <1>1, ListRemoveFacts
<1>. QED BY <1>2 DEF S

\* The thread ends.
LEMMA LeaveStep ==
    ASSUME IInv, misuse = {}, NEW t \in DOMAIN worker, worker[t].pc = "ready",
           threadqueue.q = << >>,
           threadqueue' = [threadqueue EXCEPT !.worknum = @ - 1],
           threads' = ListRemove(threads, t),
           worker' = [u \in DOMAIN worker \ {t} |-> worker[u]],
           misuse' = IF join.at = t THEN misuse \union {"thread"} ELSE misuse,
           UNCHANGED <<docvars, idles, join, oa, ended, reported, incomplete, disturbed, s3run>>,
           UNCHANGED ffvars
    PROVE  IInv'
<1>1. Types /\ ThreadsInv /\ JoinInv /\ RunsInv /\ DocsInv /\ JobsInv /\ CountInv /\ OaInv
  BY DEF IInv
<1>2. /\ threadqueue.worknum \in Int
      /\ worker \in [DOMAIN worker -> WorkerRecs]
      /\ threadqueue \in [q : Seq(Jobs), worknum : Int]
      /\ t \in 1 .. MaxThreads
  BY <1>1 DEF Types, WorkerRecs
<1>3. threadqueue'.q = threadqueue.q /\ threadqueue'.worknum = threadqueue.worknum - 1
      /\ threadqueue' \in [q : Seq(Jobs), worknum : Int]
  <2>. DEFINE m == threadqueue.worknum - 1
  <2>1. m \in Int
    BY <1>2
  <2>2. threadqueue' = [threadqueue EXCEPT !.worknum = m]
    OBVIOUS
  <2>. HIDE DEF m
  <2>3. threadqueue' \in [q : Seq(Jobs), worknum : Int]
    BY <1>2, <2>1, <2>2
  <2>4. threadqueue'.q = threadqueue.q /\ threadqueue'.worknum = m
    BY <1>2, <2>2
  <2>. QED BY <2>3, <2>4 DEF m
<1>4. /\ worker' \in [DOMAIN worker' -> WorkerRecs] /\ DOMAIN worker' = DOMAIN worker \ {t}
      /\ \A u \in DOMAIN worker' : worker'[u] = worker[u]
  BY <1>2
<1>5. found' = found /\ seen' = seen
  BY DEF ffvars
<1>6. FilesInv' /\ Covered'
  <2>1. \A g : Whole(g)' => Whole(g)
    BY DEF Whole
  <2>. QED BY <2>1, FilesSame, CoveredSame DEF IInv
<1>7. ~s3run.cancelled =>
        /\ threadqueue'.worknum = Cardinality(DOMAIN worker')
        /\ threadqueue' \in TP!Queue(Jobs)
  <2>. SUFFICES ASSUME ~s3run.cancelled
                PROVE  /\ threadqueue'.worknum = Cardinality(DOMAIN worker')
                       /\ threadqueue' \in TP!Queue(Jobs)
    OBVIOUS
  <2>1. threadqueue.worknum = Cardinality(DOMAIN worker) /\ threadqueue.worknum \in 0 .. WordSize - 1
    BY <1>1 DEF Types, ThreadsInv, TP!Queue
  <2>2. IsFiniteSet(DOMAIN worker)
    BY <1>1, CountTypes
  <2>3. /\ Cardinality(DOMAIN worker \ {t}) = Cardinality(DOMAIN worker) - 1
        /\ IsFiniteSet(DOMAIN worker \ {t})
    BY <2>2, FS_RemoveElement
  <2>4. Cardinality(DOMAIN worker \ {t}) \in Nat
    BY <2>3, FS_CardinalityType
  <2>5. threadqueue'.worknum \in 0 .. WordSize - 1
    BY <1>3, <2>1, <2>3, <2>4, ThreadLimit
  <2>. QED BY <1>3, <1>4, <2>1, <2>3, <2>5 DEF TP!Queue
<1>8. Types'
  BY <1>1, <1>3, <1>4, <1>7 DEF Types, WorkerRecs
<1>9. /\ threads \in Seq(1 .. MaxThreads)
      /\ \A i, k \in 1 .. Len(threads) : threads[i] = threads[k] => i = k
      /\ {threads[i] : i \in 1 .. Len(threads)} = DOMAIN worker
  BY <1>1 DEF ThreadsInv
<1>10. PICK at \in 1 .. Len(threads) : threads[at] = t
  BY <1>9
<1>11. /\ threads' \in Seq(1 .. MaxThreads)
       /\ \A i, k \in 1 .. Len(threads') : threads'[i] = threads'[k] => i = k
       /\ {threads'[i] : i \in 1 .. Len(threads')} = DOMAIN worker'
       /\ threads[1] # t => threads' # << >> /\ Head(threads') = threads[1]
  <2>1. /\ threads' \in Seq(1 .. MaxThreads)
        /\ \A i, k \in 1 .. Len(threads') : threads'[i] = threads'[k] => i = k
        /\ Links(threads') = Links(threads) \ {t}
        /\ threads[1] # t => threads' # << >> /\ Head(threads') = threads[1]
    BY <1>9, <1>10, ThreadLeaves
  <2>2. Links(threads) = DOMAIN worker
    BY <1>9 DEF Links
  <2>3. Links(threads') = DOMAIN worker'
    BY <1>4, <2>1, <2>2
  <2>4. {threads'[i] : i \in 1 .. Len(threads')} = DOMAIN worker'
    BY <2>3 DEF Links
  <2>. QED BY <2>1, <2>4
<1>12. ThreadsInv'
  <2>1. TP!Settled(threadqueue')
    BY <1>3 DEF TP!Settled
  <2>2. ~s3run.cancelled => \A u \in DOMAIN worker' : worker'[u].pc # "over"
    BY <1>1, <1>4 DEF ThreadsInv
  <2>. QED BY <1>7, <1>11, <2>1, <2>2 DEF ThreadsInv
<1>13. JoinInv'
  <2>1. threads # << >> /\ Head(threads) = threads[1]
    BY <1>9, <1>10
  <2>2. ASSUME join.at # 0, misuse' = {}
        PROVE  threads' # << >> /\ Head(threads') = join.at
    <3>1. join.at # t
      BY <2>2
    <3>2. Head(threads) = join.at
      BY <1>1, <2>2 DEF JoinInv
    <3>. QED BY <1>11, <2>1, <3>1, <3>2
  <2>. QED BY <1>1, <2>1, <2>2 DEF JoinInv
<1>14. RunsInv'
  <2>1. misuse' # {} => s3run.interrupted
    <3>1. ASSUME misuse' # {}
          PROVE  join.at # 0
      BY <1>2, <3>1
    <3>. QED BY <1>1, <3>1 DEF JoinInv
  <2>. QED BY <1>1, <1>5, <2>1 DEF RunsInv
<1>15. OaInv'
  BY <1>1, <1>5 DEF OaInv
<1>16. Busy' = Busy /\ \A u \in Busy : worker'[u] = worker[u]
  BY <1>4 DEF Busy
<1>17. \A j : (Worked(j)' <=> Worked(j)) /\ (Queued(j)' <=> Queued(j))
  BY <1>3, <1>16 DEF Worked, Queued, TP!Holds
<1>18. TP!Injective(threadqueue')
  BY <1>3 DEF TP!Injective
<1>21. DocsInv' /\ Docs' = Docs
  BY <1>1, <1>5, DocsSame
<1>19. JobsInv'
  <2>1. CASE s3run.cancelled
    BY <1>1, <1>5, <2>1 DEF JobsInv
  <2>2. CASE ~s3run.cancelled
    <3>1. \A j \in Jobs : Queued(j)' \/ Worked(j)' =>
             j[1] = s3run.run /\ j[2] \in seen[s3run.run] /\ j \notin idles
      BY <1>1, <1>17, <2>2 DEF JobsInv
    <3>2. \A j \in Jobs : ~(Queued(j)' /\ Worked(j)')
      BY <1>1, <1>17, <2>2 DEF JobsInv
    <3>3. \A x, u \in Busy : worker[x].job = worker[u].job => x = u
      BY <1>1, <2>2 DEF JobsInv
    <3>4. \A x, u \in Busy' : worker'[x].job = worker'[u].job => x = u
      <4>1. \A u \in Busy : worker'[u].job = worker[u].job
        BY <1>16
      <4>2. ASSUME NEW x \in Busy, NEW u \in Busy, worker'[x].job = worker'[u].job
            PROVE  x = u
        BY <3>3, <4>1, <4>2
      <4>. QED BY <1>16, <4>2
    <3>5. s3run.run \in Runs =>
             \A f \in seen[s3run.run] \intersect Files :
                 LET j == <<s3run.run, f>> IN
                 f \in reported \/ Queued(j)' \/ Worked(j)' \/ j \in idles \/ j \in Docs
      BY <1>1, <1>17, <2>2 DEF JobsInv
    <3>. QED BY <1>1, <1>5, <1>18, <1>21, <3>1, <3>2, <3>4, <3>5 DEF JobsInv
  <2>. QED BY <2>1, <2>2
<1>20. CountInv'
  BY <1>1, <1>3, <1>5, <1>16, <1>21 DEF CountInv
<1>. QED BY <1>6, <1>8, <1>12, <1>13, <1>14, <1>15, <1>19, <1>20, <1>21 DEF IInv

\* queue_worker_ready_inthread: the next job, or none
LEMMA ReadyStep ==
    ASSUME IInv, misuse = {}, NEW t \in DOMAIN worker, WorkerReadyInthread(t)
    PROVE  IInv'
<1>1. /\ worker[t].pc = "ready"
      /\ UNCHANGED ffvars
      /\ UNCHANGED <<s3run, docvars, idles, join, oa, ended, reported, incomplete, disturbed>>
  BY DEF WorkerReadyInthread, At
<1>2. CASE threadqueue.q # << >>
  <2>. DEFINE q == threadqueue.q
              r == SubSeq(q, 1, Len(q) - 1)
              job == q[Len(q)]
              w == [job |-> job, pc |-> "load"]
  <2>1. /\ threadqueue' = [threadqueue EXCEPT !.q = r]
        /\ worker' = [worker EXCEPT ![t] = w]
        /\ UNCHANGED <<threads, misuse>>
    BY <1>2, Zenon DEF WorkerReadyInthread
  <2>2. q = threadqueue.q /\ q # << >> /\ r = SubSeq(q, 1, Len(q) - 1) /\ job = q[Len(q)]
        /\ w = [job |-> job, pc |-> "load"]
    BY <1>2
  <2>. HIDE DEF q, r, job, w
  <2>. QED BY <1>1, <2>1, <2>2, TakeStep
<1>3. CASE threadqueue.q = << >>
  <2>1. /\ threadqueue' = [threadqueue EXCEPT !.worknum = @ - 1]
        /\ threads' = ListRemove(threads, t)
        /\ worker' = [u \in DOMAIN worker \ {t} |-> worker[u]]
        /\ misuse' = IF join.at = t THEN misuse \union {"thread"} ELSE misuse
    BY <1>3 DEF WorkerReadyInthread
  <2>. QED BY <1>1, <1>3, <2>1, LeaveStep
<1>. QED BY <1>2, <1>3

-----------------------------------------------------------------------------
(* The main loop and the dialog                                            *)

\* Nothing is waited for.
LEMMA JoinNone ==
    ASSUME join' = NoJoin
    PROVE  JoinInv'
BY DEF JoinInv, NoJoin

\* replace_files_in_thread_finished
LEMMA FinishedStep ==
    ASSUME IInv, misuse = {}, NEW job \in idles, ThreadFinished(job)
    PROVE  IInv'
<1>1. /\ FilesInv /\ Covered /\ Types /\ ThreadsInv /\ JoinInv /\ RunsInv /\ DocsInv
      /\ JobsInv /\ CountInv /\ OaInv
  BY DEF IInv
<1>2. /\ idles' = idles \ {job}
      /\ UNCHANGED ffvars
      /\ UNCHANGED <<threadqueue, threads, worker, join, docvars, oa, incomplete>>
      /\ found' = found /\ seen' = seen
  BY DEF ThreadFinished, ffvars
<1>3. /\ idles' \subseteq Jobs /\ IsFiniteSet(idles') /\ idles' \subseteq idles
      /\ job \in Jobs /\ job[1] \in Runs /\ job[2] \in Files /\ job = <<job[1], job[2]>>
  <2>1. idles \subseteq Jobs /\ IsFiniteSet(idles)
    BY <1>1 DEF Types
  <2>2. IsFiniteSet(idles')
    BY <1>2, <2>1, FS_Subset
  <2>. QED BY <1>2, <2>1, <2>2 DEF Jobs
<1>4. s3run \in S3run /\ ended \in BOOLEAN /\ disturbed \in BOOLEAN /\ reported \subseteq Files
  BY <1>1 DEF Types
<1>5. OaInv'
  BY <1>1, <1>2 DEF OaInv
<1>6. Busy' = Busy /\ \A j : (Worked(j)' <=> Worked(j)) /\ (Queued(j)' <=> Queued(j))
  BY <1>2 DEF Busy, Worked, Queued
<1>7. CASE ~s3run.alive
  <2>1. /\ misuse' = misuse \union {"s3run"}
        /\ UNCHANGED <<s3run, ended, reported, disturbed>>
    BY <1>7 DEF ThreadFinished
  <2>2. s3run.cancelled /\ s3run.interrupted
    BY <1>1, <1>7 DEF RunsInv
  <2>3. FilesInv' /\ Covered'
    <3>1. \A g : Whole(g)' => Whole(g)
      BY <2>1 DEF Whole
    <3>. QED BY <1>1, <1>2, <3>1, FilesSame, CoveredSame
  <2>4. Types' /\ ThreadsInv'
    BY <1>1, <1>2, <1>3, <2>1 DEF Types, ThreadsInv
  <2>5. JoinInv'
    <3>1. join' = join /\ join = NoJoin
      BY <1>2 DEF ThreadFinished, Free
    <3>. QED BY <3>1, JoinNone
  <2>6. RunsInv'
    BY <1>1, <1>2, <2>1, <2>2 DEF RunsInv
  <2>7. JobsInv' /\ CountInv'
    BY <1>1, <1>2, <2>1, <2>2 DEF JobsInv, CountInv
  <2>8. DocsInv'
    BY <1>1, <1>2, <2>1, DocsSame
  <2>. QED BY <1>5, <2>3, <2>4, <2>5, <2>6, <2>7, <2>8 DEF IInv
<1>8. CASE s3run.alive
  <2>1. /\ s3run' = Unrun(s3run, 1)
        /\ ended' = (ended \/ Zero(s3run, 1))
        /\ reported' = IF s3run.cancelled \/ job[1] # s3run.run THEN reported
                       ELSE reported \union {job[2]}
        /\ disturbed' = (disturbed \/ job[1] # s3run.run)
        /\ UNCHANGED misuse
    BY <1>8 DEF ThreadFinished
  <2>2. /\ s3run' \in S3run
        /\ s3run'.runcount = s3run.runcount - 1
        /\ s3run'.alive = s3run.alive /\ s3run'.run = s3run.run
        /\ s3run'.cancelled = s3run.cancelled /\ s3run'.findfiles = s3run.findfiles
        /\ s3run'.interrupted = s3run.interrupted /\ s3run'.idle_id = s3run.idle_id
    BY <1>4, <2>1, UnrunFacts
  <2>3. FilesInv' /\ Covered'
    <3>1. \A g : Whole(g)' => Whole(g)
      BY <2>2 DEF Whole
    <3>. QED BY <1>1, <1>2, <3>1, FilesSame, CoveredSame
  <2>4. Types'
    <3>1. ended' \in BOOLEAN /\ disturbed' \in BOOLEAN
      BY <2>1 DEF Zero
    <3>2. reported' \subseteq Files
      BY <1>3, <1>4, <2>1
    <3>. QED BY <1>1, <1>2, <1>3, <2>2, <3>1, <3>2 DEF Types
  <2>5. ThreadsInv' /\ JoinInv'
    <3>1. join' = join /\ join = NoJoin
      BY <1>2 DEF ThreadFinished, Free
    <3>2. ThreadsInv'
      BY <1>1, <1>2, <2>2 DEF ThreadsInv
    <3>. QED BY <3>1, <3>2, JoinNone
  <2>6. RunsInv'
    BY <1>1, <1>2, <1>3, <2>1, <2>2 DEF RunsInv
  <2>9. DocsInv' /\ Docs' = Docs
    BY <1>1, <1>2, <2>2, DocsSame
  <2>7. JobsInv'
    <3>1. \A j \in idles' : j[1] <= s3run.run /\ (j[1] = s3run.run => j[2] \in seen[s3run.run])
      BY <1>1, <1>3 DEF JobsInv
    <3>2. CASE s3run.cancelled
      BY <1>2, <2>2, <3>1, <3>2 DEF JobsInv
    <3>3. CASE ~s3run.cancelled
      <4>1. TP!Injective(threadqueue)
        BY <1>1, <3>3 DEF JobsInv
      <4>2. \A j \in Jobs : Queued(j)' \/ Worked(j)' =>
               j[1] = s3run.run /\ j[2] \in seen[s3run.run] /\ j \notin idles'
        BY <1>1, <1>2, <1>6, <3>3 DEF JobsInv
      <4>3. \A j \in Jobs : ~(Queued(j)' /\ Worked(j)')
        BY <1>1, <1>6, <3>3 DEF JobsInv
      <4>4. \A x, u \in Busy' : worker'[x].job = worker'[u].job => x = u
        BY <1>1, <1>2, <1>6, <3>3 DEF JobsInv
      <4>5. ASSUME s3run.run \in Runs, NEW f \in seen[s3run.run] \intersect Files,
                   NEW j, j = <<s3run.run, f>>
            PROVE  f \in reported' \/ Queued(j)' \/ Worked(j)' \/ j \in idles' \/ j \in Docs
        <5>1. f \in reported \/ Queued(j) \/ Worked(j) \/ j \in idles \/ j \in Docs
          BY <1>1, <3>3, <4>5 DEF JobsInv
        <5>2. f \in reported => f \in reported'
          BY <2>1
        <5>3. j \in idles => j \in idles' \/ f \in reported'
          <6>1. j = job => job[1] = s3run.run /\ job[2] = f
            BY <1>3, <4>5
          <6>. QED BY <1>2, <2>1, <3>3, <6>1
        <5>. QED BY <1>6, <5>1, <5>2, <5>3
      <4>6. s3run'.run \in Runs =>
               \A f \in seen'[s3run'.run] \intersect Files :
                 f \in reported' \/ Queued(<<s3run.run, f>>)' \/ Worked(<<s3run.run, f>>)'
                 \/ <<s3run'.run, f>> \in idles' \/ <<s3run'.run, f>> \in Docs
        <5>1. s3run'.run \in Runs =>
                \A f \in seen'[s3run'.run] \intersect Files : \A j : j = <<s3run'.run, f>> =>
                  f \in reported' \/ Queued(j)' \/ Worked(j)' \/ j \in idles' \/ j \in Docs
          BY <1>2, <2>2, <4>5
        <5>. QED BY <5>1
      <4>. QED BY <1>2, <2>2, <2>9, <3>1, <4>1, <4>2, <4>3, <4>4, <4>6 DEF JobsInv
    <3>. QED BY <3>2, <3>3
  <2>8. CountInv'
    <3>. SUFFICES ASSUME ~s3run'.cancelled, ~disturbed'
                  PROVE  CountInv'
      BY DEF CountInv
    <3>1. ~s3run.cancelled /\ ~disturbed /\ job[1] = s3run.run
      BY <2>1, <2>2
    <3>. DEFINE one == IF s3run.run \in Runs \intersect DOMAIN found THEN 1 ELSE 0
                n == Len(threadqueue.q)
                b == Cardinality(Busy)
                I == {j \in idles : j[1] = s3run.run}
                I1 == {j \in idles' : j[1] = s3run'.run}
                i == Cardinality(I)
                i1 == Cardinality(I1)
                o == Cardinality({j \in Docs : j[1] = s3run.run})
    <3>2. n \in Nat /\ b \in Nat /\ i \in Nat /\ o \in Nat /\ IsFiniteSet(I)
      BY <1>1, CountTypes, DocsCount
    <3>3. I1 = I \ {job} /\ job \in I
      BY <1>2, <2>2, <3>1
    <3>4. i1 = i - 1
      <4>. HIDE DEF I, I1
      <4>. QED BY <3>2, <3>3, FS_RemoveElement
    <3>5. i1 \in Nat
      <4>1. IsFiniteSet(I1)
        <5>. HIDE DEF I, I1
        <5>. QED BY <3>2, <3>3, FS_Subset
      <4>. QED BY <4>1, FS_CardinalityType
    <3>6. s3run.runcount = one + n + b + i + o /\ (ended => s3run.runcount = 0 /\ s3run.run \in Runs)
      BY <1>1, <3>1 DEF CountInv
    <3>7. one \in Nat
      OBVIOUS
    <3>. HIDE DEF one, n, b, i, i1, o
    <3>8. s3run'.runcount = one + n + b + i1 + o
      BY <2>2, <3>2, <3>4, <3>6, <3>7
    <3>9. s3run.runcount > 0
      BY <3>2, <3>4, <3>5, <3>6, <3>7
    <3>10. ended' => Zero(s3run, 1)
      <4>1. ~ended
        BY <3>6, <3>9
      <4>. QED BY <2>1, <4>1
    <3>11. Zero(s3run, 1) => s3run.runcount = 1
      BY DEF Zero
    <3>12. ended' => s3run'.runcount = 0
      BY <2>2, <3>10, <3>11
    <3>13. s3run'.run \in Runs
      BY <1>3, <2>2, <3>1
    <3>. QED BY <1>2, <1>6, <2>2, <2>9, <3>8, <3>12, <3>13 DEF CountInv, one, n, b, i1, o
  <2>. QED BY <1>5, <2>3, <2>4, <2>5, <2>6, <2>7, <2>8, <2>9 DEF IInv
<1>. QED BY <1>4, <1>7, <1>8, RunFields

\* snr3_run_loop_idle_func: a document is searched, and the next one begins.
LEMMA RunLoopIdleStep ==
    ASSUME IInv, misuse = {}, NEW job \in indoc, RunLoopIdle(job)
    PROVE  IInv'
<1>1. /\ FilesInv /\ Covered /\ Types /\ ThreadsInv /\ JoinInv /\ RunsInv /\ DocsInv
      /\ JobsInv /\ CountInv /\ OaInv
  BY DEF IInv
<1>2. /\ UNCHANGED ffvars
      /\ UNCHANGED <<threadqueue, threads, worker, idles, join, oa, incomplete>>
      /\ found' = found /\ seen' = seen
  BY DEF RunLoopIdle, ffvars
<1>3. /\ job \in Docs /\ job \in Jobs
      /\ job[1] \in Runs /\ job[2] \in Files /\ job = <<job[1], job[2]>>
  BY <1>1 DEF DocsInv, DP!Serves, Docs, Jobs
<1>4. s3run \in S3run /\ ended \in BOOLEAN /\ disturbed \in BOOLEAN /\ reported \subseteq Files
  BY <1>1 DEF Types
<1>5. OaInv'
  BY <1>1, <1>2 DEF OaInv
<1>6. Busy' = Busy /\ \A j : (Worked(j)' <=> Worked(j)) /\ (Queued(j)' <=> Queued(j))
  BY <1>2 DEF Busy, Worked, Queued
<1>7. JoinInv'
  <2>1. join' = join /\ join = NoJoin
    BY <1>2 DEF RunLoopIdle, Free
  <2>. QED BY <2>1, JoinNone
<1>8. CASE ~s3run.alive
  <2>1. /\ misuse' = misuse \union {"s3run"}
        /\ UNCHANGED <<s3run, docvars, ended, reported, disturbed>>
    BY <1>8 DEF RunLoopIdle
  <2>2. s3run.cancelled /\ s3run.interrupted
    <3>1. s3run.cancelled /\ indoc # {}
      BY <1>1, <1>8 DEF RunsInv
    <3>. QED BY <1>1, <3>1 DEF DocsInv
  <2>3. FilesInv' /\ Covered'
    <3>1. \A g : Whole(g)' => Whole(g)
      BY <2>1 DEF Whole
    <3>. QED BY <1>1, <1>2, <3>1, FilesSame, CoveredSame
  <2>4. Types' /\ ThreadsInv'
    BY <1>1, <1>2, <2>1 DEF Types, ThreadsInv
  <2>5. RunsInv'
    BY <1>1, <1>2, <2>1, <2>2 DEF RunsInv
  <2>6. JobsInv' /\ CountInv'
    BY <1>1, <1>2, <2>1, <2>2 DEF JobsInv, CountInv
  <2>7. DocsInv'
    BY <1>1, <1>2, <2>1, DocsSame
  <2>. QED BY <1>5, <1>7, <2>3, <2>4, <2>5, <2>6, <2>7 DEF IInv
<1>9. CASE s3run.alive
  <2>. DEFINE Q == DQ!WorkerReady(idlequeue)
              next == DQ!Started(Q) # {}
              U == Unrun(s3run, 1)
  <2>1. /\ idlequeue' = DQ!Run(Q)
        /\ indoc' = (indoc \ {job}) \union DQ!Started(Q)
        /\ s3run' = [U EXCEPT !.idle_id = next]
        /\ ended' = (ended \/ Zero(s3run, 1))
        /\ reported' = IF job[1] # s3run.run THEN reported ELSE reported \union {job[2]}
        /\ disturbed' = (disturbed \/ job[1] # s3run.run)
        /\ UNCHANGED misuse
    BY <1>9 DEF RunLoopIdle
  <2>2. /\ U \in S3run
        /\ U.runcount = s3run.runcount - 1
        /\ U.alive = s3run.alive /\ U.run = s3run.run
        /\ U.cancelled = s3run.cancelled /\ U.findfiles = s3run.findfiles
        /\ U.interrupted = s3run.interrupted
    BY <1>4, UnrunFacts
  <2>3. next \in BOOLEAN
    OBVIOUS
  <2>. HIDE DEF U, Q, next
  <2>4. /\ s3run' \in S3run
        /\ s3run'.runcount = s3run.runcount - 1
        /\ s3run'.alive = s3run.alive /\ s3run'.run = s3run.run
        /\ s3run'.cancelled = s3run.cancelled /\ s3run'.findfiles = s3run.findfiles
        /\ s3run'.interrupted = s3run.interrupted /\ s3run'.idle_id = next
    <3>1. s3run' \in S3run
      BY <2>1, <2>2, <2>3 DEF S3run
    <3>2. /\ s3run'.runcount = U.runcount
          /\ s3run'.alive = U.alive /\ s3run'.run = U.run
          /\ s3run'.cancelled = U.cancelled /\ s3run'.findfiles = U.findfiles
          /\ s3run'.interrupted = U.interrupted /\ s3run'.idle_id = next
      BY <2>1, <2>2 DEF S3run
    <3>. QED BY <2>2, <3>1, <3>2
  <2>5. /\ DP!Serves(Jobs, idlequeue', Docs' \ indoc', indoc')
        /\ idlequeue'.worknum <= 1 /\ IsFiniteSet(Docs')
        /\ Docs' = Docs \ {job}
        /\ DQ!Started(Q) # {} => indoc' # {}
    BY <1>1, <2>1, DocReady DEF Q
  <2>6. DocsInv'
    <3>1. indoc # {}
      OBVIOUS
    <3>2. s3run.cancelled => s3run.interrupted
      BY <1>1, <3>1 DEF DocsInv
    <3>3. \A j \in Docs : j[1] <= s3run.run /\ (j[1] = s3run.run => j[2] \in seen[s3run.run])
      BY <1>1 DEF DocsInv
    <3>. QED BY <1>2, <2>4, <2>5, <3>2, <3>3 DEF DocsInv, next
  <2>7. FilesInv' /\ Covered'
    <3>1. \A g : Whole(g)' => Whole(g)
      BY <2>4 DEF Whole
    <3>. QED BY <1>1, <1>2, <3>1, FilesSame, CoveredSame
  <2>8. Types'
    <3>1. ended' \in BOOLEAN /\ disturbed' \in BOOLEAN
      BY <2>1 DEF Zero
    <3>2. reported' \subseteq Files
      BY <1>3, <1>4, <2>1
    <3>. QED BY <1>1, <1>2, <2>4, <3>1, <3>2 DEF Types
  <2>9. ThreadsInv'
    BY <1>1, <1>2, <2>4 DEF ThreadsInv
  <2>10. RunsInv'
    BY <1>1, <1>2, <2>1, <2>4 DEF RunsInv
  <2>11. JobsInv'
    <3>1. \A j \in idles : j[1] <= s3run.run /\ (j[1] = s3run.run => j[2] \in seen[s3run.run])
      BY <1>1 DEF JobsInv
    <3>2. CASE s3run.cancelled
      BY <1>2, <2>4, <3>1, <3>2 DEF JobsInv
    <3>3. CASE ~s3run.cancelled
      <4>1. TP!Injective(threadqueue)
        BY <1>1, <3>3 DEF JobsInv
      <4>2. \A j \in Jobs : Queued(j)' \/ Worked(j)' =>
               j[1] = s3run.run /\ j[2] \in seen[s3run.run] /\ j \notin idles
        BY <1>1, <1>6, <3>3 DEF JobsInv
      <4>3. \A j \in Jobs : ~(Queued(j)' /\ Worked(j)')
        BY <1>1, <1>6, <3>3 DEF JobsInv
      <4>4. \A x, u \in Busy' : worker'[x].job = worker'[u].job => x = u
        BY <1>1, <1>2, <1>6, <3>3 DEF JobsInv
      <4>5. ASSUME s3run.run \in Runs, NEW f \in seen[s3run.run] \intersect Files,
                   NEW j, j = <<s3run.run, f>>
            PROVE  f \in reported' \/ Queued(j)' \/ Worked(j)' \/ j \in idles \/ j \in Docs'
        <5>1. f \in reported \/ Queued(j) \/ Worked(j) \/ j \in idles \/ j \in Docs
          BY <1>1, <3>3, <4>5 DEF JobsInv
        <5>2. f \in reported => f \in reported'
          BY <2>1
        <5>3. j \in Docs => j \in Docs' \/ f \in reported'
          <6>1. j = job => job[1] = s3run.run /\ job[2] = f
            BY <1>3, <4>5
          <6>. QED BY <2>1, <2>5, <6>1
        <5>. QED BY <1>6, <5>1, <5>2, <5>3
      <4>6. s3run'.run \in Runs =>
                \A f \in seen'[s3run'.run] \intersect Files : \A j : j = <<s3run'.run, f>> =>
                  f \in reported' \/ Queued(j)' \/ Worked(j)' \/ j \in idles' \/ j \in Docs'
        BY <1>2, <2>4, <4>5
      <4>7. s3run'.run \in Runs =>
               \A f \in seen'[s3run'.run] \intersect Files :
                 f \in reported' \/ Queued(<<s3run.run, f>>)' \/ Worked(<<s3run.run, f>>)'
                 \/ <<s3run'.run, f>> \in idles' \/ <<s3run'.run, f>> \in Docs'
        BY <4>6
      <4>. QED BY <1>2, <2>4, <3>1, <4>1, <4>2, <4>3, <4>4, <4>7 DEF JobsInv
    <3>. QED BY <3>2, <3>3
  <2>12. CountInv'
    <3>. SUFFICES ASSUME ~s3run'.cancelled, ~disturbed'
                  PROVE  CountInv'
      BY DEF CountInv
    <3>1. ~s3run.cancelled /\ ~disturbed /\ job[1] = s3run.run
      BY <2>1, <2>4
    <3>. DEFINE one == IF s3run.run \in Runs \intersect DOMAIN found THEN 1 ELSE 0
                n == Len(threadqueue.q)
                b == Cardinality(Busy)
                i == Cardinality({j \in idles : j[1] = s3run.run})
                O == {j \in Docs : j[1] = s3run.run}
                O1 == {j \in Docs' : j[1] = s3run'.run}
                o == Cardinality(O)
                o1 == Cardinality(O1)
    <3>2. n \in Nat /\ b \in Nat /\ i \in Nat /\ o \in Nat /\ IsFiniteSet(O)
      BY <1>1, CountTypes, DocsCount
    <3>3. O1 = O \ {job} /\ job \in O
      BY <1>3, <2>4, <2>5, <3>1
    <3>4. o1 = o - 1 /\ IsFiniteSet(O1)
      <4>. HIDE DEF O, O1
      <4>. QED BY <3>2, <3>3, FS_RemoveElement, FS_Subset
    <3>5. o1 \in Nat
      BY <3>4, FS_CardinalityType
    <3>6. s3run.runcount = one + n + b + i + o /\ (ended => s3run.runcount = 0 /\ s3run.run \in Runs)
      BY <1>1, <3>1 DEF CountInv
    <3>7. one \in Nat
      OBVIOUS
    <3>. HIDE DEF one, n, b, i, o, o1
    <3>8. s3run'.runcount = one + n + b + i + o1
      BY <2>4, <3>2, <3>4, <3>6, <3>7
    <3>9. s3run.runcount > 0
      BY <3>2, <3>4, <3>5, <3>6, <3>7
    <3>10. ended' => Zero(s3run, 1)
      <4>1. ~ended
        BY <3>6, <3>9
      <4>. QED BY <2>1, <4>1
    <3>11. Zero(s3run, 1) => s3run.runcount = 1
      BY DEF Zero
    <3>12. ended' => s3run'.runcount = 0
      BY <2>4, <3>10, <3>11
    <3>13. s3run'.run \in Runs
      BY <1>3, <2>4, <3>1
    <3>. QED BY <1>2, <1>6, <2>4, <3>8, <3>12, <3>13 DEF CountInv, one, n, b, i, o1
  <2>. QED BY <1>5, <1>7, <2>6, <2>7, <2>8, <2>9, <2>10, <2>11, <2>12 DEF IInv
<1>. QED BY <1>4, <1>8, <1>9, RunFields

\* queue_cancel: the main loop waits for the next thread.
LEMMA JoinStep ==
    ASSUME IInv, misuse = {}, JoinThread
    PROVE  IInv'
<1>1. /\ FilesInv /\ Covered /\ Types /\ ThreadsInv /\ JoinInv /\ RunsInv /\ DocsInv
      /\ JobsInv /\ CountInv /\ OaInv
  BY DEF IInv
<1>. DEFINE t == join.at
            next == IF \E i \in DOMAIN threads : threads[i] = t THEN Tail(threads) ELSE threads
            at == IF next = <<>> THEN 0 ELSE Head(next)
<1>2. /\ t # 0
      /\ worker' = [u \in DOMAIN worker \ {t} |-> worker[u]]
      /\ threads' = next
      /\ join' = [join EXCEPT !.at = at]
      /\ UNCHANGED ffvars /\ found' = found /\ seen' = seen
      /\ UNCHANGED <<s3run, threadqueue, docvars, idles, oa, ended, reported, disturbed, incomplete, misuse>>
  BY DEF JoinThread, history, ffvars
<1>3. /\ threads \in Seq(1 .. MaxThreads)
      /\ \A i, k \in 1 .. Len(threads) : threads[i] = threads[k] => i = k
      /\ {threads[i] : i \in 1 .. Len(threads)} = DOMAIN worker
  BY <1>1 DEF ThreadsInv
<1>4. join \in [at : 0 .. MaxThreads,
                after : {"none", "findall", "replaceall", "changed", "invalid", "close"}]
  BY <1>1 DEF Types
<1>5. /\ join.after # "none" /\ s3run.cancelled /\ s3run.alive /\ s3run.interrupted
      /\ threads # <<>> /\ Head(threads) = t
  BY <1>1, <1>2 DEF JoinInv, NoJoin
<1>6. /\ Len(threads) \in Nat /\ Len(threads) > 0 /\ threads[1] = t
      /\ Tail(threads) \in Seq(1 .. MaxThreads) /\ Len(Tail(threads)) = Len(threads) - 1
      /\ \A i \in 1 .. Len(threads) - 1 : Tail(threads)[i] = threads[i + 1]
  BY <1>3, <1>5
<1>7. threads' = Tail(threads)
  <2>1. \E i \in DOMAIN threads : threads[i] = t
    BY <1>3, <1>6
  <2>. QED BY <1>2, <2>1
<1>. HIDE DEF next
<1>8. /\ threads' \in Seq(1 .. MaxThreads) /\ Len(threads') = Len(threads) - 1
      /\ \A i \in 1 .. Len(threads) - 1 : threads'[i] = threads[i + 1]
  BY <1>6, <1>7
<1>9. /\ worker' \in [DOMAIN worker' -> WorkerRecs] /\ DOMAIN worker' = DOMAIN worker \ {t}
      /\ \A u \in DOMAIN worker' : worker'[u] = worker[u]
  <2>1. worker \in [DOMAIN worker -> WorkerRecs]
    BY <1>1 DEF Types, WorkerRecs
  <2>. QED BY <1>2, <2>1
<1>10. ThreadsInv'
  <2>1. \A i, k \in 1 .. Len(threads') : threads'[i] = threads'[k] => i = k
    <3>. SUFFICES ASSUME NEW i \in 1 .. Len(threads'), NEW k \in 1 .. Len(threads'), threads'[i] = threads'[k]
                  PROVE  i = k
      OBVIOUS
    <3>1. i + 1 \in 1 .. Len(threads) /\ k + 1 \in 1 .. Len(threads) /\ threads[i + 1] = threads[k + 1]
      BY <1>6, <1>8
    <3>2. i + 1 = k + 1
      BY <1>3, <3>1
    <3>. QED BY <3>2
  <2>2. ASSUME NEW x
        PROVE  x \in Links(threads') <=> x \in DOMAIN worker /\ x # t
    <3>1. x \in Links(threads') <=> \E i \in 1 .. Len(threads) - 1 : threads[i + 1] = x
      BY <1>8 DEF Links
    <3>2. x \in DOMAIN worker <=> \E i \in 1 .. Len(threads) : threads[i] = x
      BY <1>3
    <3>3. ASSUME NEW i \in 1 .. Len(threads) - 1, threads[i + 1] = x
          PROVE  x \in DOMAIN worker /\ x # t
      <4>1. i + 1 \in 1 .. Len(threads) /\ i + 1 # 1 /\ 1 \in 1 .. Len(threads)
        BY <1>6
      <4>. QED BY <1>3, <1>6, <3>2, <3>3, <4>1
    <3>4. ASSUME NEW i \in 1 .. Len(threads), threads[i] = x, x # t
          PROVE  \E k \in 1 .. Len(threads) - 1 : threads[k + 1] = x
      <4>1. i # 1
        BY <1>6, <3>4
      <4>2. i - 1 \in 1 .. Len(threads) - 1 /\ (i - 1) + 1 = i
        BY <1>6, <4>1
      <4>. QED BY <3>4, <4>2
    <3>. QED BY <3>1, <3>2, <3>3, <3>4
  <2>3. Links(threads') = DOMAIN worker'
    BY <1>9, <2>2
  <2>4. {threads'[i] : i \in 1 .. Len(threads')} = DOMAIN worker'
    BY <2>3 DEF Links
  <2>. QED BY <1>2, <1>5, <1>8, <2>1, <2>4 DEF ThreadsInv
<1>11. /\ at \in 0 .. MaxThreads
       /\ at = 0 => threads' = <<>>
       /\ at # 0 => threads' # <<>> /\ Head(threads') = at
  <2>1. MaxThreads \in Nat
    BY ThreadsAssumption
  <2>2. threads' # <<>> => Head(threads') \in 1 .. MaxThreads
    <3>. DEFINE S == 1 .. MaxThreads
    <3>1. threads' \in Seq(S)
      BY <1>8
    <3>. HIDE DEF S
    <3>2. threads' # <<>> => Head(threads') \in S
      BY <3>1
    <3>. QED BY <3>2 DEF S
  <2>3. at = IF threads' = <<>> THEN 0 ELSE Head(threads')
    BY <1>2
  <2>. HIDE DEF at
  <2>. QED BY <2>1, <2>2, <2>3
<1>. HIDE DEF at
<1>12. /\ join' \in [at : 0 .. MaxThreads,
                     after : {"none", "findall", "replaceall", "changed", "invalid", "close"}]
       /\ join'.at = at /\ join'.after = join.after
  BY <1>2, <1>4, <1>11
<1>13. FilesInv' /\ Covered'
  <2>1. \A g : Whole(g)' => Whole(g)
    BY <1>2 DEF Whole
  <2>. QED BY <1>1, <1>2, <2>1, FilesSame, CoveredSame
<1>14. Types'
  <2>1. DOMAIN worker' \subseteq 1 .. MaxThreads
    BY <1>1, <1>9 DEF Types
  <2>. QED BY <1>1, <1>2, <1>9, <1>12, <2>1 DEF Types, WorkerRecs
<1>15. JoinInv'
  BY <1>1, <1>2, <1>5, <1>11, <1>12 DEF JoinInv
<1>16. RunsInv' /\ OaInv' /\ JobsInv' /\ CountInv'
  BY <1>1, <1>2, <1>5 DEF RunsInv, OaInv, JobsInv, CountInv
<1>17. DocsInv'
  BY <1>1, <1>2, DocsSame
<1>. QED BY <1>10, <1>13, <1>14, <1>15, <1>16, <1>17 DEF IInv

\* snr3_run_in_files_cancel: the directories and jobs that wait are dropped, and the main
\* loop waits for the first thread.
LEMMA CancelStep ==
    ASSUME IInv, misuse = {}, Here,
           NEW after \in {"findall", "replaceall", "changed", "invalid", "close"},
           after \in {"findall", "replaceall", "changed"} => s3run.run + 1 \in Runs,
           CancelRun(after)
    PROVE  IInv'
<1>1. /\ FilesInv /\ Covered /\ Types /\ ThreadsInv /\ JoinInv /\ RunsInv /\ DocsInv
      /\ JobsInv /\ CountInv /\ OaInv
  BY DEF IInv
<1>. DEFINE ff == s3run.findfiles
            n == Len(threadqueue.q)
            busy == \/ s3run.run \in Runs \intersect DOMAIN found
                    \/ worker # << >> \/ idles # {} \/ indoc # {}
            all == DOMAIN found \ {ff}
            stopped == IF s3run.idle_id THEN [s3run EXCEPT !.runcount = 0, !.idle_id = FALSE]
                       ELSE s3run
            U == Unrun(stopped, n)
            at == IF threads = <<>> THEN 0 ELSE Head(threads)
<1>2. /\ IF ff = 0 THEN UNCHANGED <<ffvars, oa, incomplete>>
         ELSE /\ FindFilesCancel(ff)
              /\ oa' = IF OpenAdv \in Finished THEN [oa EXCEPT !.refcount = @ - 1] ELSE oa
              /\ incomplete' = incomplete \union {f \in all : \E d \in waiting : d.search = f}
      /\ misuse' = IF ff # 0 /\ ff \notin DOMAIN found THEN misuse \union {"findfiles"} ELSE misuse
      /\ IF s3run.idle_id
         THEN /\ idlequeue' = DQ!Run(DQ!WorkerReady(idlequeue))
              /\ indoc' = DQ!Started(DQ!WorkerReady(idlequeue))
         ELSE UNCHANGED docvars
      /\ s3run' = [U EXCEPT !.cancelled = TRUE, !.interrupted = @ \/ busy]
      /\ ended' = (ended \/ Zero(stopped, n))
      /\ threadqueue' = TQ!Cancelled(threadqueue)
      /\ join' = [at |-> at, after |-> after]
      /\ UNCHANGED <<threads, worker, idles, reported, disturbed>>
  BY DEF CancelRun
<1>3. /\ s3run \in S3run /\ ended \in BOOLEAN /\ ff \in Nat /\ n \in Nat
      /\ oa \in [refcount : Int, pending : SUBSET Files, opened : SUBSET Files]
      /\ s3run.alive
      /\ threads \in Seq(1 .. MaxThreads)
  BY <1>1, RunFields, CountTypes DEF Types, ThreadsInv, Here
<1>4. /\ s3run' \in S3run
      /\ s3run'.alive /\ s3run'.run = s3run.run /\ s3run'.cancelled = TRUE
      /\ s3run'.findfiles = ff /\ s3run'.idle_id = FALSE
      /\ s3run'.interrupted = (s3run.interrupted \/ busy)
  <2>0. /\ stopped \in S3run /\ stopped.alive = s3run.alive /\ stopped.run = s3run.run
        /\ stopped.findfiles = ff /\ stopped.interrupted = s3run.interrupted
        /\ stopped.idle_id = FALSE
    <3>. DEFINE z == 0
                no == FALSE
                T == [s3run EXCEPT !.runcount = z, !.idle_id = no]
    <3>1. z \in Int /\ no \in BOOLEAN
      OBVIOUS
    <3>. HIDE DEF z, no
    <3>2. /\ T \in S3run /\ T.alive = s3run.alive /\ T.run = s3run.run
          /\ T.findfiles = ff /\ T.interrupted = s3run.interrupted /\ T.idle_id = no
      BY <1>3, <3>1 DEF S3run
    <3>3. stopped = IF s3run.idle_id THEN T ELSE s3run
      BY DEF z, no
    <3>4. s3run.idle_id \in BOOLEAN
      BY <1>3, RunFields
    <3>. HIDE DEF T, stopped
    <3>. QED BY <1>3, <3>2, <3>3, <3>4 DEF no
  <2>. HIDE DEF stopped
  <2>1. /\ U \in S3run /\ U.alive = s3run.alive /\ U.run = s3run.run
        /\ U.findfiles = ff /\ U.interrupted = s3run.interrupted /\ U.idle_id = FALSE
    BY <1>3, <2>0, UnrunFacts
  <2>. DEFINE b == U.interrupted \/ busy
  <2>2. b \in BOOLEAN /\ b = (s3run.interrupted \/ busy)
    BY <2>1
  <2>3. s3run' = [U EXCEPT !.cancelled = TRUE, !.interrupted = b]
    BY <1>2
  <2>. HIDE DEF U, b, busy, ff
  <2>4. s3run' \in S3run
    BY <2>1, <2>2, <2>3 DEF S3run
  <2>5. /\ s3run'.alive = U.alive /\ s3run'.run = U.run /\ s3run'.cancelled = TRUE
        /\ s3run'.findfiles = U.findfiles /\ s3run'.interrupted = b
        /\ s3run'.idle_id = U.idle_id
    BY <2>1, <2>3 DEF S3run
  <2>. QED BY <1>3, <2>1, <2>2, <2>4, <2>5
<1>. HIDE DEF U, stopped
<1>5. ff # 0 => s3run'.interrupted
  <2>. SUFFICES ASSUME ff # 0
                PROVE  s3run.interrupted \/ busy
    BY <1>4
  <2>1. CASE ~s3run.cancelled
    BY <1>1, <2>1 DEF RunsInv
  <2>2. CASE s3run.cancelled
    <3>1. ff \in DOMAIN found => ff \in Runs
      BY <1>1, SearchFacts DEF FilesInv, FoundInv, OpenAdv
    <3>. QED BY <1>1, <2>2, <3>1 DEF RunsInv
  <2>. QED BY <2>1, <2>2
<1>6. /\ FilesInv' /\ seen' = seen
      /\ DOMAIN found' \subseteq DOMAIN found
      /\ \A g \in Runs \intersect DOMAIN found' : found'[g].cancel = (found[g].cancel \/ g = ff)
      /\ OpenAdv \in DOMAIN found' => found'[OpenAdv].cancel = found[OpenAdv].cancel
  <2>1. CASE ff = 0
    <3>1. UNCHANGED ffvars /\ found' = found /\ seen' = seen
      BY <1>2, <2>1 DEF ffvars
    <3>2. \A g \in Runs \intersect DOMAIN found : found[g].cancel \in BOOLEAN /\ g # ff
      BY <1>1, <2>1, SearchFacts DEF FilesInv, FoundInv, OpenAdv
    <3>. HIDE DEF ff
    <3>. QED BY <1>1, <3>1, <3>2, FilesSame
  <2>2. CASE ff # 0
    <3>1. FindFilesCancel(ff)
      BY <1>2, <2>2
    <3>2. seen' = seen
      BY <3>1 DEF FindFilesCancel
    <3>3. /\ FilesInv' /\ DOMAIN found' \subseteq DOMAIN found
          /\ \A g \in DOMAIN found' : found'[g].cancel = (found[g].cancel \/ g = ff)
      BY <1>1, <3>1, CancelFiles
    <3>4. OpenAdv \in DOMAIN found => found[OpenAdv].cancel \in BOOLEAN
      BY <1>1 DEF FilesInv, FoundInv
    <3>5. OpenAdv # ff
      BY <2>2 DEF OpenAdv
    <3>. HIDE DEF ff
    <3>. QED BY <3>2, <3>3, <3>4, <3>5
  <2>. QED BY <2>1, <2>2
<1>7. Covered'
  <2>. SUFFICES ASSUME NEW f \in Searches \ incomplete', Whole(f)'
                PROVE  CoveredOf(f)'
    BY DEF Covered
  <2>1. f = OpenAdv
    BY <1>4 DEF Whole
  <2>2. CASE ff = 0
    <3>1. UNCHANGED ffvars /\ incomplete' = incomplete
      BY <1>2, <2>2
    <3>2. CoveredOf(f)
      BY <1>1, <2>1, <3>1 DEF Covered, Whole
    <3>. QED BY <3>1, <3>2 DEF CoveredOf, ToCome, ffvars
  <2>3. CASE ff # 0
    <3>1. FindFilesCancel(ff) /\ incomplete' = incomplete \union {g \in all : \E d \in waiting : d.search = g}
      BY <1>2, <2>3
    <3>2. KeepsLeft /\ dirs' = dirs \ waiting
      BY <1>1, <3>1, CancelFiles
    <3>3. CoveredOf(f)
      BY <1>1, <2>1, <3>1 DEF Covered, Whole
    <3>4. ASSUME NEW d \in dirs \ dirs', d.search = f
          PROVE  FALSE
      <4>1. d \in waiting /\ d.search \in DOMAIN found
        BY <1>1, <3>2 DEF FilesInv, FoundInv, RefsMatch
      <4>2. f \in all
        BY <2>1, <2>3, <3>4, <4>1 DEF OpenAdv
      <4>3. f \in {g \in all : \E c \in waiting : c.search = g}
        BY <3>4, <4>1, <4>2
      <4>. QED BY <3>1, <4>3
    <3>. QED BY <1>6, <3>2, <3>3, <3>4, CoveredKept
  <2>. QED BY <2>2, <2>3
<1>8. /\ at \in 0 .. MaxThreads
      /\ at = 0 => threads = <<>>
      /\ at # 0 => threads # <<>> /\ Head(threads) = at
  <2>1. MaxThreads \in Nat
    BY ThreadsAssumption
  <2>2. threads # <<>> => Head(threads) \in 1 .. MaxThreads
    <3>. DEFINE S == 1 .. MaxThreads
    <3>1. threads \in Seq(S)
      BY <1>3
    <3>. HIDE DEF S
    <3>2. threads # <<>> => Head(threads) \in S
      BY <3>1
    <3>. QED BY <3>2 DEF S
  <2>3. at = IF threads = <<>> THEN 0 ELSE Head(threads)
    OBVIOUS
  <2>. HIDE DEF at
  <2>. QED BY <2>1, <2>2, <2>3
<1>9. oa' \in [refcount : Int, pending : SUBSET Files, opened : SUBSET Files]
  BY <1>2, <1>3
<1>10. incomplete' \subseteq {OpenAdv} \union {g \in Runs : g <= s3run.run}
  <2>1. \A g \in DOMAIN found : g \in {OpenAdv} \union {h \in Runs : h <= s3run.run}
    BY <1>1, SearchFacts DEF RunsInv, FilesInv, FoundInv
  <2>2. incomplete' \subseteq incomplete \union DOMAIN found
    BY <1>2
  <2>. QED BY <1>1, <2>1, <2>2 DEF Types
<1>11. Types'
  <2>1. threadqueue' \in [q : Seq(Jobs), worknum : Int]
    <3>1. threadqueue.worknum \in Int
      BY <1>1 DEF Types
    <3>. QED BY <1>2, <3>1 DEF TQ!Cancelled
  <2>2. ended' \in BOOLEAN
    BY <1>2 DEF Zero
  <2>3. join' \in [at : 0 .. MaxThreads,
                   after : {"none", "findall", "replaceall", "changed", "invalid", "close"}]
    <3>. HIDE DEF at
    <3>. QED BY <1>2, <1>8
  <2>. QED BY <1>1, <1>2, <1>4, <1>9, <1>10, <2>1, <2>2, <2>3 DEF Types
<1>12. ThreadsInv'
  BY <1>1, <1>2, <1>4 DEF ThreadsInv
<1>13. JoinInv'
  <2>. HIDE DEF at
  <2>1. join'.at = at /\ join'.after = after /\ after # "none"
    BY <1>2
  <2>2. at # 0 => worker # << >>
    <3>1. ASSUME threads # <<>> PROVE DOMAIN worker # {}
      <4>1. 1 \in 1 .. Len(threads)
        BY <1>3, <3>1
      <4>2. threads[1] \in {threads[i] : i \in 1 .. Len(threads)}
        BY <4>1
      <4>3. {threads[i] : i \in 1 .. Len(threads)} = DOMAIN worker
        BY <1>1 DEF ThreadsInv
      <4>. QED BY <4>2, <4>3
    <3>2. DOMAIN worker # {} => worker # << >>
      OBVIOUS
    <3>. QED BY <1>8, <3>1, <3>2
  <2>3. at # 0 => s3run'.interrupted
    BY <1>4, <2>2
  <2>. QED BY <1>2, <1>4, <1>8, <2>1, <2>3 DEF JoinInv
<1>14. RunsInv'
  <2>1. \A g \in Runs \intersect DOMAIN found' :
          g <= s3run.run /\ found'[g].cancel /\ s3run'.interrupted
    <3>. TAKE g \in Runs \intersect DOMAIN found'
    <3>1. g \in Runs \intersect DOMAIN found
      BY <1>6
    <3>2. CASE found[g].cancel
      BY <1>1, <1>4, <1>6, <3>1, <3>2 DEF RunsInv
    <3>3. CASE ~found[g].cancel
      <4>1. g = s3run.run /\ ~s3run.cancelled /\ s3run.run \in Runs \intersect DOMAIN found
        BY <1>1, <3>1, <3>3 DEF RunsInv
      <4>2. ff # 0 /\ ff = s3run.run
        BY <1>1, <4>1 DEF RunsInv
      <4>. QED BY <1>1, <1>5, <1>6, <3>1, <4>1, <4>2 DEF RunsInv
    <3>. QED BY <3>2, <3>3
  <2>2. OpenAdv \in DOMAIN found' => ~found'[OpenAdv].cancel
    BY <1>1, <1>6 DEF RunsInv
  <2>3. misuse' # {} => s3run'.interrupted
    BY <1>2, <1>5
  <2>4. idles' # {} => s3run'.interrupted
    BY <1>2, <1>4
  <2>5. s3run'.run \in Runs => Top \in seen'[s3run'.run]
    BY <1>1, <1>4, <1>6 DEF RunsInv
  <2>6. s3run'.findfiles <= s3run'.run
    BY <1>1, <1>4 DEF RunsInv
  <2>7. s3run'.findfiles # 0 => s3run'.interrupted
    BY <1>4, <1>5
  <2>. QED BY <1>4, <2>1, <2>2, <2>3, <2>4, <2>5, <2>6, <2>7 DEF RunsInv
<1>17. DocsInv'
  <2>1. CASE s3run.idle_id
    <3>1. /\ DP!Serves(Jobs, idlequeue, Docs \ indoc, indoc) /\ idlequeue.worknum <= 1
          /\ indoc # {}
      BY <1>1, <2>1 DEF DocsInv
    <3>2. PICK job \in indoc : TRUE
      BY <3>1
    <3>3. indoc \ {job} = {}
      <4>1. IsFiniteSet(indoc) /\ Cardinality(indoc) <= 1
        BY <3>1, DocFinite DEF DP!Serves
      <4>2. IsFiniteSet(indoc \ {job}) /\ Cardinality(indoc \ {job}) = Cardinality(indoc) - 1
        BY <4>1, FS_RemoveElement
      <4>3. Cardinality(indoc \ {job}) \in Nat /\ Cardinality(indoc) \in Nat
        BY <4>1, <4>2, FS_CardinalityType
      <4>4. Cardinality(indoc \ {job}) = 0
        BY <4>1, <4>2, <4>3
      <4>. QED BY <4>2, <4>4, FS_EmptySet
    <3>4. /\ idlequeue' = DQ!Run(DQ!WorkerReady(idlequeue))
          /\ indoc' = (indoc \ {job}) \union DQ!Started(DQ!WorkerReady(idlequeue))
      BY <1>2, <2>1, <3>3
    <3>5. /\ DP!Serves(Jobs, idlequeue', Docs' \ indoc', indoc')
          /\ idlequeue'.worknum <= 1 /\ IsFiniteSet(Docs')
          /\ Docs' = Docs \ {job}
      BY <1>1, <3>4, DocReady
    <3>6. s3run'.interrupted
      BY <1>4, <3>1
    <3>7. \A j \in Docs : j[1] <= s3run.run /\ (j[1] = s3run.run => j[2] \in seen[s3run.run])
      BY <1>1 DEF DocsInv
    <3>. QED BY <1>4, <1>6, <3>5, <3>6, <3>7 DEF DocsInv
  <2>2. CASE ~s3run.idle_id
    <3>1. s3run.idle_id = FALSE
      BY <1>3, <2>2, RunFields
    <3>2. UNCHANGED docvars
      BY <1>2, <2>2
    <3>3. indoc # {} => s3run'.interrupted
      BY <1>4
    <3>. HIDE DEF busy
    <3>. QED BY <1>1, <1>4, <1>6, <3>1, <3>2, <3>3, DocsSame
  <2>. QED BY <2>1, <2>2
<1>15. JobsInv' /\ CountInv'
  BY <1>1, <1>2, <1>4, <1>6 DEF JobsInv, CountInv
<1>16. OaInv'
  <2>1. oa'.pending = oa.pending /\ oa'.opened = oa.opened
    BY <1>2, <1>3
  <2>2. oa'.refcount = IF OpenAdv \in DOMAIN found \ DOMAIN found' THEN oa.refcount - 1 ELSE oa.refcount
    <3>1. CASE ff = 0
      BY <1>2, <3>1 DEF ffvars
    <3>2. CASE ff # 0
      <4>1. OpenAdv \in Finished <=> OpenAdv \in DOMAIN found \ DOMAIN found'
        BY <1>1 DEF RunsInv, Finished
      <4>. QED BY <1>2, <1>3, <3>2, <4>1
    <3>. QED BY <3>1, <3>2
  <2>3. oa.pending \subseteq Files /\ Cardinality(oa.pending) \in Nat
    BY <1>3, TreeFacts, FS_Subset, FS_CardinalityType
  <2>4. oa'.refcount = Cardinality(oa.pending) + (IF OpenAdv \in DOMAIN found' THEN 1 ELSE 0)
    BY <1>1, <1>6, <2>2, <2>3 DEF OaInv
  <2>. QED BY <1>1, <1>6, <2>1, <2>4 DEF OaInv
<1>. QED BY <1>6, <1>7, <1>11, <1>12, <1>13, <1>14, <1>15, <1>16, <1>17 DEF IInv

\* The handler goes on without a new run.
LEMMA AfterStep ==
    ASSUME IInv, misuse = {}, join.at = 0, join.after # "none", join' = NoJoin,
           s3run' \in S3run, s3run'.run = s3run.run, s3run'.cancelled = s3run.cancelled,
           s3run'.findfiles = s3run.findfiles, s3run'.interrupted = s3run.interrupted,
           s3run'.idle_id = s3run.idle_id,
           UNCHANGED <<threadqueue, threads, worker, docvars, idles, oa, ended, disturbed, reported,
                       incomplete, misuse>>,
           UNCHANGED ffvars
    PROVE  IInv'
<1>1. /\ FilesInv /\ Covered /\ Types /\ ThreadsInv /\ JoinInv /\ RunsInv /\ DocsInv
      /\ JobsInv /\ CountInv /\ OaInv
  BY DEF IInv
<1>2. s3run.cancelled /\ found' = found /\ seen' = seen
  BY <1>1 DEF JoinInv, ffvars
<1>3. FilesInv' /\ Covered'
  <2>1. \A g : Whole(g)' => Whole(g)
    BY DEF Whole
  <2>. QED BY <1>1, <2>1, FilesSame, CoveredSame
<1>4. Types'
  <2>1. join' \in [at : 0 .. MaxThreads,
                   after : {"none", "findall", "replaceall", "changed", "invalid", "close"}]
    BY ThreadsAssumption DEF NoJoin
  <2>. QED BY <1>1, <2>1 DEF Types
<1>5. ThreadsInv' /\ JoinInv'
  <2>1. ThreadsInv'
    BY <1>1 DEF ThreadsInv
  <2>. QED BY <2>1, JoinNone
<1>6. RunsInv'
  BY <1>1, <1>2 DEF RunsInv
<1>7. JobsInv' /\ CountInv' /\ OaInv'
  BY <1>1, <1>2 DEF JobsInv, CountInv, OaInv
<1>8. DocsInv'
  BY <1>1, <1>2, DocsSame
<1>. QED BY <1>3, <1>4, <1>5, <1>6, <1>7, <1>8 DEF IInv

\* The handler goes on with a new run: no worker is left of the last one, and no search
\* but that of the new run can end it.
LEMMA BeginStep ==
    ASSUME IInv, misuse = {}, join.at = 0, join.after \in {"findall", "replaceall", "changed"},
           join' = NoJoin,
           NEW T \in S3run, T.run = s3run.run, T.alive = s3run.alive, T.interrupted = s3run.interrupted,
           T.idle_id = s3run.idle_id,
           RunInFiles(T), UNCHANGED <<threads, worker, docvars, idles, oa, incomplete, misuse>>
    PROVE  IInv'
<1>1. /\ FilesInv /\ Covered /\ Types /\ ThreadsInv /\ JoinInv /\ RunsInv /\ DocsInv
      /\ JobsInv /\ CountInv /\ OaInv
  BY DEF IInv
<1>. DEFINE g == s3run.run + 1
<1>2. /\ s3run.cancelled /\ s3run.alive /\ threads = <<>> /\ g \in Runs
      /\ s3run \in S3run /\ s3run.run \in Nat
      /\ join.after # "none"
  BY <1>1, RunFields DEF JoinInv, Types
<1>3. DOMAIN worker = {} /\ Busy = {} /\ Busy' = {}
  <2>1. DOMAIN worker = {}
    <3>1. {threads[i] : i \in 1 .. Len(threads)} = DOMAIN worker
      BY <1>1 DEF ThreadsInv
    <3>2. 1 .. Len(threads) = {}
      BY <1>2
    <3>. QED BY <3>1, <3>2
  <2>. QED BY <2>1 DEF Busy
<1>4. /\ threadqueue' = TQ!EmptyQueue
      /\ FindFiles(g, Top)
      /\ ended' = FALSE /\ disturbed' = FALSE /\ reported' = {}
      /\ s3run' = [T EXCEPT !.cancelled = FALSE, !.runcount = 1, !.run = g, !.findfiles = g]
  BY DEF RunInFiles
<1>5. /\ g \in Searches /\ g \in Nat /\ g # 0 /\ g # OpenAdv /\ g = s3run.run + 1
  BY <1>2, SearchFacts
<1>. HIDE DEF g
<1>6. /\ s3run' \in S3run
      /\ s3run'.run = g /\ s3run'.findfiles = g /\ s3run'.cancelled = FALSE /\ s3run'.runcount = 1
      /\ s3run'.alive /\ s3run'.interrupted = s3run.interrupted
      /\ s3run'.idle_id = s3run.idle_id
  <2>1. s3run' \in S3run
    <3>. DEFINE c == FALSE
                one == 1
    <3>1. c \in BOOLEAN /\ one \in Int /\ g \in {0} \union Runs /\ g \in Nat
      BY <1>2, <1>5
    <3>2. s3run' = [T EXCEPT !.cancelled = c, !.runcount = one, !.run = g, !.findfiles = g]
      BY <1>4
    <3>. HIDE DEF c, one
    <3>. QED BY <3>1, <3>2 DEF S3run
  <2>2. /\ s3run'.run = g /\ s3run'.findfiles = g /\ s3run'.cancelled = FALSE /\ s3run'.runcount = 1
        /\ s3run'.alive = T.alive /\ s3run'.interrupted = T.interrupted
        /\ s3run'.idle_id = T.idle_id
    BY <1>4 DEF S3run
  <2>. QED BY <1>2, <2>1, <2>2
<1>7. /\ FilesInv'
      /\ g \notin DOMAIN found
      /\ DOMAIN found' = DOMAIN found \union {g}
      /\ seen' = [seen EXCEPT ![g] = {Top}]
      /\ \A f \in DOMAIN found : found'[f] = found[f]
      /\ ~found'[g].cancel
  BY <1>1, <1>4, <1>5, BeginFiles
<1>8. seen'[g] = {Top} /\ \A f \in Searches \ {g} : seen'[f] = seen[f]
  <2>1. seen \in [Searches -> SUBSET Entries]
    BY <1>1 DEF FilesInv, MetOnce
  <2>. QED BY <1>5, <1>7, <2>1
<1>9. Top \notin Files
  BY TreeFacts, DepthFacts
<1>10. Covered'
  <2>. SUFFICES ASSUME NEW f \in Searches \ incomplete', Whole(f)'
                PROVE  CoveredOf(f)'
    BY DEF Covered
  <2>1. CASE f = g
    BY <1>1, <1>4, <1>5, <2>1, CoveredBegun
  <2>2. CASE f # g
    <3>1. f = OpenAdv
      BY <1>6, <2>2 DEF Whole
    <3>2. CoveredOf(f)
      BY <1>1, <3>1 DEF Covered, Whole
    <3>. QED BY <1>1, <1>4, <1>5, <2>2, <3>2, CoveredBegun
  <2>. QED BY <2>1, <2>2
<1>11. TP!EmptyQueue \in TP!Queue(Jobs) /\ TP!Settled(TP!EmptyQueue) /\ TP!Injective(TP!EmptyQueue)
       /\ \A job : ~TP!Holds(TP!EmptyQueue, job)
  BY ThreadLimit, TP!EmptyQueueFacts
<1>12. threadqueue' = TP!EmptyQueue /\ threadqueue'.worknum = 0 /\ Len(threadqueue'.q) = 0
  BY <1>4 DEF TQ!EmptyQueue, TP!EmptyQueue
<1>13. Types'
  <2>1. join' \in [at : 0 .. MaxThreads,
                   after : {"none", "findall", "replaceall", "changed", "invalid", "close"}]
    BY ThreadsAssumption DEF NoJoin
  <2>2. threadqueue' \in [q : Seq(Jobs), worknum : Int]
    BY <1>4 DEF TQ!EmptyQueue
  <2>3. incomplete' \subseteq {OpenAdv} \union {f \in Runs : f <= s3run'.run}
    <3>1. \A f \in Runs : f <= s3run.run => f <= g
      BY <1>2, <1>5, SearchFacts
    <3>. QED BY <1>1, <1>6, <3>1 DEF Types
  <2>. QED BY <1>1, <1>4, <1>6, <1>11, <1>12, <2>1, <2>2, <2>3 DEF Types
<1>14. ThreadsInv'
  <2>1. threadqueue'.worknum = Cardinality(DOMAIN worker') /\ TP!Settled(threadqueue')
    BY <1>3, <1>11, <1>12, FS_EmptySet
  <2>. QED BY <1>1, <1>3, <2>1, ZenonT(60) DEF ThreadsInv
<1>15. JoinInv'
  BY JoinNone
<1>16. RunsInv'
  <2>1. \A f \in Runs \intersect DOMAIN found :
          found[f].cancel /\ f <= g /\ f # g /\ s3run.interrupted
    <3>. TAKE f \in Runs \intersect DOMAIN found
    <3>1. found[f].cancel /\ f <= s3run.run /\ s3run.interrupted
      BY <1>1, <1>2 DEF RunsInv
    <3>2. f <= g /\ f # g
      BY <1>2, <1>5, <3>1, SearchFacts
    <3>. QED BY <3>1, <3>2
  <2>2. \A f \in Runs \intersect DOMAIN found' :
          /\ f <= s3run'.run
          /\ found'[f].cancel <=> ~(f = s3run'.run /\ ~s3run'.cancelled)
          /\ found'[f].cancel => s3run'.interrupted
    <3>. TAKE f \in Runs \intersect DOMAIN found'
    <3>1. CASE f = g
      <4>1. g <= g
        BY <1>5
      <4>. QED BY <1>6, <1>7, <3>1, <4>1
    <3>2. CASE f # g
      BY <1>6, <1>7, <2>1, <3>2
    <3>. QED BY <3>1, <3>2
  <2>3. OpenAdv \in DOMAIN found' => ~found'[OpenAdv].cancel
    BY <1>1, <1>5, <1>7 DEF RunsInv
  <2>4. g <= g
    BY <1>5
  <2>5. g \in Runs \intersect DOMAIN found'
    BY <1>2, <1>5, <1>7
  <2>. QED BY <1>5, <1>6, <1>8, <2>2, <2>3, <2>4, <2>5 DEF RunsInv
<1>17. \A job \in idles : job[1] <= g /\ job[1] # g
  <2>. TAKE job \in idles
  <2>1. job[1] <= s3run.run /\ job[1] \in Nat
    BY <1>1, SearchFacts DEF JobsInv, Types, Jobs
  <2>. QED BY <1>2, <1>5, <2>1
<1>21. Docs' = Docs /\ idlequeue' = idlequeue /\ indoc' = indoc
  BY DEF Docs, docvars
<1>22. \A job \in Docs : job[1] <= g /\ job[1] # g
  <2>. TAKE job \in Docs
  <2>1. job \in Jobs
    BY <1>1 DEF DocsInv, DP!Serves, Docs
  <2>2. job[1] <= s3run.run /\ job[1] \in Nat
    BY <1>1, <2>1, SearchFacts DEF DocsInv, Jobs
  <2>. QED BY <1>2, <1>5, <2>2
<1>23. DocsInv'
  BY <1>1, <1>6, <1>21, <1>22 DEF DocsInv
<1>18. JobsInv'
  <2>1. \A job \in idles' : job[1] <= s3run'.run /\ (job[1] = s3run'.run => job[2] \in seen'[s3run'.run])
    BY <1>6, <1>17
  <2>2. TP!Injective(threadqueue')
    BY <1>11, <1>12
  <2>3. \A job : ~Queued(job)' /\ ~Worked(job)'
    BY <1>3, <1>11, <1>12 DEF Queued, Worked
  <2>4. seen'[s3run'.run] \intersect Files = {}
    BY <1>6, <1>8, <1>9
  <2>. QED BY <1>3, <2>1, <2>2, <2>3, <2>4 DEF JobsInv
<1>19. CountInv'
  <2>1. {job \in idles' : job[1] = s3run'.run} = {}
    BY <1>6, <1>17
  <2>4. {job \in Docs' : job[1] = s3run'.run} = {}
    BY <1>6, <1>21, <1>22
  <2>2. /\ Cardinality({job \in idles' : job[1] = s3run'.run}) = 0 /\ Cardinality(Busy') = 0
        /\ Cardinality({job \in Docs' : job[1] = s3run'.run}) = 0
    BY <1>3, <2>1, <2>4, FS_EmptySet
  <2>3. (IF s3run'.run \in Runs \intersect DOMAIN found' THEN 1 ELSE 0) = 1
    BY <1>2, <1>5, <1>6, <1>7
  <2>. QED BY <1>4, <1>6, <1>12, <2>2, <2>3 DEF CountInv
<1>20. OaInv'
  <2>1. OpenAdv \in DOMAIN found' <=> OpenAdv \in DOMAIN found
    BY <1>5, <1>7
  <2>2. seen'[OpenAdv] = seen[OpenAdv]
    BY <1>5, <1>8, SearchFacts
  <2>. QED BY <1>1, <2>1, <2>2 DEF OaInv
<1>. QED BY <1>7, <1>10, <1>13, <1>14, <1>15, <1>16, <1>18, <1>19, <1>20, <1>23 DEF IInv

\* The handler goes on after its cancel.
LEMMA AfterCancelStep ==
    ASSUME IInv, misuse = {}, AfterCancel
    PROVE  IInv'
<1>. DEFINE S == [s3run EXCEPT !.callback = IF join.after = "changed"
                                           THEN "dialog_changed_run_ready_cb"
                                           ELSE "threaded_all_ready"]
<1>1. /\ join.at = 0 /\ join.after # "none" /\ join' = NoJoin
      /\ UNCHANGED <<threads, worker, docvars, idles, oa, incomplete, misuse>>
  BY DEF AfterCancel
<1>2. /\ s3run \in S3run
      /\ join.after \in {"none", "findall", "replaceall", "changed", "invalid", "close"}
  BY DEF IInv, Types
<1>3. /\ S \in S3run /\ S.run = s3run.run /\ S.alive = s3run.alive
      /\ S.cancelled = s3run.cancelled /\ S.findfiles = s3run.findfiles
      /\ S.interrupted = s3run.interrupted /\ S.idle_id = s3run.idle_id
  <2>. DEFINE c == IF join.after = "changed" THEN "dialog_changed_run_ready_cb" ELSE "threaded_all_ready"
  <2>1. c \in {"threaded_all_ready", "dialog_changed_run_ready_cb"}
    OBVIOUS
  <2>2. S = [s3run EXCEPT !.callback = c]
    OBVIOUS
  <2>. HIDE DEF c, S
  <2>. QED BY <1>2, <2>1, <2>2 DEF S3run
<1>. HIDE DEF S
<1>4. CASE join.after = "findall"
  <2>. DEFINE T == [S EXCEPT !.findall = TRUE, !.buttons = FALSE]
  <2>1. RunInFiles(T)
    BY <1>4 DEF AfterCancel, S
  <2>2. /\ T \in S3run /\ T.run = s3run.run /\ T.alive = s3run.alive /\ T.interrupted = s3run.interrupted
        /\ T.idle_id = s3run.idle_id
    BY <1>3 DEF S3run
  <2>. HIDE DEF T
  <2>. QED BY <1>1, <1>4, <2>1, <2>2, BeginStep
<1>5. CASE join.after = "replaceall"
  <2>. DEFINE T == [S EXCEPT !.replaceall = TRUE, !.buttons = FALSE]
  <2>1. RunInFiles(T)
    BY <1>5 DEF AfterCancel, S
  <2>2. /\ T \in S3run /\ T.run = s3run.run /\ T.alive = s3run.alive /\ T.interrupted = s3run.interrupted
        /\ T.idle_id = s3run.idle_id
    BY <1>3 DEF S3run
  <2>. HIDE DEF T
  <2>. QED BY <1>1, <1>5, <2>1, <2>2, BeginStep
<1>6. CASE join.after = "changed" /\ s3run.findall
  <2>1. RunInFiles(S)
    BY <1>6 DEF AfterCancel, S
  <2>. QED BY <1>1, <1>3, <1>6, <2>1, BeginStep
<1>7. CASE join.after = "changed" /\ ~s3run.findall
  <2>1. s3run' = S /\ UNCHANGED <<threadqueue, ffvars, ended, disturbed, reported>>
    BY <1>7 DEF AfterCancel, S
  <2>. QED BY <1>1, <1>3, <2>1, AfterStep
<1>8. CASE join.after = "invalid"
  <2>1. UNCHANGED <<s3run, threadqueue, ffvars, ended, disturbed, reported>>
    BY <1>8 DEF AfterCancel
  <2>. QED BY <1>1, <1>2, <2>1, AfterStep
<1>9. CASE join.after = "close"
  <2>1. /\ s3run' = [s3run EXCEPT !.alive = FALSE]
        /\ UNCHANGED <<threadqueue, ffvars, ended, disturbed, reported>>
    BY <1>9 DEF AfterCancel
  <2>2. /\ s3run' \in S3run /\ s3run'.run = s3run.run /\ s3run'.cancelled = s3run.cancelled
        /\ s3run'.findfiles = s3run.findfiles /\ s3run'.interrupted = s3run.interrupted
        /\ s3run'.idle_id = s3run.idle_id
    BY <1>2, <2>1 DEF S3run
  <2>. QED BY <1>1, <2>1, <2>2, AfterStep
<1>. QED BY <1>1, <1>2, <1>4, <1>5, <1>6, <1>7, <1>8, <1>9

-----------------------------------------------------------------------------
(* The invariant                                                           *)

\* Nothing is in progress at first.
LEMMA InitIInv ==
    ASSUME Init
    PROVE  IInv
<1>1. /\ ffdqueue = EmptyQueue /\ found = << >> /\ left = << >> /\ dirs = {}
      /\ seen = [f \in Searches |-> {}]
  BY DEF Init, FindFilesInit
<1>2. /\ s3run = [alive |-> TRUE, run |-> 0, cancelled |-> FALSE, runcount |-> 0, findfiles |-> 0,
                  callback |-> "threaded_all_ready", findall |-> FALSE, replaceall |-> FALSE,
                  buttons |-> TRUE, idle_id |-> FALSE, interrupted |-> FALSE]
      /\ threadqueue = TQ!EmptyQueue
      /\ threads = <<>> /\ worker = << >> /\ idles = {} /\ join = NoJoin
      /\ idlequeue = DQ!EmptyQueue /\ indoc = {}
      /\ oa = [refcount |-> 0, pending |-> {}, opened |-> {}]
      /\ ended = FALSE /\ disturbed = FALSE
      /\ reported = {} /\ incomplete = {} /\ misuse = {}
  BY DEF Init
<1>3. DOMAIN found = {} /\ DOMAIN left = {} /\ DOMAIN worker = {} /\ Busy = {}
  BY <1>1, <1>2 DEF Busy
<1>4. IsFiniteSet({}) /\ Cardinality({}) = 0
  BY FS_EmptySet
<1>5. FilesInv
  <2>1. DirsInv
    <3>1. Serves(DirRecs, ffdqueue, dirs \ DOMAIN left, DOMAIN left)
      BY <1>1, <1>3, EmptyServes
    <3>2. ffdqueue.worknum <= MaxWorknum
      BY <1>1, MaxWorknumAssumption DEF EmptyQueue
    <3>3. left \in [DOMAIN left -> [opened : BOOLEAN, entries : SUBSET Entries]]
      BY <1>1, <1>3
    <3>. QED BY <1>1, <1>3, <1>4, <3>1, <3>2, <3>3 DEF DirsInv
  <2>2. FoundInv
    BY <1>1, <1>3 DEF FoundInv, RefsMatch
  <2>3. MetOnce
    BY <1>1 DEF MetOnce
  <2>. QED BY <2>1, <2>2, <2>3 DEF FilesInv
<1>6. Covered
  BY <1>1 DEF Covered, CoveredOf
<1>7. TP!EmptyQueue \in TP!Queue(Jobs) /\ TP!Settled(TP!EmptyQueue) /\ TP!Injective(TP!EmptyQueue)
      /\ \A job : ~TP!Holds(TP!EmptyQueue, job)
  BY ThreadLimit, TP!EmptyQueueFacts
<1>8. /\ threadqueue = TP!EmptyQueue /\ threadqueue.worknum = 0 /\ Len(threadqueue.q) = 0
      /\ threadqueue \in [q : Seq(Jobs), worknum : Int]
  BY <1>2 DEF TQ!EmptyQueue, TP!EmptyQueue
<1>9. 0 \notin Runs
  BY RunsAssumption DEF OpenAdv
<1>10. Types
  <2>1. s3run \in S3run
    BY <1>2 DEF S3run
  <2>2. worker \in [DOMAIN worker -> [job : Jobs, pc : {"load", "search", "ready", "over"}]]
    BY <1>2, <1>3
  <2>3. join \in [at : 0 .. MaxThreads,
                  after : {"none", "findall", "replaceall", "changed", "invalid", "close"}]
    BY <1>2, ThreadsAssumption DEF NoJoin
  <2>4. oa \in [refcount : Int, pending : SUBSET Files, opened : SUBSET Files]
    BY <1>2
  <2>. QED BY <1>2, <1>3, <1>4, <1>7, <1>8, <2>1, <2>2, <2>3, <2>4 DEF Types
<1>11. ThreadsInv
  <2>1. threads \in Seq(1 .. MaxThreads) /\ Len(threads) = 0
    BY <1>2
  <2>2. 1 .. Len(threads) = {}
    BY <2>1
  <2>3. {threads[i] : i \in 1 .. Len(threads)} = DOMAIN worker
    BY <1>3, <2>2
  <2>4. TP!Settled(threadqueue) /\ threadqueue.worknum = Cardinality(DOMAIN worker)
    BY <1>3, <1>4, <1>7, <1>8
  <2>. QED BY <1>3, <2>1, <2>2, <2>3, <2>4 DEF ThreadsInv
<1>12. JoinInv
  BY <1>2 DEF JoinInv, NoJoin
<1>13. RunsInv
  BY <1>2, <1>3, <1>9 DEF RunsInv
<1>17. Docs = {} /\ DocsInv
  <2>1. idlequeue = DP!EmptyQueue
    BY <1>2 DEF DQ!EmptyQueue, DP!EmptyQueue
  <2>2. DP!Serves(Jobs, idlequeue, {}, {})
    BY <2>1, DocLimit, DP!EmptyServes
  <2>3. Docs = {}
    BY <1>2, <2>2, DocItems DEF Docs
  <2>4. idlequeue.worknum <= 1
    BY <2>1 DEF DP!EmptyQueue
  <2>5. Docs \ indoc = {}
    BY <2>3
  <2>6. s3run.idle_id = FALSE /\ s3run.cancelled = FALSE
    BY <1>2
  <2>. QED BY <1>2, <1>4, <2>2, <2>3, <2>4, <2>5, <2>6 DEF DocsInv
<1>14. JobsInv
  BY <1>2, <1>3, <1>7, <1>8, <1>9 DEF JobsInv, Queued, Worked
<1>15. CountInv
  <2>1. {job \in idles : job[1] = s3run.run} = {}
    BY <1>2
  <2>2. {job \in Docs : job[1] = s3run.run} = {}
    BY <1>17
  <2>3. /\ Cardinality({job \in idles : job[1] = s3run.run}) = 0
        /\ Cardinality({job \in Docs : job[1] = s3run.run}) = 0
    BY <1>4, <2>1, <2>2
  <2>. QED BY <1>2, <1>3, <1>4, <1>8, <1>9, <2>3 DEF CountInv
<1>16. OaInv
  <2>1. seen[OpenAdv] = {}
    BY <1>1, SearchFacts
  <2>. QED BY <1>2, <1>3, <1>4, <2>1 DEF OaInv
<1>. QED BY <1>5, <1>6, <1>10, <1>11, <1>12, <1>13, <1>14, <1>15, <1>16, <1>17 DEF IInv

\* One step after the other.
LEMMA NextIInv ==
    ASSUME IInv, [Next]_vars
    PROVE  IInv'
<1>1. CASE UNCHANGED vars
  <2>1. /\ UNCHANGED ffvars /\ found' = found /\ seen' = seen
        /\ UNCHANGED <<s3run, threadqueue, threads, worker, docvars, idles, join>>
        /\ UNCHANGED <<oa, ended, reported, disturbed, incomplete, misuse>>
    BY <1>1 DEF vars, ffvars, s3vars, history
  <2>2. FilesInv' /\ Covered'
    <3>1. \A g : Whole(g)' => Whole(g)
      BY <2>1 DEF Whole
    <3>. QED BY <2>1, <3>1, FilesSame, CoveredSame DEF IInv
  <2>3. Types' /\ ThreadsInv' /\ JoinInv' /\ RunsInv'
    BY <2>1 DEF IInv, Types, ThreadsInv, JoinInv, RunsInv
  <2>5. DocsInv' /\ Docs' = Docs
    BY <2>1, DocsSame DEF IInv
  <2>4. JobsInv' /\ CountInv' /\ OaInv'
    BY <2>1, <2>5 DEF IInv, JobsInv, CountInv, OaInv, Busy, Queued, Worked
  <2>. QED BY <2>2, <2>3, <2>4, <2>5 DEF IInv
<1>2. CASE Next
  <2>. SUFFICES ASSUME misuse = {}, User \/ System
                PROVE  IInv'
    BY <1>2 DEF Next
  <2>1. CASE User
    <3>1. CASE s3run.run + 1 \in Runs /\ FindAll
      BY <3>1, CancelStep DEF FindAll
    <3>2. CASE s3run.run + 1 \in Runs /\ ReplaceAll
      BY <3>2, CancelStep DEF ReplaceAll
    <3>3. CASE s3run.run + 1 \in Runs /\ ChangeOption(TRUE)
      BY <3>3, CancelStep DEF ChangeOption
    <3>4. CASE ChangeOption(FALSE)
      BY <3>4, CancelStep DEF ChangeOption
    <3>5. CASE CloseDialog
      BY <3>5, CancelStep DEF CloseDialog
    <3>6. CASE OpenAdvanced
      BY <3>6, OpenStep
    <3>. QED BY <2>1, <3>1, <3>2, <3>3, <3>4, <3>5, <3>6 DEF User
  <2>2. CASE System
    <3>1. ASSUME NEW d \in DOMAIN left, NEW ok \in Errors, EnumerateChildrenLcb(d, ok)
          PROVE  IInv'
      <4>1. ok \in BOOLEAN
        BY DEF Errors
      <4>. QED BY <3>1, <4>1, EnumerateStep
    <3>2. ASSUME NEW d \in DOMAIN left, NEW chunk \in {{}} \union {{e} : e \in left[d].entries},
                 NextFilesLcb(d, chunk)
          PROVE  IInv'
      BY <3>2, NextFilesStep
    <3>3. ASSUME NEW f \in oa.pending, OpenAdvContentFilter(f)
          PROVE  IInv'
      BY <3>3, FilterStep
    <3>4. ASSUME NEW t \in DOMAIN worker, NEW ok \in Errors, Loaded(t, ok)
          PROVE  IInv'
      <4>1. ok \in BOOLEAN
        BY DEF Errors
      <4>. QED BY <3>4, <4>1, LoadedStep
    <3>5. ASSUME NEW t \in DOMAIN worker, Searched(t)
          PROVE  IInv'
      BY <3>5, SearchedStep
    <3>6. ASSUME NEW t \in DOMAIN worker, WorkerReadyInthread(t)
          PROVE  IInv'
      BY <3>6, ReadyStep
    <3>7. ASSUME NEW job \in idles, ThreadFinished(job)
          PROVE  IInv'
      BY <3>7, FinishedStep
    <3>10. ASSUME NEW job \in indoc, RunLoopIdle(job)
           PROVE  IInv'
      BY <3>10, RunLoopIdleStep
    <3>8. CASE JoinThread
      BY <3>8, JoinStep
    <3>9. CASE AfterCancel
      BY <3>9, AfterCancelStep
    <3>. QED BY <2>2, <3>1, <3>2, <3>3, <3>4, <3>5, <3>6, <3>7, <3>8, <3>9, <3>10 DEF System
  <2>. QED BY <2>1, <2>2
<1>. QED BY <1>1, <1>2

\* The invariant holds in every reachable state.
LEMMA SpecIInv == Spec => []IInv
<1>1. Init => IInv
  BY InitIInv
<1>2. IInv /\ [Next]_vars => IInv'
  BY NextIInv
<1>. QED BY <1>1, <1>2, PTL DEF Spec

-----------------------------------------------------------------------------
(* What the counters say                                                   *)

\* A queue has as many items as it holds different ones.
LEMMA ItemsCounted ==
    ASSUME NEW S, NEW s \in Seq(S), \A i, k \in 1 .. Len(s) : s[i] = s[k] => i = k
    PROVE  Cardinality({s[i] : i \in 1 .. Len(s)}) = Len(s)
<1>. DEFINE n == Len(s)
            T == {s[i] : i \in 1 .. n}
            at == [i \in 1 .. n |-> s[i]]
<1>1. n \in Nat
  OBVIOUS
<1>2. at \in Surjection(1 .. n, T)
  BY DEF Surjection
<1>3. at \in Injection(1 .. n, T)
  BY DEF Injection, IsInjective
<1>4. IsFiniteSet(1 .. n) /\ Cardinality(1 .. n) = n
  <2>. HIDE DEF n
  <2>1. \A a, b \in Int : /\ IsFiniteSet(a .. b)
                          /\ Cardinality(a .. b) = IF a > b THEN 0 ELSE b - a + 1
    BY FS_Interval
  <2>2. 1 \in Int /\ n \in Int
    BY <1>1
  <2>3. IsFiniteSet(1 .. n) /\ Cardinality(1 .. n) = IF 1 > n THEN 0 ELSE n - 1 + 1
    BY <2>1, <2>2, Zenon
  <2>. QED BY <1>1, <2>3
<1>5. Cardinality(T) = n
  <2>. HIDE DEF at, T, n
  <2>. QED BY <1>2, <1>3, <1>4, FS_Surjection
<1>. QED BY <1>5

\* The directories that wait and those that have a slot
LEMMA SlotsRight == ASSUME DirsInv PROVE SlotsMatch
<1>1. waiting = dirs \ DOMAIN left /\ DOMAIN left \subseteq dirs
  BY WaitingFacts DEF DirsInv
<1>2. /\ ffdqueue \in Queue(DirRecs) /\ Settled(ffdqueue) /\ Injective(ffdqueue)
      /\ ffdqueue.worknum = Cardinality(DOMAIN left) /\ ffdqueue.worknum <= MaxWorknum
  BY DEF DirsInv, Serves
<1>3. ffdqueue.q \in Seq(DirRecs) /\ Len(ffdqueue.q) \in Nat /\ ffdqueue.worknum \in Int
  BY <1>2, QueueParts
<1>4. Cardinality({ffdqueue.q[i] : i \in 1 .. Len(ffdqueue.q)}) = Len(ffdqueue.q)
  <2>1. \A i, k \in 1 .. Len(ffdqueue.q) : ffdqueue.q[i] = ffdqueue.q[k] => i = k
    BY <1>2 DEF Injective
  <2>. QED BY <1>3, <2>1, ItemsCounted
<1>5. waiting = {ffdqueue.q[i] : i \in 1 .. Len(ffdqueue.q)}
  BY <1>3 DEF waiting
<1>6. Len(ffdqueue.q) > 0 => ffdqueue.worknum = MaxWorknum
  BY <1>2, <1>3, MaxWorknumAssumption DEF Settled
<1>7. Len(ffdqueue.q) = Cardinality(waiting)
  BY <1>4, <1>5
<1>8. waiting \union DOMAIN left = dirs /\ waiting \intersect DOMAIN left = {}
  BY <1>1
<1>. QED BY <1>2, <1>6, <1>7, <1>8 DEF SlotsMatch

\* The types of the properties
LEMMA TypesRight == ASSUME IInv PROVE TypeOK
<1>1. s3run.run \in {0} \union Runs /\ s3run.findfiles \in 0 .. s3run.run
  <2>1. s3run.run \in {0} \union Runs /\ s3run.run \in Nat /\ s3run.findfiles \in Nat
    BY RunFields DEF IInv, Types
  <2>. QED BY <2>1 DEF IInv, RunsInv
<1>2. \A i \in DOMAIN threadqueue.q : threadqueue.q[i] \in Jobs
  <2>1. threadqueue.q \in Seq(Jobs)
    BY DEF IInv, Types
  <2>. QED BY <2>1
<1>3. /\ DOMAIN worker \subseteq 1 .. MaxThreads
      /\ \A t \in DOMAIN worker : worker[t].job \in Jobs
                             /\ worker[t].pc \in {"load", "search", "ready", "over"}
      /\ idles \union Docs \subseteq Jobs /\ reported \subseteq Files /\ ended \in BOOLEAN
      /\ oa.pending \subseteq Files /\ oa.opened \subseteq Files
  <2>1. Docs \subseteq Jobs
    BY DEF IInv, DocsInv, DP!Serves
  <2>. QED BY <2>1 DEF IInv, Types
<1>4. DOMAIN found \subseteq Searches /\ \A d \in dirs : d.dir \in Dirs
  <2>1. dirs \subseteq DirRecs
    BY WaitingFacts DEF IInv, FilesInv
  <2>. QED BY <2>1 DEF IInv, FilesInv, FoundInv, DirRecs
<1>. QED BY <1>1, <1>2, <1>3, <1>4 DEF TypeOK

\* The workers, their slots, and the end of a join
LEMMA WorkersRight == ASSUME IInv PROVE WorkersMatch
<1>1. /\ threads \in Seq(1 .. MaxThreads)
      /\ \A i, k \in 1 .. Len(threads) : threads[i] = threads[k] => i = k
      /\ {threads[i] : i \in 1 .. Len(threads)} = DOMAIN worker
  BY DEF IInv, ThreadsInv
<1>2. {threads[i] : i \in DOMAIN threads} = DOMAIN worker
  <2>1. DOMAIN threads = 1 .. Len(threads)
    BY <1>1
  <2>. QED BY <1>1, <2>1
<1>3. Len(threads) = Cardinality(DOMAIN worker)
  BY <1>1, ItemsCounted
<1>4. ASSUME ~s3run.cancelled
      PROVE  /\ threadqueue.worknum = Cardinality(Running)
             /\ threadqueue.q # <<>> => threadqueue.worknum = MaxThreads
  <2>1. /\ TP!Settled(threadqueue)
        /\ threadqueue.worknum = Cardinality(DOMAIN worker)
        /\ \A t \in DOMAIN worker : worker[t].pc # "over"
        /\ DOMAIN worker \in SUBSET (1 .. MaxThreads)
        /\ threadqueue.q \in Seq(Jobs)
    BY <1>4 DEF IInv, ThreadsInv, Types
  <2>2. Running = DOMAIN worker
    BY <2>1 DEF Running
  <2>3. MaxThreads \in Nat
    BY ThreadsAssumption
  <2>4. Cardinality(DOMAIN worker) \in Nat /\ Cardinality(DOMAIN worker) <= MaxThreads
    <3>1. \A a, b \in Int : /\ IsFiniteSet(a .. b)
                            /\ Cardinality(a .. b) = IF a > b THEN 0 ELSE b - a + 1
      BY FS_Interval
    <3>2. 1 \in Int /\ MaxThreads \in Int
      BY <2>3
    <3>3. /\ IsFiniteSet(1 .. MaxThreads)
          /\ Cardinality(1 .. MaxThreads) = IF 1 > MaxThreads THEN 0 ELSE MaxThreads - 1 + 1
      BY <3>1, <3>2, Zenon
    <3>4. Cardinality(1 .. MaxThreads) = MaxThreads
      BY <2>3, <3>3
    <3>5. Cardinality(DOMAIN worker) <= Cardinality(1 .. MaxThreads) /\ IsFiniteSet(DOMAIN worker)
      BY <2>1, <3>3, FS_Subset
    <3>. QED BY <3>4, <3>5, FS_CardinalityType
  <2>5. threadqueue.q # <<>> => Len(threadqueue.q) > 0
    BY <2>1
  <2>6. Len(threadqueue.q) > 0 => threadqueue.worknum >= MaxThreads
    BY <2>1 DEF TP!Settled
  <2>7. threadqueue.worknum \in Nat /\ threadqueue.worknum <= MaxThreads
    BY <2>1, <2>4
  <2>. QED BY <2>1, <2>2, <2>3, <2>5, <2>6, <2>7
<1>5. ASSUME join.at = 0, join.after # "none" PROVE worker = << >>
  <2>1. threads = <<>>
    BY <1>5 DEF IInv, JoinInv
  <2>2. DOMAIN worker = {}
    BY <1>1, <2>1
  <2>3. worker = [t \in DOMAIN worker |-> worker[t]]
    BY DEF IInv, Types
  <2>. QED BY <2>2, <2>3
<1>. QED BY <1>2, <1>3, <1>4, <1>5 DEF WorkersMatch

\* The document that is searched, and those that wait for it
LEMMA DocsRight == ASSUME IInv PROVE DocsMatch
<1>1. /\ DP!Serves(Jobs, idlequeue, Docs \ indoc, indoc)
      /\ idlequeue.worknum <= 1
  BY DEF IInv, DocsInv
<1>2. /\ idlequeue.worknum = Cardinality(indoc) /\ idlequeue.q \in Seq(Jobs)
      /\ DP!Settled(idlequeue)
  BY <1>1, DocFinite DEF DP!Serves, DP!Queue
<1>3. ASSUME idlequeue.q # <<>> PROVE indoc # {}
  <2>1. Len(idlequeue.q) > 0
    BY <1>2, <1>3
  <2>2. Cardinality(indoc) >= 1
    BY <1>2, <2>1 DEF DP!Settled
  <2>. QED BY <2>2, FS_EmptySet
<1>. QED BY <1>1, <1>2, <1>3 DEF DocsMatch

\* runcount
LEMMA RuncountRight == ASSUME IInv PROVE RuncountMatches
<1>. SUFFICES ASSUME ~s3run.cancelled, ~disturbed
              PROVE  s3run.runcount =
                        Cardinality({s3run.run} \intersect Runs \intersect DOMAIN found)
                        + Len(threadqueue.q)
                        + Cardinality({t \in Running : worker[t].pc # "ready"})
                        + Cardinality({job \in idles : job[1] = s3run.run})
                        + Cardinality({job \in Docs : job[1] = s3run.run})
  BY DEF RuncountMatches
<1>1. {t \in Running : worker[t].pc # "ready"} = Busy
  BY DEF Running, Busy, IInv, Types
<1>2. Cardinality({s3run.run} \intersect Runs \intersect DOMAIN found) =
        IF s3run.run \in Runs \intersect DOMAIN found THEN 1 ELSE 0
  <2>1. CASE s3run.run \in Runs \intersect DOMAIN found
    <3>1. {s3run.run} \intersect Runs \intersect DOMAIN found = {s3run.run}
      BY <2>1
    <3>2. Cardinality({s3run.run}) = 1
      BY FS_Singleton
    <3>. QED BY <2>1, <3>1, <3>2
  <2>2. CASE s3run.run \notin Runs \intersect DOMAIN found
    <3>1. {s3run.run} \intersect Runs \intersect DOMAIN found = {}
      BY <2>2
    <3>2. Cardinality({}) = 0
      BY FS_EmptySet
    <3>. QED BY <2>2, <3>1, <3>2
  <2>. QED BY <2>1, <2>2
<1>3. s3run.runcount =
        (IF s3run.run \in Runs \intersect DOMAIN found THEN 1 ELSE 0)
        + Len(threadqueue.q) + Cardinality(Busy)
        + Cardinality({job \in idles : job[1] = s3run.run})
        + Cardinality({job \in Docs : job[1] = s3run.run})
  BY DEF IInv, CountInv
<1>. QED BY <1>1, <1>2, <1>3

\* The counters agree with what is in progress in every reachable state: RefsMatch and
\* SlotsMatch for the directories, WorkersMatch for the threads of queue_worker_ready_inthread
\* and queue_cancel, RuncountMatches for snr3run_unrun, and nothing is used after its free.
THEOREM SpecCounts == Spec => []Counts
<1>1. IInv => Counts
  <2>. SUFFICES ASSUME IInv PROVE Counts
    OBVIOUS
  <2>1. RefsMatch /\ DirsInv
    BY DEF IInv, FilesInv, FoundInv
  <2>2. NoUseAfterFree
    BY DEF IInv, RunsInv, NoUseAfterFree
  <2>. QED BY <2>1, <2>2, SlotsRight, TypesRight, WorkersRight, DocsRight, RuncountRight
      DEF Counts
<1>. QED BY <1>1, SpecIInv, PTL

-----------------------------------------------------------------------------
(* What a search has seen when it is done                                  *)

\* Induction over the natural numbers, for a set: the library's form takes an operator.
LEMMA Induction ==
    ASSUME NEW A, 0 \in A, \A n \in Nat : n \in A => n + 1 \in A
    PROVE  \A n \in Nat : n \in A
<1>. SUFFICES ASSUME NEW n \in Nat, n \notin A
              PROVE  FALSE
  OBVIOUS
<1>. DEFINE S == {k \in 0 .. n : k \in A}
            next == [k \in S |-> k + 1]
<1>1. IsFiniteSet(0 .. n) /\ S \in SUBSET (0 .. n)
  BY FS_Interval
<1>2. IsFiniteSet(S)
  BY <1>1, FS_Subset
<1>3. IsFiniteSet(S \ {0}) /\ Cardinality(S \ {0}) = Cardinality(S) - 1 /\ Cardinality(S) \in Nat
  <2>1. 0 \in S
    OBVIOUS
  <2>. HIDE DEF S
  <2>. QED BY <1>2, <2>1, FS_RemoveElement, FS_CardinalityType
<1>4. \A k \in S : k + 1 \in S \ {0}
  <2>. TAKE k \in S
  <2>1. k # n /\ k \in Nat /\ k + 1 \in A
    OBVIOUS
  <2>. QED BY <2>1
<1>5. next \in [S -> S \ {0}]
  BY <1>4
<1>6. \E x, y \in S : x # y /\ next[x] = next[y]
  <2>. DEFINE T == S \ {0}
  <2>1. IsFiniteSet(T) /\ Cardinality(T) < Cardinality(S) /\ next \in [S -> T]
    BY <1>3, <1>5
  <2>. HIDE DEF S, T, next
  <2>. QED BY <1>2, <2>1, FS_PigeonHole
<1>. QED BY <1>6

\* A search that has met the top, to which nothing is to come and of which no directory is
\* left, has met every file: level by level, each directory was met by its parent.
LEMMA AllSeen ==
    ASSUME NEW f \in Searches, CoveredOf(f), Top \in seen[f], \A d \in dirs : d.search # f
    PROVE  Files \subseteq seen[f]
<1>1. \A p \in seen[f] \intersect Dirs : \A e \in Tree[p] :
          e \in Files \/ Depth[p] < MaxDepth => e \in seen[f]
  BY DEF CoveredOf, ToCome
<1>. DEFINE level == {n \in Nat : n <= MaxDepth => \A p \in Dirs : Depth[p] = n => p \in seen[f]}
<1>2. 0 \in level
  <2>1. \A p \in Dirs : Depth[p] = 0 => p = Top
    <3>. SUFFICES ASSUME NEW p \in Dirs, Depth[p] = 0, p # Top PROVE FALSE
      OBVIOUS
    <3>1. PICK d \in Dirs : p \in Tree[d]
      BY DepthFacts
    <3>2. Depth[p] = Depth[d] + 1 /\ Depth[d] \in Nat
      BY <3>1, DepthFacts
    <3>. QED BY <3>2
  <2>. QED BY <2>1
<1>3. ASSUME NEW n \in Nat, n \in level PROVE n + 1 \in level
  <2>. SUFFICES ASSUME n + 1 <= MaxDepth, NEW p \in Dirs, Depth[p] = n + 1
                PROVE  p \in seen[f]
    OBVIOUS
  <2>1. p # Top
    BY DepthFacts
  <2>2. PICK d \in Dirs : p \in Tree[d]
    BY <2>1, DepthFacts
  <2>3. Depth[p] = Depth[d] + 1 /\ Depth[d] \in Nat
    BY <2>2, DepthFacts
  <2>4. Depth[d] = n /\ n < MaxDepth /\ n <= MaxDepth
    BY <2>3, MaxDepthAssumption
  <2>5. d \in seen[f]
    BY <1>3, <2>4
  <2>. QED BY <1>1, <2>2, <2>4, <2>5
<1>4. \A n \in Nat : n \in level
  <2>. HIDE DEF level
  <2>. QED BY <1>2, <1>3, Induction
<1>. SUFFICES ASSUME NEW g \in Files PROVE g \in seen[f]
  OBVIOUS
<1>5. PICK d \in Dirs : g \in Tree[d] /\ Depth[d] <= MaxDepth
  BY DepthFacts
<1>6. Depth[d] \in Nat
  BY DepthFacts
<1>7. d \in seen[f]
  BY <1>4, <1>5, <1>6
<1>. QED BY <1>1, <1>5, <1>7

\* A search whose Tfindfiles is gone has no directory left.
LEMMA GoneHasNone ==
    ASSUME FilesInv, NEW f, f \notin DOMAIN found
    PROVE  \A d \in dirs : d.search # f
BY DEF FilesInv, FoundInv, RefsMatch

\* The run
LEMMA EndedRight == ASSUME IInv PROVE EndedMeansDone
<1>. SUFFICES ASSUME ended, ~s3run.cancelled, ~disturbed, s3run.run \notin incomplete
              PROVE  reported = Files
  BY DEF EndedMeansDone
<1>. DEFINE own == IF s3run.run \in Runs \intersect DOMAIN found THEN 1 ELSE 0
            due == {job \in idles : job[1] = s3run.run}
            docs == {job \in Docs : job[1] = s3run.run}
<1>1. s3run.run \in Runs
  BY DEF IInv, CountInv
<1>2. 0 = own + Len(threadqueue.q) + Cardinality(Busy) + Cardinality(due) + Cardinality(docs)
  BY DEF IInv, CountInv
<1>3. /\ Len(threadqueue.q) \in Nat /\ IsFiniteSet(Busy) /\ Cardinality(Busy) \in Nat
      /\ IsFiniteSet(due) /\ Cardinality(due) \in Nat
      /\ IsFiniteSet(docs) /\ Cardinality(docs) \in Nat
  BY CountTypes, DocsCount DEF IInv
<1>4. /\ own = 0 /\ Len(threadqueue.q) = 0 /\ Cardinality(Busy) = 0
      /\ Cardinality(due) = 0 /\ Cardinality(docs) = 0
  <2>1. own \in Nat
    OBVIOUS
  <2>. HIDE DEF own, due, docs
  <2>. QED BY <1>2, <1>3, <2>1
<1>5. s3run.run \notin DOMAIN found
  BY <1>1, <1>4
<1>6. Busy = {} /\ due = {} /\ docs = {}
  <2>. HIDE DEF due, docs
  <2>. QED BY <1>3, <1>4, FS_EmptySet
<1>7. Files \subseteq seen[s3run.run]
  <2>1. Top \in seen[s3run.run]
    BY <1>1 DEF IInv, RunsInv
  <2>2. s3run.run \in Searches
    BY <1>1, SearchFacts
  <2>3. CoveredOf(s3run.run)
    <3>1. Whole(s3run.run)
      BY DEF Whole
    <3>. QED BY <2>2, <3>1 DEF IInv, Covered
  <2>4. \A d \in dirs : d.search # s3run.run
    BY <1>5, GoneHasNone DEF IInv
  <2>. QED BY <2>1, <2>2, <2>3, <2>4, AllSeen
<1>8. \A f \in Files : f \in reported
  <2>. TAKE f \in Files
  <2>. DEFINE job == <<s3run.run, f>>
  <2>1. f \in reported \/ Queued(job) \/ Worked(job) \/ job \in idles \/ job \in Docs
    BY <1>1, <1>7 DEF IInv, JobsInv
  <2>2. ~Worked(job)
    BY <1>6 DEF Worked
  <2>3. ~Queued(job)
    BY <1>4 DEF Queued, TP!Holds
  <2>4. job \notin idles /\ job \notin Docs
    BY <1>6
  <2>. QED BY <2>1, <2>2, <2>3, <2>4
<1>9. reported \subseteq Files
  BY DEF IInv, Types
<1>. QED BY <1>8, <1>9

\* The open advanced
LEMMA OpenedRight == ASSUME IInv PROVE OpenAdvancedDone
<1>1. /\ oa.refcount = Cardinality(oa.pending) + (IF OpenAdv \in DOMAIN found THEN 1 ELSE 0)
      /\ oa.pending \union oa.opened = seen[OpenAdv] \intersect Files
      /\ oa.pending \in SUBSET Files
  BY DEF IInv, OaInv, Types
<1>2. ASSUME oa.opened # {}, oa.refcount = 0, OpenAdv \notin incomplete
      PROVE  oa.opened = Files
  <2>. DEFINE own == IF OpenAdv \in DOMAIN found THEN 1 ELSE 0
  <2>1. IsFiniteSet(oa.pending) /\ Cardinality(oa.pending) \in Nat
    BY <1>1, TreeFacts, FS_Subset, FS_CardinalityType
  <2>2. Cardinality(oa.pending) = 0 /\ own = 0
    <3>1. own \in Nat /\ 0 = Cardinality(oa.pending) + own
      BY <1>1, <1>2
    <3>. HIDE DEF own
    <3>. QED BY <2>1, <3>1
  <2>3. oa.pending = {}
    BY <2>1, <2>2, FS_EmptySet
  <2>4. OpenAdv \notin DOMAIN found
    BY <2>2
  <2>5. oa.opened = seen[OpenAdv] \intersect Files
    BY <1>1, <2>3
  <2>6. OpenAdv \in Searches
    BY SearchFacts
  <2>7. Top \in seen[OpenAdv]
    BY <1>2, <2>5, <2>6 DEF IInv, FilesInv, MetOnce
  <2>8. CoveredOf(OpenAdv)
    <3>1. Whole(OpenAdv)
      BY DEF Whole
    <3>. QED BY <1>2, <2>6, <3>1 DEF IInv, Covered
  <2>9. \A d \in dirs : d.search # OpenAdv
    BY <2>4, GoneHasNone DEF IInv
  <2>10. Files \subseteq seen[OpenAdv]
    BY <2>6, <2>7, <2>8, <2>9, AllSeen
  <2>. QED BY <2>5, <2>10
<1>. QED BY <1>1, <1>2 DEF OpenAdvancedDone

\* A search that says it is done has seen, and reported or opened, every file it could, in
\* every reachable state: finished_cb comes with the last directory and the last idle
\* callback with the last file, whatever the order of chunks, workers and callbacks.
THEOREM SpecDoneMeansAll == Spec => []DoneMeansAll
<1>1. IInv => DoneMeansAll
  BY EndedRight, OpenedRight DEF DoneMeansAll
<1>. QED BY <1>1, SpecIInv, PTL
=============================================================================
