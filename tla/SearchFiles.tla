---------------------------- MODULE SearchFiles -----------------------------
(***************************************************************************)
(* Search and replace in files (snr3_files.c, the dialog of snr3.c) beside *)
(* an `open advanced' (file.c), both on FindFiles.  A file that matches is *)
(* pushed on the queue of the search, which runs worker threads; a worker  *)
(* reports its file with an idle callback.  A file that is open as a       *)
(* document is searched there, by the main loop, one document at a time    *)
(* (snr3_run_in_doc).  Any file may be open when it is met; documents that *)
(* are closed while they wait for their search are left out.               *)
(*                                                                         *)
(* The actions are callbacks of the main loop and the steps of the workers *)
(* between their reads of `cancelled'.  What the queue's mutex protects is *)
(* one step.  A cancel stops the main loop until it has joined the workers *)
(* (Join).  A run is one call of snr3_run_in_files; all of them use the    *)
(* one Tsnr3run of the dialog.                                             *)
(***************************************************************************)
EXTENDS FindFiles

CONSTANTS
    Runs,         \* 1 .. n; bound: the runs of a behaviour
    MaxThreads,   \* max_worknum of threadqueue, 4
    Top,          \* the directory that is searched
    IoErrors      \* directories and files may be unreadable

OpenAdv == 0      \* the search of the open advanced
ASSUME RunsAssumption == Runs \subseteq Nat \ {OpenAdv} /\ Searches = Runs \union {OpenAdv}
ASSUME ThreadsAssumption == MaxThreads \in Nat \ {0} /\ WordSize > MaxThreads

\* Every directory lies below Top, and every file in one that is not too deep.
IsDepth(depth) ==
    /\ \A d \in Dirs : depth[d] = 0 <=> d = Top
    /\ \A d \in Dirs : \A e \in Tree[d] \intersect Dirs : depth[e] = depth[d] + 1
    /\ \A e \in Dirs \ {Top} : \E d \in Dirs : e \in Tree[d]
    /\ \A f \in Files : \E d \in Dirs : f \in Tree[d] /\ depth[d] <= MaxDepth
ASSUME TopAssumption == Top \in Dirs /\ \E depth \in [Dirs -> 0 .. Cardinality(Dirs)] : IsDepth(depth)

TQ == INSTANCE AsyncQueue WITH MaxWorknum <- MaxThreads
DQ == INSTANCE AsyncQueue WITH MaxWorknum <- 1

VARIABLES
    s3run,      \* the Tsnr3run
    threadqueue,\* its queue, of jobs (Treplaceinthread) <<run, file>>
    threads,    \* threadqueue.threads
    worker,     \* of the threads that run: the job, and where it is
    idles,      \* the jobs whose replace_files_in_thread_finished is due
    join,       \* what the main loop waits for in queue_cancel
    idlequeue,  \* the jobs whose file is open as a document,
    indoc,      \* and those whose snr3_run_loop_idle_func is due
    oa,         \* the Topenadvanced
    ended,      \* the run was reported to the user,
    reported,   \* and these files of it were
    disturbed,  \* a callback of an earlier run has counted this one down
    incomplete, \* the searches that did not read some directory
    misuse      \* what was used after it was freed: nothing can be said of what follows

docvars == <<idlequeue, indoc>>
s3vars == <<s3run, threadqueue, threads, worker, idles, join, docvars>>
history == <<ended, reported, disturbed, incomplete, misuse>>
vars == <<ffvars, s3vars, oa, history>>

NoJoin == [at |-> 0, after |-> "none"]
Free == join = NoJoin
Here == Free /\ s3run.alive

-----------------------------------------------------------------------------
(* The functions of snr3.c and snr3_files.c that others call, as operators *)
(* on the Tsnr3run.                                                        *)

\* Variant: the callback when one is left.
ZeroEarly(S, n) == S.runcount \in 1 .. n + 1

\* snr3run_unrun, n times: the callback at zero; threaded_all_ready gives the buttons back
Zero(S, n) == S.runcount \in 1 .. n
Unrun(S, n) ==
    IF Zero(S, n) /\ S.callback = "threaded_all_ready"
    THEN [S EXCEPT !.runcount = @ - n, !.findall = FALSE, !.replaceall = FALSE, !.buttons = TRUE]
    ELSE [S EXCEPT !.runcount = @ - n]

\* queue_run: every item it takes gets a thread of its own
RunThreads(Q) ==
    LET fresh == CHOOSE t \in 1 .. MaxThreads : t \notin DOMAIN worker
        new == TQ!Started(Q)
    IN /\ threadqueue' = TQ!Run(Q)
       /\ threads' = IF new = {} THEN threads ELSE Append(threads, fresh)
       /\ worker' = [t \in DOMAIN worker \union (IF new = {} THEN {} ELSE {fresh}) |->
                       IF t \in DOMAIN worker THEN worker[t]
                       ELSE [job |-> CHOOSE j \in new : TRUE, pc |-> "load"]]

\* snr3_run_in_doc, and the snr3_queue_run of a job that is started
RunInDoc(S, job) ==
    LET Q == DQ!Push(idlequeue, job) IN
    /\ s3run' = [S EXCEPT !.idle_id = @ \/ DQ!Started(Q) # {}]
    /\ idlequeue' = DQ!Run(Q)
    /\ indoc' = indoc \union DQ!Started(Q)

\* Variant: runcount is not increased for a document.
FileMatchDocUncounted(g, files) ==
    IF files = {} \/ s3run.cancelled
    THEN UNCHANGED <<s3run, threadqueue, threads, worker, docvars>>
    ELSE LET job == <<g, CHOOSE f \in files : TRUE>>
             counted == [s3run EXCEPT !.runcount = @ + 1]
         IN \/ /\ s3run' = counted
               /\ RunThreads(TQ!Push(threadqueue, job)) /\ UNCHANGED docvars
            \/ RunInDoc(s3run, job) /\ UNCHANGED <<threadqueue, threads, worker>>

\* filematch_cb of a run, for one file of a chunk (bound: chunks have one entry)
FileMatch(g, files) ==
    IF files = {} \/ s3run.cancelled
    THEN UNCHANGED <<s3run, threadqueue, threads, worker, docvars>>
    ELSE LET job == <<g, CHOOSE f \in files : TRUE>>
             counted == [s3run EXCEPT !.runcount = @ + 1]
         IN \/ /\ s3run' = counted
               /\ RunThreads(TQ!Push(threadqueue, job)) /\ UNCHANGED docvars
            \/ RunInDoc(counted, job) /\ UNCHANGED <<threadqueue, threads, worker>>

\* Variant: findfiles keeps pointing to the search that is freed.
FinishedCallbacksKeep(fs) ==
    /\ IF fs \ {OpenAdv} # {}
       THEN /\ s3run' = Unrun(s3run, 1)
            /\ ended' = (ended \/ Zero(s3run, 1))
       ELSE UNCHANGED <<s3run, ended>>
    /\ oa' = IF OpenAdv \in fs THEN [oa EXCEPT !.refcount = @ - 1] ELSE oa

\* finished_cb: finished_finding_files_cb of the run, open_advanced_finished_cb
FinishedCallbacks(fs) ==
    /\ IF fs \ {OpenAdv} # {}
       THEN /\ s3run' = [Unrun(s3run, 1) EXCEPT !.findfiles = 0]
            /\ ended' = (ended \/ Zero(s3run, 1))
       ELSE UNCHANGED <<s3run, ended>>
    /\ oa' = IF OpenAdv \in fs THEN [oa EXCEPT !.refcount = @ - 1] ELSE oa

-----------------------------------------------------------------------------
(* The callbacks of the directories *)

EnumerateChildrenLcb(d, ok) ==
    /\ Free
    /\ EnumerateChildren(d, ok)
    /\ FinishedCallbacks(Finished)
    /\ incomplete' = IF ok THEN incomplete ELSE incomplete \union {d.search}
    /\ UNCHANGED <<threadqueue, threads, worker, docvars, idles, join, reported, disturbed, misuse>>

\* Variant: what is a directory is not looked at.
MatchesAll(chunk) == chunk

\* the entries of a chunk for which filematch_cb is called
Matches(chunk) == chunk \intersect Files

\* With the files of the chunk: open_advanced_filematch_cb of the open advanced reads
\* them for its content filter, unless they are open already.
NextFilesLcb(d, chunk) ==
    /\ Free
    /\ NextFiles(d, chunk)
    /\ LET files == Matches(chunk) IN
       IF chunk = {} THEN /\ FinishedCallbacks(Finished)
                          /\ UNCHANGED <<threadqueue, threads, worker, docvars>>
       ELSE IF d.search = OpenAdv
       THEN /\ \/ oa' = [oa EXCEPT !.pending = @ \union files,
                                   !.refcount = @ + Cardinality(files)]
               \/ oa' = [oa EXCEPT !.opened = @ \union files]
            /\ UNCHANGED <<s3run, threadqueue, threads, worker, docvars, ended>>
       ELSE FileMatch(d.search, files) /\ UNCHANGED <<oa, ended>>
    /\ incomplete' = IF chunk = {} /\ left[d].entries # {}
                     THEN incomplete \union {d.search} ELSE incomplete
    /\ UNCHANGED <<idles, join, reported, disturbed, misuse>>

\* open_advanced (bound: one)
OpenAdvanced ==
    /\ Free /\ oa.refcount = 0 /\ oa.opened = {} /\ OpenAdv \notin incomplete
    /\ FindFiles(OpenAdv, Top)
    /\ oa' = [oa EXCEPT !.refcount = 1]
    /\ UNCHANGED <<s3vars, history>>

\* Variant: the file keeps its reference.
OpenAdvContentFilterKeeps(f) ==
    /\ Free /\ f \in oa.pending
    /\ oa' = [oa EXCEPT !.pending = @ \ {f}, !.opened = @ \union {f}]
    /\ UNCHANGED <<ffvars, s3vars, history>>

\* open_adv_content_filter_lcb
OpenAdvContentFilter(f) ==
    /\ Free /\ f \in oa.pending
    /\ oa' = [oa EXCEPT !.pending = @ \ {f}, !.opened = @ \union {f}, !.refcount = @ - 1]
    /\ UNCHANGED <<ffvars, s3vars, history>>

-----------------------------------------------------------------------------
(* The worker threads, files_replace_run *)

At(t, pc) == t \in DOMAIN worker /\ worker[t].pc = pc
Goto(t, pc) == worker' = [worker EXCEPT ![t].pc = pc]

\* g_file_load_contents has returned.  A worker that sees the cancel ends at once.
Loaded(t, ok) ==
    /\ At(t, "load")
    /\ IF s3run.cancelled
       THEN Goto(t, "over") /\ UNCHANGED idles
       ELSE IF ok THEN Goto(t, "search") /\ UNCHANGED idles
       ELSE Goto(t, "ready") /\ idles' = idles \union {worker[t].job}
    /\ UNCHANGED <<ffvars, s3run, threadqueue, threads, join, docvars, oa, history>>

\* Variant: a file without results is not reported.
SearchedSilently(t) ==
    /\ At(t, "search")
    /\ Goto(t, "ready")
    /\ UNCHANGED <<idles, ffvars, s3run, threadqueue, threads, join, docvars, oa, history>>

\* The text is searched, what was replaced is written, and unless the run is cancelled by
\* now the file is reported.
Searched(t) ==
    /\ At(t, "search")
    /\ Goto(t, "ready")
    /\ idles' = IF s3run.cancelled THEN idles ELSE idles \union {worker[t].job}
    /\ UNCHANGED <<ffvars, s3run, threadqueue, threads, join, docvars, oa, history>>

\* g_slist_remove
ListRemove(s, t) ==
    LET First(i) == s[i] = t /\ \A k \in 1 .. i - 1 : s[k] # t
        at == CHOOSE i \in 1 .. Len(s) : First(i)
    IN  IF \E i \in 1 .. Len(s) : First(i)
        THEN SubSeq(s, 1, at - 1) \o SubSeq(s, at + 1, Len(s)) ELSE s

\* queue_worker_ready_inthread: the thread takes the next job, or leaves the list and
\* gives up its reference, even if the main loop is joining it.
WorkerReadyInthread(t) ==
    /\ At(t, "ready")
    /\ LET q == threadqueue.q IN
       IF q # <<>>
       THEN /\ threadqueue' = [threadqueue EXCEPT !.q = SubSeq(q, 1, Len(q) - 1)]
            /\ worker' = [worker EXCEPT ![t] = [job |-> q[Len(q)], pc |-> "load"]]
            /\ UNCHANGED <<threads, misuse>>
       ELSE /\ threadqueue' = [threadqueue EXCEPT !.worknum = @ - 1]
            /\ threads' = ListRemove(threads, t)
            /\ worker' = [u \in DOMAIN worker \ {t} |-> worker[u]]
            /\ misuse' = IF join.at = t THEN misuse \union {"thread"} ELSE misuse
    /\ UNCHANGED <<ffvars, s3run, idles, join, docvars, oa, ended, reported, incomplete, disturbed>>

\* replace_files_in_thread_finished
ThreadFinished(job) ==
    /\ Free /\ job \in idles
    /\ idles' = idles \ {job}
    /\ IF ~s3run.alive
       THEN /\ misuse' = misuse \union {"s3run"}
            /\ UNCHANGED <<s3run, ended, reported, disturbed>>
       ELSE /\ s3run' = Unrun(s3run, 1)
            /\ ended' = (ended \/ Zero(s3run, 1))
            /\ reported' = IF s3run.cancelled \/ job[1] # s3run.run THEN reported
                           ELSE reported \union {job[2]}
            /\ disturbed' = (disturbed \/ job[1] # s3run.run)
            /\ UNCHANGED misuse
    /\ UNCHANGED <<ffvars, threadqueue, threads, worker, join, docvars, oa, incomplete>>

-----------------------------------------------------------------------------
(* The documents *)

\* snr3_run_loop_idle_func, its last piece: the results are in the list, whether or not
\* the run was cancelled, and the next document is begun.
RunLoopIdle(job) ==
    /\ Free /\ job \in indoc
    /\ IF ~s3run.alive
       THEN /\ misuse' = misuse \union {"s3run"}
            /\ UNCHANGED <<s3run, docvars, ended, reported, disturbed>>
       ELSE LET Q == DQ!WorkerReady(idlequeue) IN
            /\ idlequeue' = DQ!Run(Q)
            /\ indoc' = (indoc \ {job}) \union DQ!Started(Q)
            /\ s3run' = [Unrun(s3run, 1) EXCEPT !.idle_id = DQ!Started(Q) # {}]
            /\ ended' = (ended \/ Zero(s3run, 1))
            /\ reported' = IF job[1] # s3run.run THEN reported ELSE reported \union {job[2]}
            /\ disturbed' = (disturbed \/ job[1] # s3run.run)
            /\ UNCHANGED misuse
    /\ UNCHANGED <<ffvars, threadqueue, threads, worker, idles, join, oa, incomplete>>

-----------------------------------------------------------------------------
(* The dialog *)

\* snr3_cancel_run and, in it, snr3_run_in_files_cancel, up to the first g_thread_join;
\* `after' is what the handler goes on with.  The search in a document is taken back, and
\* the next one begins, which is then forgotten.  findfiles is not reset: a second cancel
\* can find the search freed.
CancelRun(after) ==
    LET ff == s3run.findfiles
        n == Len(threadqueue.q)
        busy == \/ s3run.run \in Runs \intersect DOMAIN found
                \/ worker # << >> \/ idles # {} \/ indoc # {}
        all == DOMAIN found \ {ff}
        Q == DQ!WorkerReady(idlequeue)
        stopped == IF s3run.idle_id THEN [s3run EXCEPT !.runcount = 0, !.idle_id = FALSE] ELSE s3run
    IN /\ IF ff = 0 THEN UNCHANGED <<ffvars, oa, incomplete>>
          ELSE /\ FindFilesCancel(ff)
               /\ oa' = IF OpenAdv \in Finished THEN [oa EXCEPT !.refcount = @ - 1] ELSE oa
               /\ incomplete' = incomplete \union {f \in all : \E d \in waiting : d.search = f}
       /\ misuse' = IF ff # 0 /\ ff \notin DOMAIN found THEN misuse \union {"findfiles"}
                    ELSE misuse
       /\ IF s3run.idle_id THEN idlequeue' = DQ!Run(Q) /\ indoc' = DQ!Started(Q)
          ELSE UNCHANGED docvars
       /\ s3run' = [Unrun(stopped, n) EXCEPT !.cancelled = TRUE, !.interrupted = @ \/ busy]
       /\ ended' = (ended \/ Zero(stopped, n))
       /\ threadqueue' = TQ!Cancelled(threadqueue)
       /\ join' = [at |-> IF threads = <<>> THEN 0 ELSE Head(threads), after |-> after]
       /\ UNCHANGED <<threads, worker, idles, reported, disturbed>>

\* FIND_ALL and REPLACE_ALL of snr3_advanced_response
FindAll == Here /\ s3run.buttons /\ CancelRun("findall")
ReplaceAll == Here /\ s3run.buttons /\ CancelRun("replaceall")

\* snrwin_guichange, an option has changed: to a valid search, or to none (a pattern that
\* does not compile)
ChangeOption(valid) ==
    /\ Here /\ ~s3run.replaceall /\ s3run.run > 0
    /\ CancelRun(IF valid THEN "changed" ELSE "invalid")

\* snr3win_destroy_cb
CloseDialog == Here /\ CancelRun("close")

\* Variant: the list is emptied when its first thread was joined.
JoinFirstThread ==
    /\ join.at # 0 /\ (join.at \in DOMAIN worker => worker[join.at].pc = "over")
    /\ worker' = worker
    /\ threads' = <<>>
    /\ join' = [join EXCEPT !.at = 0]
    /\ UNCHANGED <<ffvars, s3run, threadqueue, idles, docvars, oa, history>>

\* Variant: the join waits for the callbacks of the worker too.
JoinCallbacks ==
    /\ join.at # 0 /\ (join.at \in DOMAIN worker => worker[join.at].pc = "over") /\ idles = {}
    /\ worker' = [t \in DOMAIN worker \ {join.at} |-> worker[t]]
    /\ LET next == IF \E i \in DOMAIN threads : threads[i] = join.at THEN Tail(threads) ELSE threads IN
       /\ threads' = next
       /\ join' = [join EXCEPT !.at = IF next = <<>> THEN 0 ELSE Head(next)]
    /\ UNCHANGED <<ffvars, s3run, threadqueue, idles, docvars, oa, history>>

\* queue_cancel: g_thread_join of the next thread on the list has returned
JoinThread ==
    /\ join.at # 0 /\ (join.at \in DOMAIN worker => worker[join.at].pc = "over")
    /\ worker' = [t \in DOMAIN worker \ {join.at} |-> worker[t]]
    /\ LET next == IF \E i \in DOMAIN threads : threads[i] = join.at THEN Tail(threads) ELSE threads IN
       /\ threads' = next
       /\ join' = [join EXCEPT !.at = IF next = <<>> THEN 0 ELSE Head(next)]
    /\ UNCHANGED <<ffvars, s3run, threadqueue, idles, docvars, oa, history>>

\* snr3_run_in_files
RunInFiles(S) ==
    /\ s3run' = [S EXCEPT !.cancelled = FALSE, !.runcount = 1, !.run = @ + 1,
                          !.findfiles = S.run + 1]
    /\ threadqueue' = TQ!EmptyQueue
    /\ FindFiles(S.run + 1, Top)
    /\ ended' = FALSE /\ disturbed' = FALSE /\ reported' = {}

\* What the handler does after the cancel; a changed search runs only if findall is still
\* set, because of a run that was cancelled.
AfterCancel ==
    /\ join.at = 0 /\ join.after # "none"
    /\ join' = NoJoin
    /\ LET S == [s3run EXCEPT !.callback = IF join.after = "changed"
                                           THEN "dialog_changed_run_ready_cb"
                                           ELSE "threaded_all_ready"]
       IN CASE join.after = "findall" ->
                 RunInFiles([S EXCEPT !.findall = TRUE, !.buttons = FALSE])
            [] join.after = "replaceall" ->
                 RunInFiles([S EXCEPT !.replaceall = TRUE, !.buttons = FALSE])
            [] join.after = "changed" /\ s3run.findall -> RunInFiles(S)
            [] join.after = "changed" /\ ~s3run.findall ->
                 s3run' = S /\ UNCHANGED <<threadqueue, ffvars, ended, disturbed, reported>>
            [] join.after = "invalid" -> UNCHANGED <<s3run, threadqueue, ffvars, ended, disturbed, reported>>
            [] join.after = "close" ->
                 /\ s3run' = [s3run EXCEPT !.alive = FALSE]
                 /\ UNCHANGED <<threadqueue, ffvars, ended, disturbed, reported>>
    /\ UNCHANGED <<threads, worker, idles, docvars, oa, incomplete, misuse>>

-----------------------------------------------------------------------------
Init ==
    /\ FindFilesInit
    /\ s3run = [alive |-> TRUE, run |-> 0, cancelled |-> FALSE, runcount |-> 0, findfiles |-> 0,
                callback |-> "threaded_all_ready", findall |-> FALSE, replaceall |-> FALSE,
                buttons |-> TRUE, idle_id |-> FALSE, interrupted |-> FALSE]
    /\ threadqueue = TQ!EmptyQueue
    /\ threads = <<>> /\ worker = << >> /\ idles = {} /\ join = NoJoin
    /\ idlequeue = DQ!EmptyQueue /\ indoc = {}
    /\ oa = [refcount |-> 0, pending |-> {}, opened |-> {}]
    /\ ended = FALSE /\ disturbed = FALSE
    /\ reported = {} /\ incomplete = {} /\ misuse = {}

Errors == IF IoErrors THEN BOOLEAN ELSE {TRUE}

User ==
    \/ s3run.run + 1 \in Runs /\ (FindAll \/ ReplaceAll \/ ChangeOption(TRUE))
    \/ s3run.run # 0 /\ ChangeOption(FALSE)
    \/ CloseDialog
    \/ OpenAdvanced

System ==
    \/ \E d \in DOMAIN left :
         \/ \E ok \in Errors : EnumerateChildrenLcb(d, ok)
         \/ \E chunk \in {{}} \union {{e} : e \in left[d].entries} :
              /\ chunk # {} \/ left[d].entries = {} \/ found[d.search].cancel \/ IoErrors
              /\ NextFilesLcb(d, chunk)
    \/ \E f \in oa.pending : OpenAdvContentFilter(f)
    \/ \E t \in DOMAIN worker :
         (\E ok \in Errors : Loaded(t, ok)) \/ Searched(t) \/ WorkerReadyInthread(t)
    \/ \E job \in idles : ThreadFinished(job)
    \/ \E job \in indoc : RunLoopIdle(job)
    \/ JoinThread
    \/ AfterCancel

Next == misuse = {} /\ (User \/ System)

Running == {t \in DOMAIN worker : worker[t].pc # "over"}

Spec == Init /\ [][Next]_vars /\ WF_vars(misuse = {} /\ System)

-----------------------------------------------------------------------------
(* Properties *)

Jobs == Runs \X Files

\* The jobs whose document waits for its search or is searched
Docs == {idlequeue.q[i] : i \in DOMAIN idlequeue.q} \union indoc

TypeOK ==
    /\ s3run.run \in {0} \union Runs /\ s3run.findfiles \in 0 .. s3run.run
    /\ \A i \in DOMAIN threadqueue.q : threadqueue.q[i] \in Jobs
    /\ DOMAIN worker \subseteq 1 .. MaxThreads
    /\ \A t \in DOMAIN worker : worker[t].job \in Jobs
                           /\ worker[t].pc \in {"load", "search", "ready", "over"}
    /\ idles \union Docs \subseteq Jobs /\ reported \subseteq Files /\ ended \in BOOLEAN
    /\ oa.pending \subseteq Files /\ oa.opened \subseteq Files
    /\ DOMAIN found \subseteq Searches /\ \A d \in dirs : d.dir \in Dirs

\* Unless a search was cancelled while something of it was in progress, nothing is used
\* after it was freed: not the Tfindfiles by a second cancel, not a thread by the join,
\* not the Tsnr3run by an idle callback of a worker or of a document.
NoUseAfterFree == misuse # {} => s3run.interrupted

\* Every worker that runs is on the list, so that a cancel joins it, and has one of the
\* slots; a job waits only while there is none.  When the join is over no worker is left,
\* and the queue can be initialized for the next run.
WorkersMatch ==
    /\ {threads[i] : i \in DOMAIN threads} = DOMAIN worker
    /\ Len(threads) = Cardinality(DOMAIN worker)
    /\ ~s3run.cancelled => /\ threadqueue.worknum = Cardinality(Running)
                           /\ threadqueue.q # <<>> => threadqueue.worknum = MaxThreads
    /\ join.at = 0 /\ join.after # "none" => worker = << >>

\* runcount is the search for files and the jobs that wait, are worked on or are about to
\* be reported, and those in documents, so that the run ends once, with the last of them;
\* unless it was cancelled or a callback of an earlier run was taken for one of its own.
RuncountMatches ==
    s3run.alive /\ ~s3run.cancelled /\ ~disturbed =>
        s3run.runcount =
            Cardinality({s3run.run} \intersect Runs \intersect DOMAIN found)
            + Len(threadqueue.q) + Cardinality({t \in Running : worker[t].pc # "ready"})
            + Cardinality({job \in idles : job[1] = s3run.run})
            + Cardinality({job \in Docs : job[1] = s3run.run})

\* One document is searched at a time, and the others wait only for it.
DocsMatch ==
    /\ idlequeue.worknum = Cardinality(indoc) /\ idlequeue.worknum <= 1
    /\ idlequeue.q # <<>> => indoc # {}

\* When the user is told that the search has finished, every file was reported: those of
\* directories that could not be read excepted, and runs that were cancelled or disturbed.
EndedMeansDone ==
    ended /\ ~s3run.cancelled /\ ~disturbed /\ s3run.run \notin incomplete => reported = Files

\* The open advanced is freed with its last callback, and has then opened every file;
\* unless a search in files was cancelled, which empties the queue of both.
OpenAdvancedDone ==
    /\ oa.refcount = Cardinality(oa.pending) + (IF OpenAdv \in DOMAIN found THEN 1 ELSE 0)
    /\ oa.opened # {} /\ oa.refcount = 0 /\ OpenAdv \notin incomplete => oa.opened = Files

\* Every search in files ends, is cancelled, or is disturbed by an earlier one.
SearchEnds ==
    \A g \in Runs :
        s3run.run = g ~> (ended \/ s3run.cancelled \/ s3run.run # g \/ disturbed \/ misuse # {})

\* The main loop is given back after every cancel.
JoinEnds == ~Free ~> (Free \/ misuse # {})

\* What is counted for a search agrees with what is in progress for it: the directories of
\* findfiles, the slots of the three queues, the worker threads, the jobs of the run; so that
\* nothing is used after it was freed.
Counts ==
    /\ TypeOK /\ RefsMatch /\ SlotsMatch /\ WorkersMatch /\ DocsMatch /\ RuncountMatches
    /\ NoUseAfterFree

\* A search that says it is done has seen every file it could.
DoneMeansAll == EndedMeansDone /\ OpenAdvancedDone

\* A search ends, and so does the main loop that waits in a cancel.
EverySearchEnds == SearchEnds /\ JoinEnds

=============================================================================
