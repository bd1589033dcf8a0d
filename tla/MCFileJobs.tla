------------------------------ MODULE MCFileJobs ------------------------------
(***************************************************************************)
(* The three kinds of jobs that file.c puts on its queues: saves, loads    *)
(* and the synchronisation of directories.  They share the functions of    *)
(* AsyncQueue and no variable, so a behaviour has jobs of one kind (part). *)
(***************************************************************************)
EXTENDS CheckNSave, OpenFile, Sync

VARIABLE part

FilesInit ==
    /\ part \in {"save", "open", "sync"}
    /\ Init
    /\ OpenInit
    /\ SyncInit

FilesNext ==
    /\ UNCHANGED part
    /\ \/ part = "save" /\ Next /\ UNCHANGED <<openVars, syncVars>>
       \/ part = "open" /\ OpenNext /\ UNCHANGED <<vars, syncVars>>
       \/ part = "sync" /\ SyncNext /\ UNCHANGED <<vars, openVars>>

filesVars == <<vars, openVars, syncVars, part>>

\* Weak fairness of the callbacks and threads together: as long as one of them can run, it
\* does not stay at that.  (No user goes on without end here.)
FilesDue ==
    \/ InFlight # {}
    \/ \E d \in Docs : LoadDue(d) \/ InfoDue(d)
    \/ SyncDue
FilesSpec ==
    /\ FilesInit /\ [][FilesNext]_filesVars
    /\ []<>~FilesDue \/ []<><<TRUE>>_filesVars

\* Each job comes to its end: a save, a load with the close that waits for it, a
\* synchronisation.
EveryJobEnds == EverySaveEnds /\ LoadsAndClosesEnd /\ EverySyncEnds

\* The source has a directory or a file of that name with a file beside it, and a hidden
\* file; the target may have anything in their place.
MCPaths == {"/", "/d", "/d/g", "/f", "/.h"}
MCAbove == [p \in MCPaths \ {"/"} |-> IF p = "/d/g" THEN "/d" ELSE "/"]
MCSourceKinds == [p \in MCPaths |->
    CASE p = "/" -> {"dir"}
      [] p = "/d" -> {"none", "file", "dir"}
      [] p = "/d/g" -> {"none", "file"}
      [] OTHER -> {"file"}]
MCTargetKinds == [p \in MCPaths |->
    CASE p = "/" -> {"dir"}
      [] p = "/d" -> {"none", "old", "dir"}
      [] p = "/.h" -> {"file"}
      [] p = "/f" -> {"old", "alike"}
      [] OTHER -> {"none", "file"}]
=============================================================================
