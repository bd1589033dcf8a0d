----------------------------- MODULE MCProcesses -----------------------------
(***************************************************************************)
(* The processes beside the editor: ExternalCommand with one command of    *)
(* any kind beside a second one that uses the output box, and Ipc with     *)
(* three starts of the program.  They share no variable, so a behaviour    *)
(* has one of the two (part).                                              *)
(***************************************************************************)
EXTENDS ExternalCommand, Ipc, TLC

CONSTANTS c1, c2, p1, p2, p3

VARIABLE part

MCCmds == {c1, c2}
MCKinds == (c1 :> Accepted @@
            c2 :> {[input |-> "none", output |-> "pipe", reader |-> "outputbox"]})

MCProcs == {p1, p2, p3}
\* One process is given nothing, one a file, one a new window and a file.
MCWants == {p1 :> 0 @@ p2 :> 1 @@ p3 :> 2}

processesVars == <<vars, ipcVars, part>>

ProcessesInit ==
    /\ part \in {"command", "ipc"}
    /\ Init
    /\ IpcInit

ProcessesNext ==
    /\ UNCHANGED part
    /\ \/ part = "command" /\ Next /\ UNCHANGED ipcVars
       \/ part = "ipc" /\ IpcNext /\ UNCHANGED vars

\* As long as a callback of the main loop or a process of its own accord can go on, one of
\* them does.  Nothing is assumed of the user, of a child or of who kills a process.
GoesOn ==
    /\ UNCHANGED part
    /\ \/ /\ part = "command" /\ UNCHANGED ipcVars
          /\ \E c \in Cmds : \/ StartCommandIdle(c) \/ ChildWatch(c)
                             \/ OutputboxIoWatch(c) \/ FullDataIoWatch(c)
       \/ part = "ipc" /\ UNCHANGED vars /\ \E p \in Procs : ProcessGoesOn(p)
ProcessesSpec ==
    /\ ProcessesInit /\ [][ProcessesNext]_processesVars
    /\ WF_processesVars(GoesOn)

\* A command that ended gives back what it held, and a start of the program comes to its end.
EveryProcessEnds == EveryCommandEnds /\ EveryStartEnds
=============================================================================
