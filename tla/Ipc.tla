--------------------------------- MODULE Ipc ---------------------------------
(***************************************************************************)
(* Several starts of the program for one user and display (ipc_bf2bf.c,    *)
(* main and startup_in_idle in bluefish.c).  The first process listens on  *)
(* a socket with a fixed path; a later one connects to it, sends its files *)
(* over and exits.                                                         *)
(*                                                                         *)
(* Between two system calls on the path or the socket, and between two     *)
(* callbacks of the main loop, the other processes run.  The kernel is     *)
(* external: a connect succeeds as soon as the socket at the path listens, *)
(* what is written is kept until it is read, and a process that ends       *)
(* closes its sockets and leaves the path.  The file of another user, a    *)
(* full backlog and the preference not to share a process are left out.    *)
(***************************************************************************)
EXTENDS Integers, FiniteSets

CONSTANTS
    Procs, NoProc,
    Wants,        \* bound: how many messages (openwin, openuri) the command lines stand for
    MaxKills      \* bound: processes that are killed

ASSUME ProcsAssumption == NoProc \notin Procs /\ IsFiniteSet(Procs)
ASSUME WantsAssumption == Wants \subseteq [Procs -> Nat] /\ MaxKills \in Nat

VARIABLES
    stage,        \* where a process is in main()
    want,         \* how many messages its command line stands for
    sent,         \* how many of them it wrote to its server
    taken,        \* how many were read by its server, or opened by itself
    server,       \* whose connection it has that is not read to its end, or NoProc
    path,         \* whose socket is at the path, or NoProc
    listening,    \* the processes whose socket listens
    master,       \* those with ibf.master
    reading,      \* from whom a process waits for a line, or NoProc
    dropped,      \* history: the messages <<process, number>> that no window was there for
    kills,        \* history: how many processes were killed
    met           \* history: the situations of Situations that occurred

ipcVars == <<stage, want, sent, taken, server, path, listening, master, reading,
             dropped, kills, met>>
\* ipc_bf2bf_start
Starting == {"look", "connect", "unlink", "bind", "listen"}
\* main() after gtk_main, in ipc_bf2bf_cleanup
Ending == {"shutdown", "remove"}
\* in gtk_main, first without a window
Looping == {"startup", "window", "running"}
Stages == {"new", "send", "gone"} \union Starting \union Ending \union Looping

IpcInit ==
    /\ stage = [p \in Procs |-> "new"]
    /\ want \in Wants
    /\ sent = [p \in Procs |-> 0] /\ taken = [p \in Procs |-> 0]
    /\ server = [p \in Procs |-> NoProc] /\ reading = [p \in Procs |-> NoProc]
    /\ path = NoProc /\ listening = {} /\ master = {}
    /\ dropped = {} /\ kills = 0 /\ met = {}

\* The situations in which files may get lost, or a second process stay:
\*   overlap        two processes start, or one starts while one ends, and no process
\*                  serves meanwhile
\*   no window      a process connected to one that has no window yet
\*   no main loop   a process was connected to one whose main loop has ended
\*   killed server  a process was killed while another one was connected to it
Situations == {"overlap", "no window", "no main loop", "killed server"}

Serves(p) == p \in listening /\ path = p /\ stage[p] \in Looping
Overlap ==
    /\ \A p \in Procs : ~Serves(p)
    /\ \E p, q \in Procs : p # q /\ {stage[p], stage[q]} \subseteq Starting \union Ending
\* The processes that are connected to p and not read to their end.
Clients(p) == {c \in Procs : server[c] = p}
\* A step, and what is met with it.
Meeting(situations) ==
    met' = met \union situations \union (IF Overlap' THEN {"overlap"} ELSE {})

Goes(p, from, to) == stage[p] = from /\ stage' = [stage EXCEPT ![p] = to]
KeepMessages == UNCHANGED <<want, sent, taken, dropped, reading, kills>>
-----------------------------------------------------------------------------
\* The start.

Launch(p) ==
    /\ Goes(p, "new", "look")
    /\ UNCHANGED <<server, path, listening, master>> /\ KeepMessages /\ Meeting({})

\* stat()
SocketIsValid(p) ==
    /\ Goes(p, "look", IF path = NoProc THEN "unlink" ELSE "connect")
    /\ UNCHANGED <<server, path, listening, master>> /\ KeepMessages /\ Meeting({})

\* connect(); it fails if there is nothing at the path, or nobody listens there
BecomeClient(p) ==
    /\ Goes(p, "connect", IF path \in listening THEN "send" ELSE "unlink")
    /\ server' = [server EXCEPT ![p] = IF path \in listening THEN path ELSE NoProc]
    /\ UNCHANGED <<path, listening, master>> /\ KeepMessages
    /\ Meeting(IF path \notin listening THEN {}
               ELSE (IF stage[path] = "startup" THEN {"no window"} ELSE {}) \union
                    (IF stage[path] \in Ending THEN {"no main loop"} ELSE {}))

\* Variant: the path is left where it is.
IpcUnlinkNot(p) ==
    /\ Goes(p, "unlink", "bind")
    /\ path' = path
    /\ UNCHANGED <<server, listening, master>> /\ KeepMessages /\ Meeting({})

\* It does not look whether the path still is what the connect failed on.
IpcUnlink(p) ==
    /\ Goes(p, "unlink", "bind")
    /\ path' = NoProc
    /\ UNCHANGED <<server, listening, master>> /\ KeepMessages /\ Meeting({})

\* bind(); if it fails the process goes on without a socket
BecomeServer(p) ==
    /\ Goes(p, "bind", IF path = NoProc THEN "listen" ELSE "startup")
    /\ path' = IF path = NoProc THEN p ELSE path
    /\ UNCHANGED <<server, listening, master>> /\ KeepMessages /\ Meeting({})

Listen(p) ==
    /\ Goes(p, "listen", "startup")
    /\ listening' = listening \union {p}
    /\ master' = master \union {p}
    /\ UNCHANGED <<server, path>> /\ KeepMessages /\ Meeting({})

\* send_openwin, send_filename
SendMessage(p) ==
    /\ stage[p] = "send" /\ sent[p] < want[p]
    /\ sent' = [sent EXCEPT ![p] = @ + 1]
    /\ UNCHANGED <<stage, want, taken, server, path, listening, master, reading, dropped,
                   kills, met>>

\* ipc_bf2bf_start returns FALSE and main() exits.
AllSent(p) ==
    /\ sent[p] = want[p]
    /\ Goes(p, "send", "gone")
    /\ UNCHANGED <<server, path, listening, master>> /\ KeepMessages /\ Meeting({})
-----------------------------------------------------------------------------
\* The main loop.

\* The watch of the socket, and of each connection it accepts, goes before startup_in_idle:
\* there is a line in a connection, or its other end is closed.
HasInput(c) == server[c] # NoProc /\ (taken[c] < sent[c] \/ stage[c] = "gone")
MayRead(p, c) ==
    /\ stage[p] \in Looping
    /\ server[c] = p
    /\ reading[p] \in {NoProc, c}
Free(p) == reading[p] = NoProc /\ \A c \in Clients(p) : ~HasInput(c)

\* socket_data_in_lcb with a line: it hands it to handle_message and waits for the next
\* one.  Nothing else runs in the process while it waits.
HandleMessage(p, c) ==
    /\ MayRead(p, c) /\ taken[c] < sent[c]
    /\ taken' = [taken EXCEPT ![c] = @ + 1]
    /\ dropped' = IF stage[p] = "startup" THEN dropped \union {<<c, taken'[c]>>} ELSE dropped
    /\ reading' = [reading EXCEPT ![p] = c]
    /\ UNCHANGED <<stage, want, sent, server, path, listening, master, kills, met>>

\* Variant: the callback goes back to wait for a line.
SocketEofWaits(p, c) ==
    /\ MayRead(p, c) /\ taken[c] = sent[c] /\ stage[c] = "gone"
    /\ server' = [server EXCEPT ![c] = NoProc]
    /\ reading' = [reading EXCEPT ![p] = c]
    /\ UNCHANGED <<stage, want, sent, taken, path, listening, master, dropped, kills, met>>

\* socket_data_in_lcb at the end of the connection
SocketEof(p, c) ==
    /\ MayRead(p, c) /\ taken[c] = sent[c] /\ stage[c] = "gone"
    /\ server' = [server EXCEPT ![c] = NoProc]
    /\ reading' = [reading EXCEPT ![p] = NoProc]
    /\ UNCHANGED <<stage, want, sent, taken, path, listening, master, dropped, kills, met>>

\* startup_in_idle, state 1
CreateMain(p) ==
    /\ Free(p)
    /\ Goes(p, "startup", "window")
    /\ UNCHANGED <<server, path, listening, master>> /\ KeepMessages /\ Meeting({})

\* startup_in_idle, state 2
OpenFilenames(p) ==
    /\ Free(p)
    /\ Goes(p, "window", "running")
    /\ taken' = [taken EXCEPT ![p] = want[p]]
    /\ UNCHANGED <<want, sent, server, path, listening, master, reading, dropped, kills>>
    /\ Meeting({})

\* The last window is closed, or the program told to exit: gtk_main_quit.
MainQuit(p) ==
    /\ reading[p] = NoProc
    /\ Goes(p, "running", IF p \in master THEN "shutdown" ELSE "gone")
    /\ UNCHANGED <<server, path, listening, master>> /\ KeepMessages
    /\ Meeting(IF Clients(p) # {} THEN {"no main loop"} ELSE {})

\* ipc_bf2bf_cleanup: the socket is closed
CleanupShutdown(p) ==
    /\ Goes(p, "shutdown", "remove")
    /\ listening' = listening \ {p}
    /\ UNCHANGED <<server, path, master>> /\ KeepMessages /\ Meeting({})

\* ipc_bf2bf_cleanup: whatever is at the path by now is removed
CleanupUnlink(p) ==
    /\ Goes(p, "remove", "gone")
    /\ path' = NoProc
    /\ UNCHANGED <<server, listening, master>> /\ KeepMessages /\ Meeting({})

\* bound: MaxKills
Killed(p) ==
    /\ kills < MaxKills /\ stage[p] \notin {"new", "gone"}
    /\ stage' = [stage EXCEPT ![p] = "gone"]
    /\ reading' = [reading EXCEPT ![p] = NoProc]
    /\ listening' = listening \ {p}
    /\ kills' = kills + 1
    /\ UNCHANGED <<want, sent, taken, server, path, master, dropped>>
    /\ Meeting(IF Clients(p) # {} THEN {"killed server"} ELSE {})
-----------------------------------------------------------------------------
ProcessGoesOn(p) ==
    \/ SocketIsValid(p) \/ BecomeClient(p) \/ IpcUnlink(p) \/ BecomeServer(p) \/ Listen(p)
    \/ SendMessage(p) \/ AllSent(p)
    \/ \E c \in Procs : HandleMessage(p, c) \/ SocketEof(p, c)
    \/ CreateMain(p) \/ OpenFilenames(p)
    \/ CleanupShutdown(p) \/ CleanupUnlink(p)
IpcNext == \E p \in Procs : Launch(p) \/ ProcessGoesOn(p) \/ MainQuit(p) \/ Killed(p)
IpcSpec == IpcInit /\ [][IpcNext]_ipcVars

\* Whether a process has something to do that does not wait for the user.
ProcessDue(p) ==
    \/ stage[p] \in {"send"} \union Starting \union Ending
    \/ stage[p] \in Looping /\ (Free(p) => stage[p] # "running")
       /\ (reading[p] = NoProc \/ HasInput(reading[p]))
-----------------------------------------------------------------------------
IpcTypeOK ==
    /\ stage \in [Procs -> Stages] /\ want \in Wants
    /\ taken \in [Procs -> Nat] /\ sent \in [Procs -> Nat]
    /\ \A p \in Procs : taken[p] <= want[p] /\ sent[p] <= want[p]
    /\ server \in [Procs -> Procs \union {NoProc}] /\ reading \in [Procs -> Procs \union {NoProc}]
    /\ path \in Procs \union {NoProc} /\ listening \subseteq master /\ master \subseteq Procs
    /\ met \subseteq Situations /\ kills \in 0 .. MaxKills

\* As long as no two starts overlap, one process at most runs, and it listens at the path
\* for the next one, whatever a killed process left behind.
OneInstance ==
    \A p \in Procs : stage[p] \in Looping /\ "overlap" \notin met =>
        Serves(p) /\ \A q \in Procs \ {p} : stage[q] \notin Looping

\* A process that was asked to open files has them opened, or on their way to a process that
\* will read them, or one of the situations occurred; a file is not opened twice.
FilesArrive ==
    \A c \in Procs :
        /\ \A i \in 1 .. want[c] : <<c, i>> \in dropped => "no window" \in met
        /\ server[c] # NoProc /\ stage[server[c]] \notin Looping =>
               met \intersect {"no main loop", "killed server"} # {}
        /\ stage[c] = "gone" /\ taken[c] < want[c] =>
               \/ server[c] # NoProc
               \/ kills > 0

\* The property of the run: several starts of the program end in one process that shows the
\* files of all of them (ipc_bf2bf_start, become_server, handle_message), but for the
\* situations listed.
IpcSound == IpcTypeOK /\ OneInstance /\ FilesArrive

\* Each process comes to run or to exit, and each connection is read to its end or its
\* server ends: the blocking read in socket_data_in_lcb does not stop a process for good.
EveryStartEnds ==
    \A p \in Procs :
        /\ stage[p] = "look" ~> stage[p] \in {"running", "gone"}
        /\ server[p] # NoProc ~> server[p] = NoProc \/ stage[server[p]] \notin Looping
=============================================================================
