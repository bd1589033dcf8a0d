--------------------------- MODULE ExternalCommand ---------------------------
(***************************************************************************)
(* Commands, filters and the output box (external_commands.c, outputbox.c).*)
(* A Texternalp is shared by up to four sources of the main loop: the idle *)
(* callback that follows the spawn, the watch that writes the input, the   *)
(* watch that reads the output and the watch for the end of the child.     *)
(* They fire in any order; a reference count decides which is the last.    *)
(*                                                                         *)
(* One action is one callback, or one step of the child, which runs beside *)
(* the main loop.  A callback that would follow a NULL pointer ends the    *)
(* program (crashed).                                                      *)
(***************************************************************************)
EXTENDS Integers, FiniteSets

CONSTANTS
    Cmds,     \* the commands started during a behaviour
    Kinds,    \* what each of them may be: a function to sets of kinds
    MaxOut    \* bound: the lines of output of a child

\* Where the command string takes the input from and leaves the output ("file":
\* %i and %o, "inplace": %t), and who started it: outputbox_command,
\* filter_command or custom_command, or external_command.
Kind == [input  : {"none", "pipe", "file", "inplace"},
         output : {"none", "pipe", "file", "inplace"},
         reader : {"outputbox", "filter", "none"}]

\* create_commandstring: one input, one output, and no output for a command
\* that discards it
Accepted == {k \in Kind : /\ k.input = "inplace" <=> k.output = "inplace"
                          /\ k.reader = "none" => k.output = "none"}

ASSUME KindsAssumption == Kinds \in [Cmds -> SUBSET Accepted]
ASSUME CmdsAssumption == "none" \notin Cmds /\ "bare" \notin Cmds
ASSUME MaxOutAssumption == MaxOut \in Nat

VARIABLES
    kind,       \* its kind, once started
    ep,         \* its Texternalp
    child,      \* "none", "running", or "exited"
    produced,   \* how much output the child wrote
    delivered,  \* how much of it reached the output box or the callback
    odd,        \* what went wrong with the command (see Oddities)
    outputbox,  \* bfwin->outputbox: "none", "bare" (no def), or whose def it has
    closed,     \* the box was closed while a command that writes to it was under way
    crashed

vars == <<kind, ep, child, produced, delivered, odd, outputbox, closed, crashed>>

\* refcount; the sources still to come: start_command_idle_id, the watches that
\* write and read, the watch of the child; whether buffer_out is set; whether the
\* structure was freed, and used after that.
Sources == {"idle", "writing", "reading", "watching"}
Ep == [refcount : Nat, sources : SUBSET Sources, buffer_out : BOOLEAN,
       freed : BOOLEAN, misused : BOOLEAN]
Ep0 == [refcount |-> 0, sources |-> {}, buffer_out |-> FALSE, freed |-> FALSE, misused |-> FALSE]

\* The situations in which the code gives a reference or an output up: the
\* child could not be started; its input could not be written; it left no output
\* file; it exited before start_command_idle; its output could not be read.
Oddities == {"spawn failed", "write failed", "no output file", "child first", "read error"}

\* Those in which a reference is given up.
GivenUp == {"spawn failed", "write failed", "no output file"}

NoKind == [input |-> "none", output |-> "none", reader |-> "none"]

Init ==
    /\ kind = [c \in Cmds |-> NoKind]
    /\ ep = [c \in Cmds |-> Ep0]
    /\ child = [c \in Cmds |-> "new"]
    /\ produced = [c \in Cmds |-> 0]
    /\ delivered = [c \in Cmds |-> 0]
    /\ odd = [c \in Cmds |-> {}]
    /\ outputbox = "none"
    /\ closed = FALSE
    /\ crashed = FALSE

-----------------------------------------------------------------------------

Has(c, source) == source \in ep[c].sources

Ref(e) == [e EXCEPT !.refcount = @ + 1]
Add(e, source) == [e EXCEPT !.sources = @ \union {source}]
Drop(e, source) == [e EXCEPT !.sources = @ \ {source}]
BufferOut(e) == [e EXCEPT !.buffer_out = TRUE]

\* The structure and its temporary files go with the last reference.
externalp_unref(e) ==
    [refcount |-> e.refcount - 1, sources |-> e.sources, buffer_out |-> e.buffer_out,
     freed |-> (e.freed \/ e.refcount - 1 <= 0), misused |-> (e.misused \/ e.freed)]

\* A field is written that may be gone.
Touched(e) == [e EXCEPT !.misused = @ \/ e.freed]

\* start_command_backend: a reference for the idle callback and one for the
\* watch of the child; if there is no child only one is given back.
StartBackend(c, e) ==
    \/ /\ ep' = [ep EXCEPT ![c] = Add(Add(Ref(Ref(e)), "watching"), "idle")]
       /\ child' = [child EXCEPT ![c] = "running"]
       /\ UNCHANGED odd
    \/ /\ ep' = [ep EXCEPT ![c] = externalp_unref(Ref(Ref(e)))]
       /\ child' = [child EXCEPT ![c] = "none"]
       /\ odd' = [odd EXCEPT ![c] = @ \union {"spawn failed"}]

\* Variant: a box that is there already gets no new def.
StartCommandOldDef(c, k) ==
    /\ ~crashed
    /\ child[c] = "new"
    /\ k \in Kinds[c] /\ k.input # "file"
    /\ kind' = [kind EXCEPT ![c] = k]
    /\ outputbox' = IF k.reader = "outputbox" /\ outputbox = "none" THEN c ELSE outputbox
    /\ StartBackend(c, ep[c])
    /\ UNCHANGED <<produced, delivered, closed, crashed>>

\* command_backend and start_command; outputbox() makes the box and gives it a
\* def first.  With %i the input is written to a file before the child starts.
StartCommand(c, k) ==
    /\ ~crashed
    /\ child[c] = "new"
    /\ k \in Kinds[c]
    /\ kind' = [kind EXCEPT ![c] = k]
    /\ outputbox' = IF k.reader = "outputbox" THEN c ELSE outputbox
    /\ \/ /\ k.input # "file"
          /\ StartBackend(c, ep[c])
       \/ /\ k.input = "file"
          /\ ep' = [ep EXCEPT ![c] = Add(BufferOut(@), "writing")]
          /\ child' = [child EXCEPT ![c] = "none"]
          /\ UNCHANGED odd
       \/ /\ k.input = "file"   \* the file cannot be made
          /\ child' = [child EXCEPT ![c] = "none"]
          /\ odd' = [odd EXCEPT ![c] = @ \union {"write failed"}]
          /\ UNCHANGED ep
    /\ UNCHANGED <<produced, delivered, closed, crashed>>

\* start_command_write_lcb, all written.  (A part leaves the watch as it is.)
WriteDone(c) ==
    /\ ~crashed
    /\ Has(c, "writing")
    /\ LET e == Drop(ep[c], "writing") IN
       \/ /\ kind[c].input = "file"
          /\ StartBackend(c, e)
       \/ /\ kind[c].input = "pipe" /\ child[c] = "running"
          /\ ep' = [ep EXCEPT ![c] = externalp_unref(e)]
          /\ UNCHANGED <<child, odd>>
    /\ UNCHANGED <<kind, produced, delivered, outputbox, closed, crashed>>

\* start_command_write_lcb, the child reads no more or the disk is full: the
\* reference of the watch is kept.
WriteFails(c) ==
    /\ ~crashed
    /\ Has(c, "writing")
    /\ ep' = [ep EXCEPT ![c] = Drop(@, "writing")]
    /\ odd' = [odd EXCEPT ![c] = @ \union {"write failed"}]
    /\ UNCHANGED <<kind, child, produced, delivered, outputbox, closed, crashed>>

\* Variant: the watch of the output has no reference of its own.
StartCommandIdleNoRef(c) ==
    /\ ~crashed
    /\ Has(c, "idle")
    /\ LET in == IF kind[c].input = "pipe"
                 THEN Add(BufferOut(Ref(ep[c])), "writing") ELSE ep[c]
           out == IF kind[c].output = "pipe" THEN Add(in, "reading") ELSE in
       IN ep' = [ep EXCEPT ![c] = Touched(Drop(externalp_unref(out), "idle"))]
    /\ UNCHANGED <<kind, child, produced, delivered, odd, outputbox, closed, crashed>>

\* start_command_idle
StartCommandIdle(c) ==
    /\ ~crashed
    /\ Has(c, "idle")
    /\ LET in == IF kind[c].input = "pipe"
                 THEN Add(BufferOut(Ref(ep[c])), "writing") ELSE ep[c]
           out == IF kind[c].output = "pipe" THEN Add(Ref(in), "reading") ELSE in
       IN ep' = [ep EXCEPT ![c] = Touched(Drop(externalp_unref(out), "idle"))]
    /\ UNCHANGED <<kind, child, produced, delivered, odd, outputbox, closed, crashed>>

ChildWrites(c) ==
    /\ ~crashed
    /\ child[c] = "running" /\ kind[c].output # "none" /\ produced[c] < MaxOut
    /\ produced' = [produced EXCEPT ![c] = @ + 1]
    /\ UNCHANGED <<kind, ep, child, delivered, odd, outputbox, closed, crashed>>

ChildExits(c) ==
    /\ ~crashed
    /\ child[c] = "running"
    /\ child' = [child EXCEPT ![c] = "exited"]
    /\ UNCHANGED <<kind, ep, produced, delivered, odd, outputbox, closed, crashed>>

\* fill_output_box reads outputbox->def.
FillCrashes == outputbox \in {"none", "bare"}

\* Variant: the end of the child leaves the idle callback alone.
ChildWatchKeepsIdle(c) ==
    /\ ~crashed
    /\ Has(c, "watching") /\ child[c] = "exited"
    /\ ep' = [ep EXCEPT ![c] = externalp_unref(Drop(@, "watching"))]
    /\ crashed' = (kind[c].reader = "outputbox" /\ FillCrashes)
    /\ UNCHANGED <<kind, child, produced, delivered, odd, outputbox, closed>>

\* Variant: a child that exited before its start is cleaned up twice.
ChildWatchGoesOn(c) ==
    /\ ~crashed
    /\ Has(c, "watching") /\ child[c] = "exited"
    /\ LET gone == Drop(ep[c], "watching")
           e == IF Has(c, "idle") THEN externalp_unref(Drop(gone, "idle")) ELSE gone
           unstarted == kind[c].input = "pipe" /\ ~e.buffer_out
       IN ep' = [ep EXCEPT ![c] = externalp_unref(IF unstarted THEN externalp_unref(e) ELSE e)]
    /\ crashed' = (kind[c].reader = "outputbox" /\ FillCrashes)
    /\ UNCHANGED <<kind, child, produced, delivered, odd, outputbox, closed>>

\* child_watch_lcb: an idle callback still to come is taken back; the status goes
\* to the output box; the output that is in a file is read from now on.
ChildWatch(c) ==
    /\ ~crashed
    /\ Has(c, "watching") /\ child[c] = "exited"
    /\ LET gone == Drop(ep[c], "watching")
           e == IF Has(c, "idle") THEN externalp_unref(Drop(gone, "idle")) ELSE gone
           early == IF Has(c, "idle") THEN {"child first"} ELSE {}
           unstarted == kind[c].input = "pipe" /\ ~e.buffer_out
           file == kind[c].output \in {"file", "inplace"} /\ ~unstarted
       IN \/ /\ ~file
             /\ ep' = [ep EXCEPT ![c] = externalp_unref(e)]
             /\ odd' = [odd EXCEPT ![c] = @ \union early]
          \/ /\ file
             /\ ep' = [ep EXCEPT ![c] = externalp_unref(Add(Ref(e), "reading"))]
             /\ odd' = [odd EXCEPT ![c] = @ \union early]
          \/ /\ file /\ produced[c] = 0   \* the child did not make the file
             /\ ep' = [ep EXCEPT ![c] = externalp_unref(Ref(e))]
             /\ odd' = [odd EXCEPT ![c] = @ \union early \union {"no output file"}]
    /\ crashed' = (kind[c].reader = "outputbox" /\ FillCrashes)
    /\ UNCHANGED <<kind, child, produced, delivered, outputbox, closed>>

\* The watch of a pipe at its end, or of a file.
AtEnd(c) == child[c] = "exited"

\* How much of the output the watch of it may have read when it is called: all of it, or what
\* comes before something that cannot be read (bytes that are no UTF-8, say).  That stays
\* where it is, and every later call stops at the same place.
Readable(c) == {n \in delivered[c] .. produced[c] : "read error" \in odd[c] => n = delivered[c]}

\* A watch that got as far as n: an error is only logged.
ReadTo(c, n) ==
    odd' = IF n = produced[c] THEN odd ELSE [odd EXCEPT ![c] = @ \union {"read error"}]

\* After that it ends if there is no more; on a pipe also if it failed, since the other side
\* has hung up.  A file is never hung up: the watch is called again and again.
ReadEnds(c, n) == AtEnd(c) /\ (n = produced[c] \/ kind[c].output = "pipe")

\* Variant: the watch ends with the first lines.
OutputboxIoWatchOnce(c) ==
    /\ ~crashed
    /\ Has(c, "reading") /\ kind[c].reader = "outputbox"
    /\ AtEnd(c) \/ produced[c] > delivered[c]
    /\ ep' = [ep EXCEPT ![c] = externalp_unref(Drop(@, "reading"))]
    /\ delivered' = [delivered EXCEPT ![c] = produced[c]]
    /\ crashed' = FALSE
    /\ UNCHANGED <<kind, child, produced, odd, outputbox, closed>>

\* Variant: a box that is gone ends the watch, and not its reference.
OutputboxIoWatchKeepsRef(c) ==
    /\ ~crashed
    /\ Has(c, "reading") /\ kind[c].reader = "outputbox"
    /\ AtEnd(c) \/ produced[c] > delivered[c]
    /\ \/ /\ outputbox = "none"
          /\ ep' = [ep EXCEPT ![c] = Drop(@, "reading")]
          /\ UNCHANGED <<delivered, odd, crashed>>
       \/ /\ outputbox # "none"
          /\ \E n \in Readable(c) :
              /\ ReadTo(c, n)
              /\ delivered' = [delivered EXCEPT ![c] = n]
              /\ crashed' = (n > delivered[c] /\ FillCrashes)
              /\ ep' = IF ReadEnds(c, n)
                       THEN [ep EXCEPT ![c] = externalp_unref(Drop(@, "reading"))] ELSE ep
    /\ UNCHANGED <<kind, child, produced, outputbox, closed>>

\* outputbox_io_watch_lcb: the lines that can be read are shown; the end of the output, or a
\* box that is gone, ends the watch.
OutputboxIoWatch(c) ==
    /\ ~crashed
    /\ Has(c, "reading") /\ kind[c].reader = "outputbox"
    /\ AtEnd(c) \/ produced[c] > delivered[c]
    /\ \/ /\ outputbox = "none"
          /\ ep' = [ep EXCEPT ![c] = externalp_unref(Drop(@, "reading"))]
          /\ UNCHANGED <<delivered, odd, crashed>>
       \/ /\ outputbox # "none"
          /\ \E n \in Readable(c) :
              /\ ReadTo(c, n)
              /\ delivered' = [delivered EXCEPT ![c] = n]
              /\ crashed' = (n > delivered[c] /\ FillCrashes)
              /\ ep' = IF ReadEnds(c, n)
                       THEN [ep EXCEPT ![c] = externalp_unref(Drop(@, "reading"))] ELSE ep
    /\ UNCHANGED <<kind, child, produced, outputbox, closed>>

\* full_data_io_watch_lcb: everything at once, at the end of the output, or nothing.
FullDataIoWatch(c) ==
    /\ ~crashed
    /\ Has(c, "reading") /\ kind[c].reader = "filter"
    /\ \E n \in Readable(c) \intersect {delivered[c], produced[c]} :
        /\ AtEnd(c) \/ n < produced[c]
        /\ ReadTo(c, n)
        /\ delivered' = [delivered EXCEPT ![c] = n]
        /\ ep' = IF ReadEnds(c, n)
                 THEN [ep EXCEPT ![c] = externalp_unref(Drop(@, "reading"))] ELSE ep
    /\ UNCHANGED <<kind, child, produced, outputbox, closed, crashed>>

BoxUser(c) == kind[c].reader = "outputbox" /\ child[c] # "new" /\ ~ep[c].freed

\* outputbox_cleanup, from the button of the box, the menu or the window
OutputboxCleanup ==
    /\ ~crashed
    /\ outputbox # "none"
    /\ outputbox' = "none"
    /\ closed' = (closed \/ \E c \in Cmds : BoxUser(c))
    /\ UNCHANGED <<kind, ep, child, produced, delivered, odd, crashed>>

\* outputbox_add_line by a search makes a box without def; so does opening
\* the pane from the menu.
OutputboxAddLine ==
    /\ ~crashed
    /\ outputbox = "none"
    /\ outputbox' = "bare"
    /\ UNCHANGED <<kind, ep, child, produced, delivered, odd, closed, crashed>>

Callback(c) ==
    \/ StartCommandIdle(c) \/ ChildWatch(c) \/ OutputboxIoWatch(c) \/ FullDataIoWatch(c)

Next ==
    \/ \E c \in Cmds : \/ \E k \in Kinds[c] : StartCommand(c, k)
                       \/ WriteDone(c) \/ WriteFails(c)
                       \/ Callback(c)
                       \/ ChildWrites(c) \/ ChildExits(c)
    \/ OutputboxCleanup
    \/ OutputboxAddLine

Spec == Init /\ [][Next]_vars

\* The main loop dispatches every source that stays ready.  Nothing is assumed
\* of the child, nor of the watch that writes: when the child is gone and the pipe
\* is full, its condition G_IO_OUT never comes true.
FairSpec == Spec /\ \A c \in Cmds : /\ WF_vars(StartCommandIdle(c))
                                    /\ WF_vars(ChildWatch(c))
                                    /\ WF_vars(OutputboxIoWatch(c) \/ FullDataIoWatch(c))

-----------------------------------------------------------------------------

TypeOK ==
    /\ kind \in [Cmds -> Kind]
    /\ ep \in [Cmds -> Ep]
    /\ child \in [Cmds -> {"new", "none", "running", "exited"}]
    /\ produced \in [Cmds -> 0 .. MaxOut]
    /\ delivered \in [Cmds -> 0 .. MaxOut]
    /\ odd \in [Cmds -> SUBSET Oddities]
    /\ outputbox \in {"none", "bare"} \union Cmds
    /\ closed \in BOOLEAN /\ crashed \in BOOLEAN

\* The references that no source will give back.
Lost(o) == Cardinality(o \intersect {"write failed", "no output file"})

\* The reference count ("on 0 we can free this structure") of a command that was
\* spawned is the number of sources to come that will give one back, and of those
\* that were given up.
RefsMatch ==
    \A c \in Cmds : child[c] \in {"running", "exited"} =>
        ep[c].refcount = Cardinality(ep[c].sources) + Lost(odd[c])

\* No callback is left, and no field is written, when the structure is freed.
NoUseAfterFree ==
    \A c \in Cmds :
        /\ ~ep[c].misused
        /\ ep[c].freed => ep[c].sources = {}

\* Whatever the order of the callbacks, the last one frees the structure and
\* its temporary files, unless a reference was given up on the way.
FreedByTheLast ==
    \A c \in Cmds :
        /\ child[c] # "new"
        /\ ep[c].sources = {}
        => ep[c].freed \/ odd[c] \intersect GivenUp # {}

\* What the child wrote for the box or the filter arrives whole.  A child that
\* exits before the idle callback of its start has its pipe closed unread; a box
\* that was closed takes nothing; after something that cannot be read no more is shown.
OutputArrives ==
    \A c \in Cmds :
        \/ ~ep[c].freed
        \/ delivered[c] = produced[c]
        \/ "child first" \in odd[c] /\ "pipe" \in {kind[c].input, kind[c].output}
        \/ kind[c].reader = "outputbox" /\ closed
        \/ "read error" \in odd[c]

\* The program ends in fill_output_box only after the box was closed under a
\* command (outputbox_io_watch_lcb looks whether there is a box,
\* outputbox_statuscode_lcb does not).
CrashNeedsClose == crashed => closed

\* Every command whose child exits is freed, unless a reference was given up, its input was
\* never read, or its output is in a file that cannot be read: the watch of that never ends.
EveryCommandEnds ==
    \A c \in Cmds : child[c] = "exited" ~>
        \/ ep[c].freed
        \/ Has(c, "writing")
        \/ odd[c] \intersect GivenUp # {}
        \/ "read error" \in odd[c] /\ kind[c].output # "pipe"
        \/ crashed

\* The life of a Texternalp: counted by its callbacks, used by none after it was freed,
\* freed by the last.
Lifetime == RefsMatch /\ NoUseAfterFree /\ FreedByTheLast

\* What becomes of the output: it arrives, and without a closed output box no callback
\* writes into one that is gone.
OutputKept == TypeOK /\ OutputArrives /\ CrashNeedsClose

=============================================================================
