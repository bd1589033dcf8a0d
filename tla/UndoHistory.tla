---------------------------- MODULE UndoHistory ----------------------------
(***************************************************************************)
(* What undo and redo of a document promise, without saying how: the       *)
(* document stands somewhere on a line of texts; undo and redo only walk   *)
(* along it; an edit cuts off everything ahead, and then either replaces   *)
(* the text the document stands on (the edit continues the last change) or *)
(* adds one text (the edit starts a change).  Old texts are forgotten, but *)
(* never one of the last NumUndoLevels.                                    *)
(***************************************************************************)
EXTENDS Integers, Sequences, SequencesExt

CONSTANTS Chars, NumUndoLevels

VARIABLES
    past,    \* the texts behind the document, newest first
    text,    \* its text
    future   \* the texts ahead of it, the next one first

vars == <<past, text, future>>

Init ==
    /\ past = <<>>
    /\ text \in Seq(Chars)
    /\ future = <<>>

\* past becomes all, or as much of it as must be kept.
Remember(all) ==
    \E n \in 0 .. Len(all) :
        /\ n = Len(all) \/ n >= NumUndoLevels
        /\ past' = SubSeq(all, 1, n)

StartChange ==
    /\ future' = <<>>
    /\ Remember(<<text>> \o past)

ContinueChange ==
    /\ past # <<>>
    /\ future' = <<>>
    /\ UNCHANGED past

\* Undo of the last n changes, and redo of the next n.
Undo(n) ==
    /\ text' = past[n]
    /\ past' = SubSeq(past, n + 1, Len(past))
    /\ future' = Reverse(SubSeq(past, 1, n - 1)) \o <<text>> \o future

Redo(n) ==
    /\ text' = future[n]
    /\ future' = SubSeq(future, n + 1, Len(future))
    /\ past' = Reverse(SubSeq(future, 1, n - 1)) \o <<text>> \o past

\* Old changes are dropped without an edit.
Forget ==
    /\ UNCHANGED <<text, future>>
    /\ Remember(past)

Clear ==
    /\ UNCHANGED text
    /\ past' = <<>>
    /\ future' = <<>>

Next ==
    \/ Forget
    \/ ContinueChange
    \/ StartChange
    \/ \E n \in 1 .. Len(past) : Undo(n)
    \/ \E n \in 1 .. Len(future) : Redo(n)
    \/ Clear

Spec == Init /\ [][Next]_vars
=============================================================================
