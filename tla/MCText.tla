------------------------------- MODULE MCText -------------------------------
(***************************************************************************)
(* Three things that follow the edits of a text: its undo history, the     *)
(* list of its regions to scan, and the cache of the scanner.  They share  *)
(* no variable, so a behaviour has one of them (part).                     *)
(*                                                                         *)
(* The undo history has a letter and a blank, typed one by one or two at   *)
(* once, or the programmatic edits on a longer buffer.  The scanner has    *)
(* two languages with the same characters: one has blocks between "(" and  *)
(* ")", the other a context.                                               *)
(***************************************************************************)
EXTENDS UndoRedo, MarkRegion, Scanner

MCChars == {"a", " "}
MCBlanks == {" "}
MCSnippets == {<<"a">>, <<" ", "a">>}
MCFile == <<"a">>

Typing == [ops |-> {"type", "delete", "undo", "redo", "undo_all", "redo_all"}, maxLen |-> 2]
Edits == [ops |-> {"cut", "paste", "replace", "twostrings", "undo", "redo", "undo_all", "save"},
          maxLen |-> 3]
Saves == [ops |-> {"type", "undo", "redo", "save"}, maxLen |-> 2]
MCMixes == {Typing, Edits, Saves}

Pat(starts, ends, next) == [starts |-> starts, ends |-> ends, next |-> next]
Table(open, close) ==
    [ch \in Alphabet |-> IF ch = "(" THEN open ELSE IF ch = ")" THEN close ELSE NoPattern]

BlockLanguage == <<Table(Pat(TRUE, FALSE, 0), Pat(FALSE, TRUE, 0))>>
ContextLanguage == <<Table(Pat(FALSE, FALSE, 2), NoPattern), Table(NoPattern, Pat(FALSE, FALSE, -1))>>

MCLanguages == {BlockLanguage, ContextLanguage}
MCAlphabet == {"(", ")", "n"}

VARIABLE part

TextInit ==
    /\ part \in {"undo", "regions", "scanner"}
    /\ Init
    /\ RegionInit
    /\ ScanInit
    \* what a part begins with matters to that part only
    /\ part # "undo" => mix = Typing
    /\ part # "scanner" => language = BlockLanguage /\ text = <<>>

TextNext ==
    /\ UNCHANGED part
    /\ \/ part = "undo" /\ Next /\ UNCHANGED <<regionVars, scanVars>>
       \/ part = "regions" /\ RegionNext /\ UNCHANGED <<vars, scanVars>>
       \/ part = "scanner" /\ ScanNext /\ UNCHANGED <<vars, regionVars>>

textVars == <<vars, regionVars, scanVars, part>>
TextSpec == TextInit /\ [][TextNext]_textVars /\ Fairness
=============================================================================
