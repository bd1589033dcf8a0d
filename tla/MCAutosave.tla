----------------------------- MODULE MCAutosave -----------------------------
(***************************************************************************)
(* Autosave with names and texts that are interchangeable.                 *)
(***************************************************************************)
EXTENDS Autosave, TLC

Symmetry == Permutations(Docs) \union Permutations(Names) \union Permutations(Contents)
=============================================================================
