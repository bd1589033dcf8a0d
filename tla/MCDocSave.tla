----------------------------- MODULE MCDocSave -----------------------------
(***************************************************************************)
(* DocSave with files that are interchangeable.                            *)
(***************************************************************************)
EXTENDS DocSave, TLC

\* Bound: where more was met, hardly a property says anything.
FewMet == Cardinality(met) <= 3

Symmetry == Permutations(Files)
=============================================================================
