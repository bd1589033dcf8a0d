---------------------------- MODULE MCBookmarks ----------------------------
(* Two documents and two files, one of one line and one empty; lines are typed that are a
   character of one byte or of two. *)
EXTENDS Bookmarks

CONSTANTS u, v

MCInitDisk == (u :> <<"a">>) @@ (v :> << >>)
MCSymmetry == Permutations(Docs)
=============================================================================
