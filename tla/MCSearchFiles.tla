--------------------------- MODULE MCSearchFiles ----------------------------
(* A directory with a file and a subdirectory, which has a file; and for the *)
(* liveness, whose graph is larger, one with both files in the subdirectory. *)
EXTENDS SearchFiles

MCTree == [d \in {"top", "sub"} |-> IF d = "top" THEN {"a", "sub"} ELSE {"b"}]
MCDeepTree == [d \in {"top", "sub"} |-> IF d = "top" THEN {"sub"} ELSE {"a", "b"}]
MCRuns == {1, 2}
MCSearches == {0, 1, 2}
=============================================================================
