-------------------------- MODULE MCFileTreemodel ---------------------------
(* A directory that can become a file, and a file in it. *)
EXTENDS FileTreemodel

MCUris == {"/", "/d", "/d/f"}
MCParent == [u \in MCUris \ {"/"} |-> IF u = "/d/f" THEN "/d" ELSE "/"]
MCKinds == [u \in MCUris |-> CASE u = "/" -> {"dir"} [] u = "/d" -> {"none", "file", "dir"}
                               [] OTHER -> {"none", "file"}]
=============================================================================
