-------------------------- MODULE MCSearchResults ---------------------------
(* Two documents, in which a text of two letters is found twice and once. *)
EXTENDS SearchResults

MCDocs == 1 .. 2
MCQuery == <<"a", "b">>
MCReplacement == <<"a", "b", "b">>
MCInitText == << <<"a", "b", "a", "b">>, <<"b", "a", "b">> >>
MCOptions == {[type |-> "string", scope |-> "doc", so |-> 0, eo |-> -1],
              [type |-> "pcre", scope |-> "alldocs", so |-> 0, eo |-> -1],
              [type |-> "string", scope |-> "selection", so |-> 1, eo |-> 4]}
=============================================================================
