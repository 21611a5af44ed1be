--------------------------- MODULE MCInteractions ---------------------------
(***************************************************************************)
(* A file of three lines with a wide character where a page of two bytes     *)
(* would cut it, edits of which some find their second target only after the  *)
(* first, and a second path to create, move to and overwrite.                 *)
(***************************************************************************)
EXTENDS Interactions

MCFiles == [f |-> <<"a", "w1", "w2", "n", "n", "a">>]
MCPaths == {"f", "g"}
MCContents == {<<"n", "a">>}
MCWindows == {<<{}, {}>>, <<{2}, {}>>, <<{}, {1}>>, <<{0}, {3}>>}
Chunk(target, repl) == [target |-> target, repl |-> repl]
MCEdits == {<<Chunk(<<"n">>, <<>>), Chunk(<<"n", "n">>, <<"a">>)>>,
            <<Chunk(<<"n", "n">>, <<"a">>), Chunk(<<"a", "a">>, <<>>)>>}
=============================================================================
