--------------------------- MODULE MCAntigravity ---------------------------
(***************************************************************************)
(* Two hosts that share the PID file and the endpoint, each started once      *)
(* after whatever earlier hosts left, and one turn of up to three chunks.    *)
(***************************************************************************)
EXTENDS Antigravity

MCReplies ==
    {<<>>, <<"text", "text", "tool">>, <<"thought", "text", "thought">>,
     <<"tool", "text">>, <<"text", "thought", "tool">>}
=============================================================================
