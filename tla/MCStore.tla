------------------------------ MODULE MCStore ------------------------------
(***************************************************************************)
(* Three sessions and pages of two, so that a walk takes several pages; the  *)
(* tasks of the last two sessions have the same id.  The two walks over the  *)
(* dead incarnation's sessions overlap, and so do a client's traversal and    *)
(* the retention sweep, and a restart and a shutdown: no other two touch the   *)
(* same rows.  Each pair begins with rows that matter to it.                   *)
(***************************************************************************)
EXTENDS Server

MCTaskId == <<2, 1, 1>>
MCLeftAt == <<0, 0, 1>>

Driven == <<"RUNNING", "old", "working">>
Stopped == <<"TERMINATING", "old", "ended">>
Paused == <<"RUNNING", "nobody", "input">>
GivenUp == <<"RUNNING", "nobody", "working">>
Stranded == <<"TERMINATING", "nobody", "ended">>
Ended == <<"TERMINATED", "nobody", "ended">>
Unrecorded == <<"TERMINATED", "nobody", "working">>
Unused == <<"none", "nobody", "none">>

MCStarts ==
    [walks : {{"p", "q"}}, writes : {2},
     left : {<<Stopped, Driven, Stopped>>, <<GivenUp, Driven, Paused>>}]
    \cup
    [walks : {{"list", "sweep"}}, writes : {3}, left : {<<Unrecorded, Unused, GivenUp>>}]
    \cup
    [walks : {{"list", "sweep"}}, writes : {2}, left : {<<Unrecorded, Ended, Paused>>}]
    \cup
    [walks : {{"p", "drain"}}, writes : {3},
     left : {<<Driven, Stranded, Unused>>, <<Paused, Stopped, Driven>>}]
=============================================================================
