------------------------------- MODULE MCTurn -------------------------------
(***************************************************************************)
(* Turn with constants for TLC: two messages, two possible answers to each. *)
(***************************************************************************)
EXTENDS Turn

CONSTANTS s1, s2, o1, o2

MCStepID == {s1, s2}
MCOutput == {o1, o2}
=============================================================================
