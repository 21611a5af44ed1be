------------------------------ MODULE MCSession ------------------------------
(***************************************************************************)
(* Session with constants for TLC: two replicas and two or three client     *)
(* requests.  Both are interchangeable, which the safety run exploits.      *)
(***************************************************************************)
EXTENDS Session, TLC

CONSTANTS p1, p2, r1, r2, r3

TwoPods == {p1, p2}
TwoRequests == {r1, r2}
ThreeRequests == {r1, r2, r3}

Symmetry == Permutations(TwoPods) \cup Permutations(ThreeRequests)
=============================================================================
