------------------------------- MODULE MCBoard -------------------------------
(***************************************************************************)
(* An instance of Board for TLC: two operators' clicks, two drainers.      *)
(***************************************************************************)
EXTENDS Board, TLC

CONSTANTS b1, b2, r1, r2, d1, d2

\* Texts, requests and drainers are told apart, and no more.
Alike == Permutations({b1, b2}) \cup Permutations({r1, r2}) \cup Permutations({d1, d2})
=============================================================================
