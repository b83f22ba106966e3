------------------------------- MODULE MCJobs -------------------------------
(***************************************************************************)
(* Instances of Jobs for TLC: two request threads and one worker, and one  *)
(* request thread and two workers.                                         *)
(***************************************************************************)
EXTENDS Jobs, TLC

CONSTANTS r1, r2, w1, w2

\* Request threads are alike.
Threads == Permutations({r1, r2})
=============================================================================
