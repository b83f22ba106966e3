----------------------------- MODULE MCDelivery -----------------------------
(***************************************************************************)
(* Instances of Delivery for TLC: which process every actor runs in.       *)
(***************************************************************************)
EXTENDS Delivery

CONSTANTS web, worker, d1, d2, r1, r2

\* A drain thread and a send loop of one process share its runner.
OneHost == [a \in Drainers \cup Reclaimers |-> web]

\* The dashboard's drain thread and worker.py, each with a runner of its own;
\* reclaim passes run on page views.
TwoHosts == [a \in Drainers \cup Reclaimers |-> IF a = d2 THEN worker ELSE web]
=============================================================================
