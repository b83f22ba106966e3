------------------------------ MODULE JobLife ------------------------------
(***************************************************************************)
(* What the job queue promises about a browser job, with no requests,      *)
(* heartbeats, codes or clocks: where it is in its life, and whose browser *)
(* is at work on it.                                                       *)
(*                                                                         *)
(*   - only a queued job is taken, and nothing makes a job queued again,   *)
(*     so a browser works on it once at most;                              *)
(*   - a job may be called off at any time, the run at work on it or not;  *)
(*   - once a job is over, only a run that is still at work on it can      *)
(*     bring it back; when nobody is, it is over for good.                 *)
(*                                                                         *)
(* Jobs implements this specification (JobLifeSpec there).                 *)
(***************************************************************************)
EXTENDS Naturals, Sequences

CONSTANT Workers

VARIABLES
    phase,      \* where each job is in its life, by id
    drives      \* which worker is at work on which job

lifeVars == <<phase, drives>>

Jobs == DOMAIN phase

Init == phase = << >> /\ drives = {}

Ask ==
    /\ phase' = Append(phase, "queued")
    /\ UNCHANGED drives

\* Canceled, or reaped, alone or with others.
CallOff(S) ==
    /\ phase' = [j \in Jobs |-> IF j \in S THEN "over" ELSE phase[j]]
    /\ UNCHANGED drives

Take(w, j) ==
    /\ phase[j] = "queued"
    /\ \A k \in Jobs : <<w, k>> \notin drives
    /\ phase' = [phase EXCEPT ![j] = "going"]
    /\ drives' = drives \cup {<<w, j>>}

\* The run says how it is getting on, or how it ended.
Tell(w, j) ==
    /\ <<w, j>> \in drives
    /\ \E to \in {"going", "over"} : phase' = [phase EXCEPT ![j] = to]
    /\ UNCHANGED drives

\* The worker is through with the job, or dies.
LetGo(w, j) ==
    /\ drives' = drives \ {<<w, j>>}
    /\ UNCHANGED phase

Next ==
    \/ Ask
    \/ \E S \in SUBSET Jobs : CallOff(S)
    \/ \E w \in Workers, j \in Jobs : Take(w, j) \/ Tell(w, j) \/ LetGo(w, j)

Spec == Init /\ [][Next]_lifeVars
=============================================================================
