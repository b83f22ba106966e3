----------------------------- MODULE Lifecycle -----------------------------
(***************************************************************************)
(* What the outbox promises about a message, with no drainers, browsers,   *)
(* clocks or tables: the states it passes through, when it is in a         *)
(* browser's hands, and when the guest has it.                             *)
(*                                                                         *)
(*   - `sent` is written only once the guest has the message;              *)
(*   - `sent` and `canceled` are final, so a message called off before a   *)
(*     browser had it never reaches one;                                   *)
(*   - only an approval brings a message back from `failed`.               *)
(*                                                                         *)
(* Delivery implements this specification (LifecycleSpec there).           *)
(***************************************************************************)
EXTENDS Naturals, Sequences

VARIABLES
    phase,      \* the status of each message, by id
    handed,     \* messages some browser run was started for
    written     \* messages that reached the guest

lifecycleVars == <<phase, handed, written>>

Messages == DOMAIN phase

Init ==
    /\ phase \in {<<>>, <<"sending">>}
    /\ handed = {}
    /\ written = {}

Move(i, from, to) ==
    /\ phase[i] \in from
    /\ phase' = [phase EXCEPT ![i] = to]
    /\ UNCHANGED <<handed, written>>

Draft ==
    /\ \E s \in {"pending_approval", "queued"} : phase' = Append(phase, s)
    /\ UNCHANGED <<handed, written>>

Approve(i) == Move(i, {"pending_approval", "failed"}, "queued")
CallOff(i) == Move(i, {"pending_approval", "queued", "failed"}, "canceled")
Claim(i)   == Move(i, {"queued"}, "sending")
Requeue(i) == Move(i, {"sending"}, "queued")
Fail(i)    == Move(i, {"sending"}, "failed")
Succeed(i) == i \in written /\ Move(i, {"sending"}, "sent")

HandOver(i) ==
    /\ phase[i] = "sending"
    /\ handed' = handed \cup {i}
    /\ UNCHANGED <<phase, written>>

\* The browser may outlive the drainer that started it, so the guest can be
\* reached in any phase once the message has been handed over.
Reach(i) ==
    /\ written' = written \cup {i}
    /\ UNCHANGED <<phase, handed>>

Next ==
    \/ Draft
    \/ \E i \in Messages :
          \/ Approve(i) \/ CallOff(i) \/ Claim(i) \/ Requeue(i)
          \/ Fail(i) \/ Succeed(i) \/ HandOver(i)
    \/ \E i \in handed : Reach(i)

Spec == Init /\ [][Next]_lifecycleVars
=============================================================================
