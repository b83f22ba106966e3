------------------------------- MODULE Outbox -------------------------------
(***************************************************************************)
(* The outbox table of outbox.py: every message the agent or the landlord  *)
(* wants a guest to receive is one row, and every way the program writes   *)
(* that table is one operator below.  A row is never deleted, and its id   *)
(* is AUTOINCREMENT, so the table is a sequence and the id an index.       *)
(*                                                                         *)
(* The module has no behaviour of its own: Delivery runs it with the       *)
(* drainers, the browser and the operators that share the table.  One      *)
(* operator is one SQL statement, which both databases execute atomically; *)
(* the statements whose guard spans several rows also hold the per-guest   *)
(* advisory lock (db.lock_key), which is what makes them atomic on         *)
(* Postgres too.                                                           *)
(*                                                                         *)
(* A definition marked "Slip" is not part of the model: it is the nearby   *)
(* mistake that the properties are shown to notice (README, Mutants).      *)
(***************************************************************************)
EXTENDS Integers, Sequences

CONSTANTS
    Items,            \* guest threads (outbox.item_id, under one tenant and site)
    Bodies,           \* texts a message can carry, compared byte for byte
    MaxSendAttempts,  \* outbox.MAX_SEND_ATTEMPTS
    ReclaimAge        \* max_age_seconds of reclaim_stuck_sending, in clock ticks

ASSUME OutboxAssumption ==
    /\ MaxSendAttempts \in Nat \ {0}
    /\ ReclaimAge \in Nat

VARIABLES
    outbox,           \* the table: a sequence of rows
    now               \* the clock every host agrees on (UTC stamps)

-----------------------------------------------------------------------------
Pending  == "pending_approval"
Queued   == "queued"
Sending  == "sending"
Sent     == "sent"
Failed   == "failed"
Canceled == "canceled"

Statuses   == {Pending, Queued, Sending, Sent, Failed, Canceled}
InFlight   == {Queued, Sending}

\* Slip: an approval releases again what was sent.
Approvable_AfterSent == {Pending, Failed, Sent}
Approvable == {Pending, Failed}

\* Slip: a row a browser is working on may be called off.
Cancelable_MidSend == {Pending, Queued, Sending, Failed, Canceled}
Cancelable == {Pending, Queued, Failed, Canceled}

\* sending_at of a row claimed by a release that did not write an absolute
\* stamp: NULL, unparseable, or without a UTC offset.
NoStamp == -1

Row == [item        : Items,
        body        : Bodies,
        status      : Statuses,
        scheduledAt : Nat,
        sendingAt   : Nat \cup {NoStamp},
        attempts    : Nat]

Ids == DOMAIN outbox

-----------------------------------------------------------------------------
(* Predicates of the guarded writes.                                       *)

Siblings(item, self) == {i \in Ids \ {self} : outbox[i].item = item}

\* Slip: a row still queued does not count as being on its way.
SiblingInFlight_SendingOnly(item, self) ==
    \E i \in Siblings(item, self) : outbox[i].status = Sending

SiblingInFlight(item, self) ==
    \E i \in Siblings(item, self) : outbox[i].status \in InFlight

AlreadySent(item, body, self) ==
    \E i \in Siblings(item, self) :
        outbox[i].status = Sent /\ outbox[i].body = body

\* next_queued: due, and first by (scheduled_at, id) among the due.
Due(i) == outbox[i].status = Queued /\ outbox[i].scheduledAt <= now

Before(i, j) ==
    \/ outbox[i].scheduledAt < outbox[j].scheduledAt
    \/ outbox[i].scheduledAt = outbox[j].scheduledAt /\ i < j

IsNextQueued(i) ==
    /\ Due(i)
    /\ \A j \in Ids \ {i} : Due(j) => Before(i, j)

-----------------------------------------------------------------------------
(* Writes.                                                                 *)

Write(i, row) == outbox' = [outbox EXCEPT ![i] = row]

\* add() without guards: drafting callers, armed steps and autopilot.
Add(item, body, auto, at) ==
    outbox' = Append(outbox,
        [item |-> item, body |-> body,
         status |-> IF auto THEN Queued ELSE Pending,
         scheduledAt |-> at, sendingAt |-> NoStamp, attempts |-> 0])

\* add(unless_in_flight, unless_body_sent): the send button.
AddGuarded(item, body) ==
    /\ ~ SiblingInFlight(item, 0)
    /\ ~ AlreadySent(item, body, 0)
    /\ Add(item, body, TRUE, now)

Earlier(a, b) == IF a <= b THEN a ELSE b

\* Slip: the stored text is looked up, the edited one is released.
Release_ChecksStoredBody(i, from, body) ==
    /\ outbox[i].status \in from
    /\ ~ SiblingInFlight(outbox[i].item, i)
    /\ ~ AlreadySent(outbox[i].item, outbox[i].body, i)
    /\ Write(i, [outbox[i] EXCEPT !.status = Queued, !.body = body,
                                  !.scheduledAt = Earlier(@, now)])

\* release_to_send: one compare-and-set, pulling a future send time forward.
Release(i, from, body) ==
    /\ outbox[i].status \in from
    /\ ~ SiblingInFlight(outbox[i].item, i)
    /\ ~ AlreadySent(outbox[i].item, body, i)
    /\ Write(i, [outbox[i] EXCEPT !.status = Queued, !.body = body,
                                  !.scheduledAt = Earlier(@, now)])

\* Slip: the claim without its compare-and-set.
ClaimRow_Blind(i) ==
    Write(i, [outbox[i] EXCEPT !.status = Sending, !.sendingAt = now,
                               !.attempts = @ + 1])

\* set_status(SENDING, only_from=(QUEUED,)): a drainer's claim.
ClaimRow(i) ==
    /\ outbox[i].status = Queued
    /\ Write(i, [outbox[i] EXCEPT !.status = Sending, !.sendingAt = now,
                                  !.attempts = @ + 1])

\* release_unattempted: give a claim back without charging an attempt.
ReleaseUnattempted(i) ==
    IF outbox[i].status = Sending
    THEN Write(i, [outbox[i] EXCEPT !.status = Queued, !.sendingAt = NoStamp,
                       !.attempts = IF @ > 0 THEN @ - 1 ELSE 0])
    ELSE UNCHANGED outbox

\* set_status(SENT) and set_status(FAILED): unconditional, no guard at all.
SettleRow(i, status) == Write(i, [outbox[i] EXCEPT !.status = status])

\* cancel: compare-and-set from CANCELABLE.
CancelRow(i) ==
    /\ outbox[i].status \in Cancelable
    /\ Write(i, [outbox[i] EXCEPT !.status = Canceled])

-----------------------------------------------------------------------------
(* reclaim_stuck_sending: a snapshot, then one guarded write per row.      *)

Verdicts == {"restamp", "requeue", "abandon"}

\* Slip: a claim as old as its schedule, not as its own stamp.
TooOld_SinceSchedule(i) == now - outbox[i].scheduledAt > ReclaimAge

TooOld(i) == now - outbox[i].sendingAt > ReclaimAge

\* Slip: one attempt too many before the row is abandoned.
ReclaimVerdict_OneMore(i) ==
    CASE outbox[i].sendingAt = NoStamp           -> "restamp"
      [] outbox[i].attempts > MaxSendAttempts    -> "abandon"
      [] OTHER                                   -> "requeue"

\* What the pass decides for a row it reads as `sending`.
ReclaimVerdict(i) ==
    CASE outbox[i].sendingAt = NoStamp           -> "restamp"
      [] outbox[i].attempts >= MaxSendAttempts   -> "abandon"
      [] OTHER                                   -> "requeue"

\* Rows the pass will write, with what it will do to each.
StuckSending ==
    {<<i, ReclaimVerdict(i)>> :
        i \in {j \in Ids : /\ outbox[j].status = Sending
                           /\ outbox[j].sendingAt = NoStamp \/ TooOld(j)}}

\* The write: guarded on the row still being `sending`, and on nothing else.
ReclaimRow(i, verdict) ==
    IF outbox[i].status = Sending
    THEN Write(i, CASE verdict = "restamp" -> [outbox[i] EXCEPT !.sendingAt = now]
                    [] verdict = "abandon" -> [outbox[i] EXCEPT !.status = Failed]
                    [] verdict = "requeue" -> [outbox[i] EXCEPT !.status = Queued])
    ELSE UNCHANGED outbox

-----------------------------------------------------------------------------
(* The table as it can be found at start-up: empty, or holding one row a   *)
(* release from before absolute stamps left in `sending`.                  *)
OutboxInit ==
    /\ now = 0
    /\ \/ outbox = <<>>
       \/ \E item \in Items, body \in Bodies :
              outbox = <<[item |-> item, body |-> body, status |-> Sending,
                          scheduledAt |-> 0, sendingAt |-> NoStamp,
                          attempts |-> 0]>>

OutboxTypeOK ==
    /\ outbox \in Seq(Row)
    /\ now \in Nat
=============================================================================
