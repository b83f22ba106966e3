------------------------------ MODULE Delivery ------------------------------
(***************************************************************************)
(* Delivery of outbox messages: automation.send_next as the drainer        *)
(* threads and the worker run it, runner.send_reply and _send_worker with  *)
(* the process-global run slot and outcome record, the operator routes of  *)
(* dashboard.py, and the reclaim pass, all over one outbox table.          *)
(*                                                                         *)
(* One action is one database statement, one critical section of           *)
(* runner._lock, or one thing the browser does to the guest's thread.      *)
(* Hosts are processes (web, worker): each has a runner of its own and     *)
(* forgets it when it crashes; the table survives.                         *)
(*                                                                         *)
(* send_next's two defensive branches are absent because no reachable      *)
(* state takes them: the stored item is missing (items are never deleted   *)
(* while the program runs) and the accepted state has no run_token         *)
(* (send_reply mints one in the update that claims the slot).              *)
(***************************************************************************)
EXTENDS Outbox, FiniteSets

CONSTANTS
    Hosts,            \* processes sharing the database
    Drainers,         \* callers of send_next
    Reclaimers,       \* callers of reclaim_stuck_sending
    HostOf,           \* the process each of them runs in
    SendTimeout,      \* send_next's timeout, in clock ticks
    OutcomesMax,      \* runner._OUTCOMES_MAX
    PlatformOn,       \* "platform" is among the tenant's reply_channels
    AutoArmed,        \* the tenant armed steps for unattended sending
    Delays,           \* how far ahead an unattended message may be scheduled
    MaxRows, MaxRuns, MaxRetries, MaxTime   \* bounds of the model

ASSUME DeliveryAssumption ==
    /\ HostOf \in [Drainers \cup Reclaimers -> Hosts]
    /\ SendTimeout \in Nat \ {0}
    \* 300 s against 900 s in the code.
    /\ SendTimeout <= ReclaimAge
    /\ OutcomesMax \in Nat \ {0}
    /\ PlatformOn \in BOOLEAN
    /\ AutoArmed \in BOOLEAN
    /\ Delays \subseteq Nat
    /\ MaxRows \in Nat /\ MaxRuns \in Nat /\ MaxRetries \in Nat /\ MaxTime \in Nat

VARIABLES
    drainer,    \* each send_next call: its place and its local variables
    slot,       \* runner._state of each host
    outcomes,   \* runner._outcomes of each host: tokens with a recorded end
    runs,       \* every _send_worker started so far, indexed by run token
    reclaim,    \* the rows each reclaim pass has read and not yet written
    retries     \* releases of each row from `failed`

vars == <<outbox, now, drainer, slot, outcomes, runs, reclaim, retries>>

table   == <<outbox, retries>>
runner  == <<slot, outcomes, runs>>
Tokens  == DOMAIN runs
NoToken == 0
NoBody  == "no body"

IdleDrainer == [pc |-> "idle", id |-> 0, body |-> NoBody,
                token |-> NoToken, deadline |-> 0, verdict |-> Failed]
FreeSlot    == [running |-> FALSE, token |-> NoToken, status |-> "idle"]

Init ==
    /\ OutboxInit
    /\ drainer  = [d \in Drainers |-> IdleDrainer]
    /\ slot     = [h \in Hosts |-> FreeSlot]
    /\ outcomes = [h \in Hosts |-> {}]
    /\ runs     = <<>>
    /\ reclaim  = [p \in Reclaimers |-> {}]
    /\ retries  = [i \in 1..MaxRows |-> 0]

-----------------------------------------------------------------------------
(* The landlord, and the agent's drafting.                                 *)

\* POST /responder/send, through enqueue_send.
SendClicked(item, body) ==
    /\ Len(outbox) < MaxRows
    /\ AddGuarded(item, body)
    /\ UNCHANGED <<now, drainer, runner, reclaim, retries>>

\* run_due and enqueue_autopilot_reply: nobody clicked, no guard is asked for.
Drafted(item, body) ==
    /\ Len(outbox) < MaxRows
    /\ \E auto \in {FALSE, AutoArmed}, delay \in Delays :
           Add(item, body, auto, now + delay)
    /\ UNCHANGED <<now, drainer, runner, reclaim, retries>>

\* POST /outbox/<id>/approve, the text possibly edited.
Approve(i, body) ==
    /\ outbox[i].status = Failed => retries[i] < MaxRetries
    /\ retries' = IF outbox[i].status = Failed
                  THEN [retries EXCEPT ![i] = @ + 1] ELSE retries
    /\ Release(i, Approvable, body)
    /\ UNCHANGED <<now, drainer, runner, reclaim>>

\* POST /outbox/<id>/retry: the stored text again.
Retry(i) ==
    /\ retries[i] < MaxRetries
    /\ retries' = [retries EXCEPT ![i] = @ + 1]
    /\ Release(i, {Failed}, outbox[i].body)
    /\ UNCHANGED <<now, drainer, runner, reclaim>>

\* POST /outbox/<id>/cancel.
Cancel(i) ==
    /\ CancelRow(i)
    /\ UNCHANGED <<now, drainer, runner, reclaim, retries>>

-----------------------------------------------------------------------------
(* send_next.                                                              *)

\* next_queued: the row and its text are read here, and used from here on.
Pick(d, i) ==
    /\ drainer[d].pc = "idle"
    /\ IsNextQueued(i)
    /\ drainer' = [drainer EXCEPT ![d].pc = "picked", ![d].id = i,
                                  ![d].body = outbox[i].body]
    /\ UNCHANGED <<table, now, runner, reclaim>>

\* The claim; losing the compare-and-set leaves the row to its new owner.
Claim(d) ==
    /\ drainer[d].pc = "picked"
    /\ \/ /\ ClaimRow(drainer[d].id)
          /\ drainer' = [drainer EXCEPT ![d].pc = "claimed"]
       \/ /\ outbox[drainer[d].id].status # Queued
          /\ drainer' = [drainer EXCEPT ![d] = IdleDrainer]
          /\ UNCHANGED outbox
    /\ UNCHANGED <<now, retries, runner, reclaim>>

\* runner.send_reply, refused: another run owns the browser.
Busy(d) ==
    /\ drainer[d].pc = "claimed"
    /\ slot[HostOf[d]].running
    /\ drainer' = [drainer EXCEPT ![d].pc = "refused"]
    /\ UNCHANGED <<table, now, runner, reclaim>>

GiveBack(d) ==
    /\ drainer[d].pc = "refused"
    /\ ReleaseUnattempted(drainer[d].id)
    /\ drainer' = [drainer EXCEPT ![d] = IdleDrainer]
    /\ UNCHANGED <<now, retries, runner, reclaim>>

\* runner.send_reply, accepted: the slot is claimed and a token minted in one
\* critical section, and the worker thread starts with the text picked above.
Dispatch(d) ==
    LET h == HostOf[d]
        t == Len(runs) + 1
    IN  /\ drainer[d].pc = "claimed"
        /\ ~ slot[h].running
        /\ Len(runs) < MaxRuns
        /\ slot' = [slot EXCEPT ![h] = [running |-> TRUE, token |-> t,
                                        status |-> "launching"]]
        /\ runs' = Append(runs, [host |-> h, id |-> drainer[d].id,
                                 body |-> drainer[d].body, pc |-> "browsing",
                                 landed |-> FALSE, outcome |-> "none"])
        /\ drainer' = [drainer EXCEPT ![d].pc = "waiting", ![d].token = t,
                                      ![d].deadline = now + SendTimeout]
        /\ UNCHANGED <<table, now, outcomes, reclaim>>

\* Slip: the run's own word for its end is stored as the row's status.
Learned_Verbatim(d, outcome) ==
    drainer' = [drainer EXCEPT ![d].pc = "settling", ![d].verdict = outcome]

Learned(d, outcome) ==
    drainer' = [drainer EXCEPT ![d].pc = "settling",
                    ![d].verdict = IF outcome = "error" THEN Failed ELSE Sent]

\* Slip: any recorded end will do.
ReadsOutcome_Anyones(d) ==
    LET h == HostOf[d]
    IN  \E t \in outcomes[h] :
            /\ Learned(d, runs[t].outcome)
            /\ outcomes' = [outcomes EXCEPT ![h] = @ \ {t}]

\* take_send_outcome: this run's own record, consumed on read.
ReadsOutcome(d) ==
    LET h == HostOf[d]
        t == drainer[d].token
    IN  /\ t \in outcomes[h]
        /\ Learned(d, runs[t].outcome)
        /\ outcomes' = [outcomes EXCEPT ![h] = @ \ {t}]

\* Slip: the slot is believed whoever it belongs to.
ReadsSlot_Anyones(d) ==
    LET h == HostOf[d]
    IN  /\ drainer[d].token \notin outcomes[h]
        /\ ~ slot[h].running
        /\ slot[h].status \in {"done", "error"}
        /\ Learned(d, slot[h].status)
        /\ UNCHANGED outcomes

\* The live slot, only while it still shows this run, and finished.
ReadsSlot(d) ==
    LET h == HostOf[d]
    IN  /\ drainer[d].token \notin outcomes[h]
        /\ slot[h].token = drainer[d].token
        /\ ~ slot[h].running
        /\ slot[h].status \in {"done", "error"}
        /\ Learned(d, slot[h].status)
        /\ UNCHANGED outcomes

Poll(d) ==
    /\ drainer[d].pc = "waiting"
    /\ now < drainer[d].deadline
    /\ ReadsOutcome(d) \/ ReadsSlot(d)
    /\ UNCHANGED <<table, now, slot, runs, reclaim>>

TimeOut(d) ==
    /\ drainer[d].pc = "waiting"
    /\ now >= drainer[d].deadline
    /\ drainer' = [drainer EXCEPT ![d].pc = "settling", ![d].verdict = Failed]
    /\ UNCHANGED <<table, now, runner, reclaim>>

Settle(d) ==
    /\ drainer[d].pc = "settling"
    /\ SettleRow(drainer[d].id, drainer[d].verdict)
    /\ drainer' = [drainer EXCEPT ![d] = IdleDrainer]
    /\ UNCHANGED <<now, retries, runner, reclaim>>

\* An exception out of send_next (the database is down, a thread cannot be
\* started): the drain loop logs it and goes on, the row stays as it is.
Raises(d) ==
    /\ drainer[d].pc # "idle"
    /\ drainer' = [drainer EXCEPT ![d] = IdleDrainer]
    /\ UNCHANGED <<table, now, runner, reclaim>>

-----------------------------------------------------------------------------
(* runner._send_worker, one thread per token.                              *)

Live(t) == runs[t].pc \notin {"ended", "killed"}

\* The reply reaches the guest.  With the platform channel on it is the
\* browser's reply; without it only the e-mail, which may fail in silence.
Reply(t) ==
    /\ runs[t].pc = "browsing"
    /\ \E landed \in IF PlatformOn THEN {TRUE} ELSE BOOLEAN :
           runs' = [runs EXCEPT ![t].pc = "replied", ![t].landed = landed]
    /\ UNCHANGED <<table, now, drainer, slot, outcomes, reclaim>>

Trimmed(S) ==
    IF Cardinality(S) > OutcomesMax
    THEN S \ {CHOOSE t \in S : \A u \in S : t <= u} ELSE S

\* _publish_terminal, first critical section: the record.  A host runs one
\* send at a time, so insertion order is token order and the oldest entry is
\* the smallest token.
Record(t) ==
    LET h == runs[t].host
    IN  /\ \/ /\ runs[t].pc = "replied"
              /\ runs' = [runs EXCEPT ![t].pc = "recorded", ![t].outcome = "done"]
           \/ /\ runs[t].pc \in {"browsing", "replied"}
              /\ runs' = [runs EXCEPT ![t].pc = "recorded", ![t].outcome = "error"]
        /\ outcomes' = [outcomes EXCEPT ![h] = Trimmed(@ \cup {t})]
        /\ UNCHANGED <<table, now, drainer, slot, reclaim>>

\* Second critical section, then the thread ends: the slot, if still owned.
Publish(t) ==
    LET h == runs[t].host
    IN  /\ runs[t].pc = "recorded"
        /\ runs' = [runs EXCEPT ![t].pc = "ended"]
        /\ slot' = IF slot[h].token = t
                   THEN [slot EXCEPT ![h].running = FALSE,
                                     ![h].status = runs[t].outcome]
                   ELSE slot
        /\ UNCHANGED <<table, now, drainer, outcomes, reclaim>>

-----------------------------------------------------------------------------
(* Other users of the slot, reclaim passes, crashes and time.              *)

ScrapeStarts(h) ==
    /\ ~ slot[h].running
    /\ slot' = [slot EXCEPT ![h] = [running |-> TRUE, token |-> NoToken,
                                    status |-> "launching"]]
    /\ UNCHANGED <<table, now, drainer, outcomes, runs, reclaim>>

ScrapeEnds(h) ==
    /\ slot[h].running /\ slot[h].token = NoToken
    /\ \E status \in {"done", "error"} :
           slot' = [slot EXCEPT ![h].running = FALSE, ![h].status = status]
    /\ UNCHANGED <<table, now, drainer, outcomes, runs, reclaim>>

\* runner.submit_otp ends in an unowned write of the slot's status.
OtpSubmitted(h) ==
    /\ slot[h].status # "idle"
    /\ slot' = [slot EXCEPT ![h].status = "checking"]
    /\ UNCHANGED <<table, now, drainer, outcomes, runs, reclaim>>

ReclaimReads(p) ==
    /\ reclaim[p] = {} /\ StuckSending # {}
    /\ reclaim' = [reclaim EXCEPT ![p] = StuckSending]
    /\ UNCHANGED <<table, now, drainer, runner>>

ReclaimWrites(p, i, verdict) ==
    /\ <<i, verdict>> \in reclaim[p]
    /\ ReclaimRow(i, verdict)
    /\ reclaim' = [reclaim EXCEPT ![p] = @ \ {<<i, verdict>>}]
    /\ UNCHANGED <<now, retries, drainer, runner>>

\* The process dies: its threads and its runner are gone, the table is not.
Crash(h) ==
    /\ drainer'  = [d \in Drainers |->
                       IF HostOf[d] = h THEN IdleDrainer ELSE drainer[d]]
    /\ slot'     = [slot EXCEPT ![h] = FreeSlot]
    /\ outcomes' = [outcomes EXCEPT ![h] = {}]
    /\ runs'     = [t \in Tokens |->
                       IF runs[t].host = h /\ Live(t)
                       THEN [runs[t] EXCEPT !.pc = "killed"] ELSE runs[t]]
    /\ reclaim'  = [p \in Reclaimers |->
                       IF HostOf[p] = h THEN {} ELSE reclaim[p]]
    /\ UNCHANGED <<table, now>>

\* A running process acts within a tick: a claim is dispatched or given back
\* and a verdict stored in the tick it was made, and a waiting drainer wakes
\* at its deadline.  A drainer between its read and its claim may dawdle.
Tick ==
    /\ now < MaxTime
    /\ \A d \in Drainers :
          /\ drainer[d].pc \notin {"claimed", "refused", "settling"}
          /\ drainer[d].pc = "waiting" => now < drainer[d].deadline
    /\ now' = now + 1
    /\ UNCHANGED <<table, drainer, runner, reclaim>>

-----------------------------------------------------------------------------
Next ==
    \/ \E item \in Items, body \in Bodies :
          SendClicked(item, body) \/ Drafted(item, body)
    \/ \E i \in Ids : Retry(i) \/ Cancel(i)
    \/ \E i \in Ids, body \in Bodies : Approve(i, body)
    \/ \E d \in Drainers, i \in Ids : Pick(d, i)
    \/ \E d \in Drainers :
          \/ Claim(d) \/ Busy(d) \/ GiveBack(d) \/ Dispatch(d)
          \/ Poll(d) \/ TimeOut(d) \/ Settle(d) \/ Raises(d)
    \/ \E t \in Tokens : Reply(t) \/ Record(t) \/ Publish(t)
    \/ \E h \in Hosts :
          ScrapeStarts(h) \/ ScrapeEnds(h) \/ OtpSubmitted(h) \/ Crash(h)
    \/ \E p \in Reclaimers : ReclaimReads(p)
    \/ \E p \in Reclaimers, i \in Ids, v \in Verdicts : ReclaimWrites(p, i, v)
    \/ Tick

Spec == Init /\ [][Next]_vars

-----------------------------------------------------------------------------
(* Properties.                                                             *)

DrainerStates == {"idle", "picked", "claimed", "refused", "waiting", "settling"}
RunStates     == {"browsing", "replied", "recorded", "ended", "killed"}
SlotStates    == {"idle", "launching", "checking", "done", "error"}

DrainerType == [pc       : DrainerStates,
                id       : Nat,
                body     : Bodies \cup {NoBody},
                token    : Nat,
                deadline : Nat,
                verdict  : {Sent, Failed}]
SlotType == [running : BOOLEAN, token : Nat, status : SlotStates]
RunType  == [host    : Hosts,
             id      : Nat,
             body    : Bodies \cup {NoBody},
             pc      : RunStates,
             landed  : BOOLEAN,
             outcome : {"none", "done", "error"}]

\* The shape of every variable: ids name rows that exist, tokens runs that
\* were started, and a recorded run has an end to tell.
TypeOK ==
    /\ OutboxTypeOK
    /\ drainer \in [Drainers -> DrainerType]
    /\ \A d \in Drainers : drainer[d].pc # "idle" => drainer[d].id \in Ids
    /\ slot \in [Hosts -> SlotType]
    /\ runs \in Seq(RunType)
    /\ \A t \in Tokens : runs[t].pc = "recorded" => runs[t].outcome # "none"
    /\ outcomes \in [Hosts -> SUBSET Tokens]
    /\ reclaim \in [Reclaimers -> SUBSET (Ids \X Verdicts)]
    /\ retries \in [1..MaxRows -> Nat]

\* A drainer that has claimed a row and not let go of it yet.
Holds(d) == drainer[d].pc \in {"claimed", "refused", "waiting", "settling"}

\* The claim of send_next (automation.py:231): while a drainer holds a row no
\* other drainer does, and nobody moves the row out of `sending` under it --
\* not a cancel, not an approval, not a reclaim.  This is what makes the
\* unconditional write of the outcome safe.
ClaimIsExclusive ==
    \A d \in Drainers : Holds(d) =>
        /\ outbox[drainer[d].id].status = Sending
        /\ \A e \in Drainers \ {d} : Holds(e) => drainer[e].id # drainer[d].id

\* Why the claim is exclusive, in the terms a step can preserve.  A held row
\* is stamped with its claim, and the send gives up before the stamp is old
\* enough to be reclaimed ...
HeldIsFresh ==
    \A d \in Drainers : Holds(d) =>
        LET row == outbox[drainer[d].id]
        IN  /\ row.sendingAt # NoStamp
            /\ now <= row.sendingAt + SendTimeout
            /\ drainer[d].pc = "claimed" => row.sendingAt = now
            /\ drainer[d].pc = "waiting" =>
                   drainer[d].deadline = row.sendingAt + SendTimeout

\* ... and what a reclaim pass has read stays true until the pass writes it,
\* as long as no other pass gets in between.
SnapshotIsStuck ==
    \A p \in Reclaimers : \A x \in reclaim[p] :
        /\ outbox[x[1]].status = Sending
        /\ outbox[x[1]].sendingAt = NoStamp \/ TooOld(x[1])
        /\ \A y \in reclaim[p] : x[1] = y[1] => x = y

ClaimInvariant == HeldIsFresh /\ SnapshotIsStuck

\* The run token: what a drainer is about to store is how its own run ended,
\* for its own row, never the end of a scrape or of another send that used
\* the slot in between; only a deadline may override it.
VerdictIsOwn ==
    \A d \in Drainers : drainer[d].pc = "settling" =>
        LET run == runs[drainer[d].token]
        IN  /\ run.id = drainer[d].id
            /\ \/ drainer[d].verdict = Sent   /\ run.outcome = "done"
               \/ drainer[d].verdict = Failed /\ run.outcome = "error"
               \/ drainer[d].verdict = Failed /\ now >= drainer[d].deadline

RunsOf(i) == {t \in Tokens : runs[t].id = i}

\* MAX_SEND_ATTEMPTS (outbox.py:104): without a human, one message is put in
\* a browser's hands at most that often, whatever crashes, refusals, refunds
\* and reclaims come in between; each human retry allows one more.
ResendsBounded ==
    \A i \in Ids : Cardinality(RunsOf(i)) <= MaxSendAttempts + retries[i]

\* release_to_send and the guarded add: when no step is armed for unattended
\* sending, a guest never has two messages on their way.
OneInFlightPerGuest ==
    ~ AutoArmed =>
        \A i \in Ids : outbox[i].status \in InFlight =>
            ~ SiblingInFlight(outbox[i].item, i)

\* The same, for the words: no two messages recorded as sent to one guest
\* carry the same text.
SentWordsDistinct ==
    ~ AutoArmed =>
        \A i \in Ids : outbox[i].status = Sent =>
            ~ AlreadySent(outbox[i].item, outbox[i].body, i)

\* Delivery implements the lifecycle the outbox promises.
Promise == INSTANCE Lifecycle WITH
    phase   <- [i \in Ids |-> outbox[i].status],
    handed  <- {runs[t].id : t \in Tokens},
    written <- {runs[t].id : t \in {u \in Tokens : runs[u].landed}}

LifecycleSpec == Promise!Spec

-----------------------------------------------------------------------------
(* Statements of the code's comments that the code does not keep.          *)

\* dashboard.py:1266 and runner.py:569: what goes to the browser is the text
\* the operator approved.
DispatchesApprovedText ==
    \A d \in Drainers : drainer[d].pc = "claimed" =>
        drainer[d].body = outbox[drainer[d].id].body
=============================================================================
