------------------------- MODULE Delivery_refinement -------------------------
(***************************************************************************)
(* More theorems about Delivery: what a drainer stores is how its own run  *)
(* ended, resends are bounded, and Delivery implements Lifecycle.  They    *)
(* rest on the types and the exclusive claim of Delivery_proofs.           *)
(***************************************************************************)
EXTENDS Delivery_proofs, FiniteSetTheorems

-----------------------------------------------------------------------------
(* The run token.  VerdictIsOwn speaks of a drainer about to store; it     *)
(* holds because the run is its own from the moment of dispatch, and       *)
(* because every place a drainer learns an end from tells the truth: the   *)
(* record of a token, and the slot as long as it shows the token.          *)

Unfinished(t) == runs[t].pc \in {"browsing", "replied"}

\* A run has an end once it is neither browsing nor replied, and not before.
EndsAreFinal ==
    \A t \in Tokens : Unfinished(t) => runs[t].outcome = "none"

RunIsOwn ==
    \A d \in Drainers : drainer[d].pc \in {"waiting", "settling"} =>
        /\ drainer[d].token \in Tokens
        /\ runs[drainer[d].token].id = drainer[d].id

RecordsTell ==
    \A h \in Hosts : \A t \in outcomes[h] : runs[t].outcome # "none"

SlotTells ==
    \A h \in Hosts : slot[h].token # NoToken =>
        /\ slot[h].token \in Tokens
        /\ ~ slot[h].running /\ slot[h].status \in {"done", "error"} =>
               runs[slot[h].token].outcome = slot[h].status

OwnInv ==
    EndsAreFinal /\ RunIsOwn /\ RecordsTell /\ SlotTells /\ VerdictIsOwn

\* What every step does to the runs that exist: they keep their message, and
\* an end, once told, stays told.
RunsGoOn ==
    /\ Tokens \subseteq Tokens'
    /\ \A t \in Tokens :
           /\ runs'[t].id = runs[t].id
           /\ runs[t].outcome # "none" => runs'[t].outcome = runs[t].outcome

\* A drainer's record survives a step, or comes to rest.
DrainerKept(e) == drainer'[e] = drainer[e] \/ drainer'[e].pc = "idle"

\* A slot survives a step, or shows no token any more, or no end.
SlotKept(h) ==
    \/ slot'[h] = slot[h]
    \/ slot'[h].token = NoToken
    \/ slot'[h].token = slot[h].token /\ slot'[h].status = "checking"

\* The parts of the invariant that a step of somebody else cannot disturb.
LEMMA RunIsOwnKept ==
    ASSUME OwnInv, RunsGoOn, \A e \in Drainers : DrainerKept(e)
    PROVE  RunIsOwn'
BY DEF OwnInv, RunIsOwn, RunsGoOn, DrainerKept

LEMMA VerdictKept ==
    ASSUME TypeOK, OwnInv, RunsGoOn, now' \in {now, now + 1},
           \A e \in Drainers : DrainerKept(e)
    PROVE  VerdictIsOwn'
<1> SUFFICES ASSUME NEW d \in Drainers, drainer'[d].pc = "settling"
             PROVE  LET run == runs'[drainer'[d].token]
                    IN  /\ run.id = drainer'[d].id
                        /\ \/ drainer'[d].verdict = Sent   /\ run.outcome = "done"
                           \/ drainer'[d].verdict = Failed /\ run.outcome = "error"
                           \/ drainer'[d].verdict = Failed /\ now' >= drainer'[d].deadline
  BY DEF VerdictIsOwn
<1>1. drainer'[d] = drainer[d] /\ drainer[d].pc = "settling"
  BY DEF DrainerKept
<1>2. drainer[d].token \in Tokens
  BY <1>1 DEF OwnInv, RunIsOwn
<1>3. now >= drainer[d].deadline => now' >= drainer[d].deadline
  BY DrainerFields DEF TypeOK, OutboxTypeOK
<1> QED BY <1>1, <1>2, <1>3 DEF OwnInv, VerdictIsOwn, RunsGoOn

LEMMA RecordsKept ==
    ASSUME TypeOK, OwnInv, RunsGoOn,
           \A h \in Hosts : outcomes'[h] \subseteq outcomes[h]
    PROVE  RecordsTell'
BY DEF TypeOK, OwnInv, RecordsTell, RunsGoOn

LEMMA SlotsKept ==
    ASSUME TypeOK, OwnInv, RunsGoOn, \A h \in Hosts : SlotKept(h)
    PROVE  SlotTells'
<1> SUFFICES ASSUME NEW h \in Hosts, slot'[h].token # NoToken
             PROVE  /\ slot'[h].token \in Tokens'
                    /\ ~ slot'[h].running /\ slot'[h].status \in {"done", "error"} =>
                           runs'[slot'[h].token].outcome = slot'[h].status
  BY DEF SlotTells
<1>1. slot'[h].token = slot[h].token /\ slot[h].token \in Tokens
  BY DEF SlotKept, OwnInv, SlotTells
<1>2. CASE slot'[h] = slot[h]
  BY <1>1, <1>2 DEF OwnInv, SlotTells, RunsGoOn
<1>3. CASE slot'[h].status = "checking"
  BY <1>1, <1>3 DEF RunsGoOn
<1> QED BY <1>2, <1>3 DEF SlotKept

\* A step that touches neither the runs nor the runner, and lets drainers
\* only stand still or come to rest.
LEMMA RunnerUntouched ==
    ASSUME TypeOK, OwnInv, UNCHANGED runner, now' \in {now, now + 1},
           \A e \in Drainers : DrainerKept(e)
    PROVE  OwnInv'
<1>1. RunsGoOn
  BY DEF RunsGoOn, runner, Tokens
<1>2. EndsAreFinal'
  BY DEF OwnInv, EndsAreFinal, Unfinished, runner, Tokens
<1>3. \A h \in Hosts : outcomes'[h] \subseteq outcomes[h] /\ SlotKept(h)
  BY DEF runner, SlotKept
<1> QED BY <1>1, <1>2, <1>3, RunIsOwnKept, VerdictKept, RecordsKept, SlotsKept
        DEF OwnInv

LEMMA OwnInit == Init => OwnInv
BY IdleIsTyped
   DEF Init, OwnInv, EndsAreFinal, RunIsOwn, RecordsTell, SlotTells,
       VerdictIsOwn, Tokens, FreeSlot

\* The steps that move a run.
LEMMA OwnDispatch ==
    ASSUME TypeOK, OwnInv, NEW d \in Drainers, Dispatch(d)
    PROVE  OwnInv'
<1> DEFINE h == HostOf[d]
           t == Len(runs) + 1
<1>0. h \in Hosts
  BY DeliveryAssumption
<1>1. Len(runs) \in Nat /\ Tokens = 1..Len(runs) /\ now' = now
  BY DEF TypeOK, Tokens, Dispatch
<1>2. /\ Tokens' = Tokens \cup {t} /\ t \notin Tokens
      /\ \A u \in Tokens : runs'[u] = runs[u]
      /\ runs'[t].id = drainer[d].id
      /\ runs'[t].pc = "browsing" /\ runs'[t].outcome = "none"
  BY <1>1 DEF Dispatch, Tokens, TypeOK
<1>3. RunsGoOn
  BY <1>2 DEF RunsGoOn
<1>4. EndsAreFinal'
  BY <1>2 DEF OwnInv, EndsAreFinal, Unfinished
<1>5. /\ \A e \in Drainers \ {d} : drainer'[e] = drainer[e]
      /\ drainer'[d].pc = "waiting" /\ drainer'[d].token = t
      /\ drainer'[d].id = drainer[d].id
  BY DEF Dispatch, TypeOK, DrainerType
<1>6. RunIsOwn'
  BY <1>2, <1>5 DEF OwnInv, RunIsOwn
<1>7. VerdictIsOwn'
  BY <1>1, <1>2, <1>5 DEF OwnInv, VerdictIsOwn, RunIsOwn
<1>8. RecordsTell'
  BY <1>3, RecordsKept DEF Dispatch
<1>9. SlotTells'
  <2>1. /\ \A g \in Hosts \ {h} : slot'[g] = slot[g]
        /\ slot'[h].token = t /\ slot'[h].running
    BY <1>0, <1>1 DEF Dispatch, TypeOK
  <2> QED BY <1>2, <2>1 DEF OwnInv, SlotTells
<1> QED BY <1>4, <1>6, <1>7, <1>8, <1>9 DEF OwnInv

LEMMA OwnPoll ==
    ASSUME TypeOK, OwnInv, NEW d \in Drainers, Poll(d)
    PROVE  OwnInv'
<1> DEFINE h == HostOf[d]
           t == drainer[d].token
<1>1. /\ h \in Hosts
      /\ t \in Tokens /\ runs[t].id = drainer[d].id
  BY DeliveryAssumption DEF Poll, OwnInv, RunIsOwn
<1>2. UNCHANGED <<runs, slot, now>>
  BY DEF Poll
<1>3. RunsGoOn
  BY <1>2 DEF RunsGoOn, Tokens
<1>4. EndsAreFinal'
  BY <1>2 DEF OwnInv, EndsAreFinal, Unfinished, Tokens
<1>5. RecordsTell' /\ SlotTells'
  <2>1. \A g \in Hosts : outcomes'[g] \subseteq outcomes[g] /\ SlotKept(g)
    BY <1>2 DEF Poll, ReadsOutcome, ReadsSlot, TypeOK, SlotKept
  <2> QED BY <2>1, <1>3, RecordsKept, SlotsKept
<1>6. PICK outcome \in {"done", "error"} :
          runs[t].outcome = outcome /\ Learned(d, outcome)
  <2>1. CASE ReadsOutcome(d)
    <3>1. runs[t].outcome \in {"done", "error"}
      BY <1>1, <2>1, RunFields DEF ReadsOutcome, OwnInv, RecordsTell
    <3> QED BY <2>1, <3>1 DEF ReadsOutcome
  <2>2. CASE ReadsSlot(d)
    <3>1. t # NoToken
      BY <1>1 DEF Tokens, NoToken, TypeOK
    <3> QED BY <1>1, <2>2, <3>1 DEF ReadsSlot, OwnInv, SlotTells
  <2> QED BY <2>1, <2>2 DEF Poll
<1>7. /\ \A e \in Drainers \ {d} : drainer'[e] = drainer[e]
      /\ drainer'[d].pc = "settling"
      /\ drainer'[d].token = t /\ drainer'[d].id = drainer[d].id
      /\ drainer'[d].verdict = IF outcome = "error" THEN Failed ELSE Sent
  BY <1>6 DEF Learned, TypeOK, DrainerType
<1>8. RunIsOwn' /\ VerdictIsOwn'
  BY <1>1, <1>2, <1>6, <1>7 DEF OwnInv, RunIsOwn, VerdictIsOwn, Tokens
<1> QED BY <1>4, <1>5, <1>8 DEF OwnInv

LEMMA OwnTimeOut ==
    ASSUME TypeOK, OwnInv, NEW d \in Drainers, TimeOut(d)
    PROVE  OwnInv'
<1>1. UNCHANGED <<runs, slot, outcomes, now>>
  BY DEF TimeOut, runner
<1>2. EndsAreFinal' /\ RecordsTell' /\ SlotTells'
  BY <1>1 DEF OwnInv, EndsAreFinal, RecordsTell, SlotTells, Unfinished, Tokens
<1>3. /\ \A e \in Drainers \ {d} : drainer'[e] = drainer[e]
      /\ drainer[d].pc = "waiting" /\ now >= drainer[d].deadline
      /\ drainer'[d].deadline = drainer[d].deadline
      /\ drainer'[d].token = drainer[d].token /\ drainer'[d].id = drainer[d].id
      /\ drainer'[d].verdict = Failed
  BY DEF TimeOut, TypeOK, DrainerType
<1>4. RunIsOwn' /\ VerdictIsOwn'
  BY <1>1, <1>3 DEF OwnInv, RunIsOwn, VerdictIsOwn, Tokens
<1> QED BY <1>2, <1>4 DEF OwnInv

\* A run may reach the guest while it browses, and the end it records is its
\* first.
LEMMA OwnRunSteps ==
    ASSUME TypeOK, OwnInv, NEW t \in Tokens, Reply(t) \/ Record(t) \/ Publish(t)
    PROVE  OwnInv'
<1>1. runs \in Seq(RunType) /\ runs[t] \in RunType
  BY RunFields DEF TypeOK
<1>2. /\ Tokens' = Tokens
      /\ \A u \in Tokens \ {t} : runs'[u] = runs[u]
      /\ runs'[t].id = runs[t].id
  <2>1. CASE Reply(t)
    BY <1>1, <2>1 DEF Reply, Tokens, RunType
  <2>2. CASE Record(t)
    BY <1>1, <2>2 DEF Record, Tokens, RunType
  <2>3. CASE Publish(t)
    BY <1>1, <2>3 DEF Publish, Tokens, RunType
  <2> QED BY <2>1, <2>2, <2>3
<1>3. /\ Unfinished(t)' => runs'[t].outcome = runs[t].outcome /\ Unfinished(t)
      /\ runs[t].outcome # "none" => runs'[t].outcome = runs[t].outcome
  <2>1. Unfinished(t) => runs[t].outcome = "none"
    BY DEF OwnInv, EndsAreFinal
  <2>2. CASE Reply(t)
    <3>1. PICK b \in BOOLEAN :
              runs' = [runs EXCEPT ![t].pc = "replied", ![t].landed = b]
      BY <2>2 DEF Reply
    <3>2. runs'[t].outcome = runs[t].outcome /\ runs[t].pc = "browsing"
      BY <1>1, <2>2, <3>1 DEF Reply, Tokens, RunType
    <3> QED BY <3>2 DEF Unfinished
  <2>3. CASE Record(t)
    <3>1. Unfinished(t) /\ runs'[t].pc = "recorded"
      BY <1>1, <2>3 DEF Record, Tokens, RunType, Unfinished
    <3> QED BY <2>1, <3>1 DEF Unfinished
  <2>4. CASE Publish(t)
    BY <1>1, <2>4 DEF Publish, Tokens, RunType, Unfinished
  <2> QED BY <2>2, <2>3, <2>4
<1>4. RunsGoOn
  BY <1>2, <1>3 DEF RunsGoOn
<1>5. EndsAreFinal'
  BY <1>2, <1>3 DEF OwnInv, EndsAreFinal, Unfinished
<1>6. now' = now /\ \A e \in Drainers : DrainerKept(e)
  BY DEF Reply, Record, Publish, DrainerKept
<1>7. RunIsOwn' /\ VerdictIsOwn'
  BY <1>4, <1>6, RunIsOwnKept, VerdictKept
<1>8. RecordsTell'
  <2>1. CASE Record(t)
    <3>1. runs'[t].outcome # "none"
      BY <1>1, <2>1 DEF Record, Tokens, RunType
    <3>2. \A h \in Hosts : outcomes'[h] \subseteq outcomes[h] \cup {t}
      BY <2>1 DEF Record, TypeOK, Trimmed
    <3> QED BY <1>4, <3>1, <3>2 DEF OwnInv, RecordsTell, RunsGoOn, TypeOK
  <2>2. CASE Reply(t) \/ Publish(t)
    BY <1>4, <2>2, RecordsKept DEF Reply, Publish
  <2> QED BY <2>1, <2>2
<1>9. SlotTells'
  <2>1. CASE Publish(t)
    <3> DEFINE h == runs[t].host
    <3>1. h \in Hosts /\ runs'[t].outcome = runs[t].outcome
      BY <1>1, <2>1, RunFields DEF Publish, RunType
    <3>2. CASE slot[h].token = t
      <4>1. /\ \A g \in Hosts \ {h} : slot'[g] = slot[g]
            /\ slot'[h].token = t /\ slot'[h].status = runs[t].outcome
        BY <2>1, <3>1, <3>2 DEF Publish, TypeOK, SlotType
      <4> QED BY <1>2, <1>4, <3>1, <4>1 DEF OwnInv, SlotTells, RunsGoOn
    <3>3. CASE slot[h].token # t
      BY <1>4, <2>1, <3>3, SlotsKept DEF Publish, SlotKept
    <3> QED BY <3>2, <3>3
  <2>2. CASE Reply(t) \/ Record(t)
    BY <1>4, <2>2, SlotsKept DEF Reply, Record, SlotKept
  <2> QED BY <2>1, <2>2
<1> QED BY <1>5, <1>7, <1>8, <1>9 DEF OwnInv

\* The other users of the slot take the token away, or leave a status that
\* tells nothing.
LEMMA OwnSlotSteps ==
    ASSUME TypeOK, OwnInv, NEW h \in Hosts,
           ScrapeStarts(h) \/ ScrapeEnds(h) \/ OtpSubmitted(h)
    PROVE  OwnInv'
<1>1. UNCHANGED <<runs, outcomes, drainer, now>>
  BY DEF ScrapeStarts, ScrapeEnds, OtpSubmitted
<1>2. RunsGoOn /\ EndsAreFinal' /\ RunIsOwn' /\ VerdictIsOwn' /\ RecordsTell'
  BY <1>1 DEF RunsGoOn, OwnInv, EndsAreFinal, RunIsOwn, VerdictIsOwn,
              RecordsTell, Unfinished, Tokens
<1>3. slot[h] \in SlotType
  BY DEF TypeOK
<1>4. \A g \in Hosts : SlotKept(g)
  BY <1>3 DEF ScrapeStarts, ScrapeEnds, OtpSubmitted, SlotKept, SlotType, TypeOK
<1> QED BY <1>2, <1>4, SlotsKept DEF OwnInv

\* A crash forgets the slot, the records and the drainers of one host, and
\* kills its runs without giving them an end.
LEMMA OwnCrash ==
    ASSUME TypeOK, OwnInv, NEW h \in Hosts, Crash(h)
    PROVE  OwnInv'
<1>1. /\ Tokens' = Tokens /\ now' = now
      /\ \A t \in Tokens : \/ runs'[t] = runs[t]
                           \/ runs'[t] = [runs[t] EXCEPT !.pc = "killed"]
  BY DEF Crash, Tokens
<1>2. \A t \in Tokens : /\ runs'[t].id = runs[t].id
                        /\ runs'[t].outcome = runs[t].outcome
                        /\ Unfinished(t)' => Unfinished(t)
  BY <1>1, RunFields DEF RunType, Unfinished
<1>3. RunsGoOn /\ EndsAreFinal'
  BY <1>1, <1>2 DEF RunsGoOn, OwnInv, EndsAreFinal
<1>4. \A e \in Drainers : DrainerKept(e)
  BY IdleIsTyped DEF Crash, DrainerKept
<1>5. \A g \in Hosts : outcomes'[g] \subseteq outcomes[g] /\ SlotKept(g)
  BY DEF Crash, SlotKept, FreeSlot, TypeOK
<1> QED BY <1>1, <1>3, <1>4, <1>5, RunIsOwnKept, VerdictKept, RecordsKept,
           SlotsKept DEF OwnInv

\* The invariant is inductive.
LEMMA OwnNext ==
    ASSUME TypeOK, OwnInv, [Next]_vars
    PROVE  OwnInv'
<1>1. ASSUME NEW item \in Items, NEW body \in Bodies,
             SendClicked(item, body) \/ Drafted(item, body)
      PROVE  OwnInv'
  BY <1>1, RunnerUntouched DEF SendClicked, Drafted, DrainerKept
<1>2. ASSUME NEW i \in Ids, Retry(i) \/ Cancel(i) \/ \E body \in Bodies : Approve(i, body)
      PROVE  OwnInv'
  BY <1>2, RunnerUntouched DEF Retry, Cancel, Approve, DrainerKept
<1>3. ASSUME NEW d \in Drainers, \E i \in Ids : Pick(d, i)
      PROVE  OwnInv'
  <2>1. /\ UNCHANGED runner /\ now' = now
        /\ \A e \in Drainers \ {d} : drainer'[e] = drainer[e]
        /\ drainer'[d].pc = "picked"
    BY <1>3 DEF Pick, TypeOK, DrainerType
  <2> QED BY <2>1 DEF OwnInv, EndsAreFinal, RunIsOwn, RecordsTell, SlotTells,
                      VerdictIsOwn, Unfinished, runner, Tokens
<1>4. ASSUME NEW d \in Drainers, Claim(d) \/ Busy(d)
      PROVE  OwnInv'
  <2>1. /\ UNCHANGED runner /\ now' = now
        /\ \A e \in Drainers \ {d} : drainer'[e] = drainer[e]
        /\ drainer'[d].pc \notin {"waiting", "settling"}
    BY <1>4, IdleIsTyped DEF Claim, Busy, TypeOK, DrainerType
  <2> QED BY <2>1 DEF OwnInv, EndsAreFinal, RunIsOwn, RecordsTell, SlotTells,
                      VerdictIsOwn, Unfinished, runner, Tokens
<1>5. ASSUME NEW d \in Drainers, GiveBack(d) \/ Settle(d) \/ Raises(d)
      PROVE  OwnInv'
  <2>1. UNCHANGED runner /\ now' = now /\ \A e \in Drainers : DrainerKept(e)
    BY <1>5, IdleIsTyped DEF GiveBack, Settle, Raises, DrainerKept, TypeOK
  <2> QED BY <2>1, RunnerUntouched
<1>6. ASSUME NEW p \in Reclaimers,
             \/ ReclaimReads(p)
             \/ \E i \in Ids, v \in Verdicts : ReclaimWrites(p, i, v)
      PROVE  OwnInv'
  BY <1>6, RunnerUntouched DEF ReclaimReads, ReclaimWrites, DrainerKept
<1>7. ASSUME Tick \/ UNCHANGED vars
      PROVE  OwnInv'
  BY <1>7, RunnerUntouched DEF Tick, vars, runner, DrainerKept
<1> QED BY <1>1, <1>2, <1>3, <1>4, <1>5, <1>6, <1>7, OwnDispatch, OwnPoll,
           OwnTimeOut, OwnRunSteps, OwnSlotSteps, OwnCrash DEF Next

\* What send_next stores is how the run it started ended, for the message it
\* started it for, whoever used the slot in between and however many sends
\* and scrapes share a runner; only the deadline overrides it.
THEOREM VerdictsAreOwn == Spec => []VerdictIsOwn
<1>1. TypeOK /\ OwnInv /\ [Next]_vars => OwnInv'
  BY OwnNext
<1>2. OwnInv => VerdictIsOwn
  BY DEF OwnInv
<1> QED BY OwnInit, <1>1, <1>2, TypeCorrect, PTL DEF Spec

\* A held row is stamped with its claim, and what a reclaim pass has read
\* stays true until the pass writes it: the reasons for ClaimExclusive.
THEOREM ClaimInvariantHolds ==
    ASSUME SoleReclaimer
    PROVE  Spec => []ClaimInvariant
<1>1. SafeInv /\ [Next]_vars => SafeInv'
  BY SafeNext
<1>2. SafeInv => ClaimInvariant
  BY DEF SafeInv
<1> QED BY SafeInit, <1>1, <1>2, PTL DEF Spec

-----------------------------------------------------------------------------
(* Delivery implements Lifecycle.  Three of the promises need more than    *)
(* the guard of the statement that is executed: `sent` is written with no  *)
(* guard at all, and is `sent` from `sending` only because the claim is    *)
(* exclusive, and of a message the guest has only because the verdict is   *)
(* the drainer's own; and a browser is given a message only while it is    *)
(* `sending`, again because of the claim.                                  *)

Phase   == [i \in Ids |-> outbox[i].status]
Handed  == {runs[t].id : t \in Tokens}
Written == {runs[t].id : t \in {u \in Tokens : runs[u].landed}}

\* With the platform channel on, a run that ends well has reached the guest.
DoneHasLanded ==
    \A t \in Tokens :
        runs[t].pc = "replied" \/ runs[t].outcome = "done" => runs[t].landed

\* The step taken by one message, as the abstract actions see it.
LEMMA PhaseOfWrite ==
    ASSUME OutboxTypeOK, NEW i \in Ids, Rewritten(i)
    PROVE  Phase' = [Phase EXCEPT ![i] = outbox'[i].status]
BY DEF Phase, Rewritten

LEMMA PhaseOfAdd ==
    ASSUME OutboxTypeOK, NEW item \in Items, NEW body \in Bodies,
           NEW auto \in BOOLEAN, NEW at \in Nat, Add(item, body, auto, at)
    PROVE  \E s \in {Pending, Queued} : Phase' = Append(Phase, s)
<1> DEFINE n == Len(outbox)
           s == outbox'[n + 1].status
<1>1. /\ n \in Nat /\ Ids = 1..n /\ Ids' = 1..(n + 1)
      /\ Len(outbox') = n + 1
      /\ \A j \in Ids : outbox'[j] = outbox[j]
      /\ s \in {Pending, Queued}
  BY AddRow DEF OutboxTypeOK, Ids
<1>2. Phase \in Seq({s} \cup {outbox[i].status : i \in Ids}) /\ Len(Phase) = n
  BY <1>1 DEF Phase
<1>3. Phase' = [i \in 1..(n + 1) |-> outbox'[i].status]
  BY <1>1 DEF Phase
<1>4. Append(Phase, s) = [i \in 1..(n + 1) |-> IF i = n + 1 THEN s ELSE Phase[i]]
  BY <1>1, <1>2
<1>5. \A i \in 1..(n + 1) :
         outbox'[i].status = IF i = n + 1 THEN s ELSE Phase[i]
  BY <1>1 DEF Phase
<1>6. Phase' = Append(Phase, s)
  BY <1>3, <1>4, <1>5
<1> QED BY <1>1, <1>6

\* A step that leaves the runs alone hands nothing over and reaches nobody.
LEMMA RunsUntouched ==
    ASSUME UNCHANGED runs
    PROVE  UNCHANGED <<Handed, Written>>
BY DEF Handed, Written, Tokens

\* So does one that moves a run on without reaching the guest.
LEMMA RunsMoveOn ==
    ASSUME Tokens' = Tokens,
           \A t \in Tokens : runs'[t].id = runs[t].id /\ runs'[t].landed = runs[t].landed
    PROVE  UNCHANGED <<Handed, Written>>
BY DEF Handed, Written

LEMMA LandedRunSteps ==
    ASSUME PlatformOn, TypeOK, DoneHasLanded, NEW t \in Tokens,
           Reply(t) \/ Record(t) \/ Publish(t)
    PROVE  DoneHasLanded'
<1>1. runs \in Seq(RunType) /\ runs[t] \in RunType
  BY RunFields DEF TypeOK
<1>2. CASE Reply(t)
  <2>1. /\ Tokens' = Tokens
        /\ \A u \in Tokens \ {t} : runs'[u] = runs[u]
        /\ runs'[t].landed
    <3>1. runs' = [runs EXCEPT ![t].pc = "replied", ![t].landed = TRUE]
      BY <1>2 DEF Reply
    <3> QED BY <1>1, <3>1 DEF Tokens, RunType
  <2> QED BY <2>1 DEF DoneHasLanded
<1>3. CASE Record(t)
  <2>1. PICK end \in {"done", "error"} :
            /\ runs' = [runs EXCEPT ![t].pc = "recorded", ![t].outcome = end]
            /\ end = "done" => runs[t].pc = "replied"
    BY <1>3 DEF Record
  <2>2. /\ Tokens' = Tokens
        /\ \A u \in Tokens \ {t} : runs'[u] = runs[u]
        /\ runs'[t].pc = "recorded" /\ runs'[t].outcome = end
        /\ runs'[t].landed = runs[t].landed
    BY <1>1, <2>1 DEF Tokens, RunType
  <2> QED BY <2>1, <2>2 DEF DoneHasLanded
<1>4. CASE Publish(t)
  <2>1. runs' = [runs EXCEPT ![t].pc = "ended"]
    BY <1>4 DEF Publish
  <2>2. /\ Tokens' = Tokens
        /\ \A u \in Tokens \ {t} : runs'[u] = runs[u]
        /\ runs'[t].pc = "ended" /\ runs'[t].outcome = runs[t].outcome
        /\ runs'[t].landed = runs[t].landed
    BY <1>1, <2>1 DEF Tokens, RunType
  <2> QED BY <2>2 DEF DoneHasLanded
<1> QED BY <1>2, <1>3, <1>4

LEMMA LandedNext ==
    ASSUME PlatformOn, TypeOK, DoneHasLanded, [Next]_vars
    PROVE  DoneHasLanded'
<1>1. CASE UNCHANGED runs
  BY <1>1 DEF DoneHasLanded, Tokens
<1>2. ASSUME NEW d \in Drainers, Dispatch(d)
      PROVE  DoneHasLanded'
  <2>1. /\ Tokens' = Tokens \cup {Len(runs) + 1}
        /\ \A u \in Tokens : runs'[u] = runs[u]
        /\ runs'[Len(runs) + 1].pc = "browsing"
        /\ runs'[Len(runs) + 1].outcome = "none"
    BY <1>2 DEF Dispatch, Tokens, TypeOK
  <2> QED BY <2>1 DEF DoneHasLanded
<1>3. ASSUME NEW h \in Hosts, Crash(h)
      PROVE  DoneHasLanded'
  <2>1. Tokens' = Tokens /\ \A t \in Tokens : runs[t] \in RunType
    BY <1>3, RunFields DEF Crash, Tokens
  <2>2. \A t \in Tokens : \/ runs'[t] = runs[t]
                          \/ runs'[t] = [runs[t] EXCEPT !.pc = "killed"]
    BY <1>3 DEF Crash
  <2> QED BY <2>1, <2>2 DEF DoneHasLanded, RunType
<1>4. ASSUME NEW t \in Tokens, Reply(t) \/ Record(t) \/ Publish(t)
      PROVE  DoneHasLanded'
  BY <1>4, LandedRunSteps
<1>5. ASSUME NEW d \in Drainers, \/ \E i \in Ids : Pick(d, i)
                                 \/ Claim(d) \/ Busy(d) \/ GiveBack(d) \/ Poll(d)
                                 \/ TimeOut(d) \/ Settle(d) \/ Raises(d)
      PROVE  DoneHasLanded'
  BY <1>1, <1>5 DEF Pick, Claim, Busy, GiveBack, Poll, TimeOut, Settle, Raises, runner
<1>6. ASSUME NEW h \in Hosts, ScrapeStarts(h) \/ ScrapeEnds(h) \/ OtpSubmitted(h)
      PROVE  DoneHasLanded'
  BY <1>1, <1>6 DEF ScrapeStarts, ScrapeEnds, OtpSubmitted
<1>7. ASSUME NEW p \in Reclaimers,
             \/ ReclaimReads(p)
             \/ \E i \in Ids, v \in Verdicts : ReclaimWrites(p, i, v)
      PROVE  DoneHasLanded'
  BY <1>1, <1>7 DEF ReclaimReads, ReclaimWrites, runner
<1>8. ASSUME \/ Tick \/ UNCHANGED vars
             \/ \E item \in Items, body \in Bodies :
                   SendClicked(item, body) \/ Drafted(item, body)
             \/ \E i \in Ids : Retry(i) \/ Cancel(i)
             \/ \E i \in Ids, body \in Bodies : Approve(i, body)
      PROVE  DoneHasLanded'
  BY <1>1, <1>8 DEF Tick, vars, SendClicked, Drafted, Retry, Cancel, Approve, runner
<1> QED BY <1>2, <1>3, <1>4, <1>5, <1>6, <1>7, <1>8 DEF Next

\* A write of one row is the abstract step that moves the message between the
\* same two states.
LEMMA MoveOfWrite ==
    ASSUME OutboxTypeOK, NEW i \in Ids, Rewritten(i), UNCHANGED runs,
           NEW from, outbox[i].status \in from,
           NEW to, outbox'[i].status = to
    PROVE  Promise!Move(i, from, to)
<1>1. UNCHANGED <<Handed, Written>>
  BY RunsUntouched
<1>2. Phase' = [Phase EXCEPT ![i] = outbox'[i].status] /\ Phase[i] = outbox[i].status
  BY PhaseOfWrite DEF Phase
<1> QED BY <1>1, <1>2 DEF Promise!Move, Phase, Handed, Written

\* A step that shows nothing of itself to the abstract specification.
LEMMA NothingSeen ==
    ASSUME UNCHANGED outbox, UNCHANGED <<Handed, Written>>
    PROVE  UNCHANGED Promise!lifecycleVars
BY DEF Promise!lifecycleVars, Handed, Written, Ids

LEMMA PromiseInit == Init => Promise!Init
<1> SUFFICES ASSUME Init PROVE Promise!Init
  OBVIOUS
<1>1. Tokens = {}
  BY DEF Init, Tokens
<1>2. outbox = <<>> \/ (Len(outbox) = 1 /\ Ids = 1..1 /\ outbox[1].status = Sending)
  BY DEF Init, OutboxInit, Ids
<1>3. Phase = <<>> \/ Phase = <<"sending">>
  BY <1>2 DEF Phase, Ids, Sending
<1> QED BY <1>1, <1>3 DEF Promise!Init, Phase, Handed, Written

\* Every step is a step of the lifecycle, or one it does not see.
LEMMA PromiseNext ==
    ASSUME PlatformOn, SafeInv, OwnInv, DoneHasLanded, [Next]_vars
    PROVE  [Promise!Next]_(Promise!lifecycleVars)
<1> DEFINE Goal == Promise!Next \/ UNCHANGED Promise!lifecycleVars
<1>0. TypeOK /\ OutboxTypeOK /\ Promise!Messages = Ids
  BY DEF SafeInv, TypeOK, Promise!Messages
<1>a. ASSUME NEW item \in Items, NEW body \in Bodies, NEW auto \in BOOLEAN,
             NEW at \in Nat, Add(item, body, auto, at), UNCHANGED runs
      PROVE  Goal
  <2>1. PICK s \in {Pending, Queued} : Phase' = Append(Phase, s)
    BY <1>0, <1>a, PhaseOfAdd
  <2>2. UNCHANGED <<Handed, Written>>
    BY <1>a, RunsUntouched
  <2>3. Promise!Draft
    BY <2>1, <2>2 DEF Promise!Draft, Phase, Handed, Written, Pending, Queued
  <2> QED BY <2>3 DEF Promise!Next
<1>b. ASSUME UNCHANGED <<outbox, runs>>
      PROVE  Goal
  BY <1>b, RunsUntouched, NothingSeen
<1>1. ASSUME NEW item \in Items, NEW body \in Bodies,
             SendClicked(item, body) \/ Drafted(item, body)
      PROVE  Goal
  <2>1. CASE SendClicked(item, body)
    BY <1>0, <1>a, <2>1 DEF SendClicked, AddGuarded, OutboxTypeOK, runner
  <2>2. CASE Drafted(item, body)
    <3>1. PICK auto \in {FALSE, AutoArmed}, delay \in Delays :
              Add(item, body, auto, now + delay)
      BY <2>2 DEF Drafted
    <3>2. auto \in BOOLEAN
      BY <3>1, DeliveryAssumption
    <3>3. now + delay \in Nat
      BY <1>0, DeliveryAssumption DEF OutboxTypeOK
    <3> QED BY <1>a, <2>2, <3>1, <3>2, <3>3 DEF Drafted, runner
  <2> QED BY <1>1, <2>1, <2>2
<1>2. ASSUME NEW i \in Ids, NEW body \in Bodies, NEW from \in SUBSET Approvable,
             Release(i, from, body), UNCHANGED runs
      PROVE  Goal
  <2>1. Rewritten(i) /\ outbox'[i].status = Queued
        /\ outbox[i].status \in {Pending, Failed}
    BY <1>0, <1>2, ReleaseWrites DEF Release, Approvable
  <2>2. Promise!Move(i, {Pending, Failed}, Queued)
    BY <1>0, <1>2, <2>1, MoveOfWrite
  <2>3. Promise!Approve(i)
    BY <2>2 DEF Promise!Approve, Pending, Failed, Queued
  <2> QED BY <1>0, <2>3 DEF Promise!Next
<1>3. ASSUME NEW i \in Ids, Retry(i) \/ \E body \in Bodies : Approve(i, body)
      PROVE  Goal
  BY <1>0, <1>2, <1>3, RowFields DEF Retry, Approve, Approvable, runner
<1>4. ASSUME NEW i \in Ids, Cancel(i)
      PROVE  Goal
  <2>1. Rewritten(i) /\ outbox'[i].status = Canceled /\ UNCHANGED runs
    BY <1>0, <1>4, CancelWrites DEF Cancel, runner
  <2>2. CASE outbox[i].status = Canceled
    <3>1. Phase' = [Phase EXCEPT ![i] = outbox[i].status] /\ Phase[i] = outbox[i].status
      BY <1>0, <2>1, <2>2, PhaseOfWrite DEF Phase
    <3>2. Phase' = Phase
      BY <3>1 DEF Phase
    <3>3. UNCHANGED <<Handed, Written>>
      BY <2>1, RunsUntouched
    <3> QED BY <3>2, <3>3 DEF Promise!lifecycleVars, Phase, Handed, Written
  <2>3. CASE outbox[i].status \in {Pending, Queued, Failed}
    <3>1. Promise!Move(i, {Pending, Queued, Failed}, Canceled)
      BY <1>0, <2>1, <2>3, MoveOfWrite
    <3>2. Promise!CallOff(i)
      BY <3>1 DEF Promise!CallOff, Pending, Queued, Failed, Canceled
    <3> QED BY <1>0, <3>2 DEF Promise!Next
  <2> QED BY <1>4, <2>2, <2>3 DEF Cancel, CancelRow, Cancelable
<1>5. ASSUME NEW d \in Drainers, Claim(d)
      PROVE  Goal
  <2>0. PICK i \in Ids : i = drainer[d].id
    BY <1>0, <1>5 DEF Claim, TypeOK
  <2>1. UNCHANGED runs
    BY <1>5 DEF Claim, runner
  <2>2. CASE ClaimRow(i)
    <3>1. Promise!Move(i, {Queued}, Sending)
      BY <1>0, <2>1, <2>2, ClaimWrites, MoveOfWrite
    <3>2. Promise!Claim(i)
      BY <3>1 DEF Promise!Claim, Queued, Sending
    <3> QED BY <1>0, <3>2 DEF Promise!Next
  <2>3. CASE UNCHANGED outbox
    BY <1>b, <2>1, <2>3
  <2> QED BY <1>5, <2>0, <2>2, <2>3 DEF Claim
<1>6. ASSUME NEW d \in Drainers, GiveBack(d)
      PROVE  Goal
  <2>0. PICK i \in Ids : i = drainer[d].id
    BY <1>0, <1>6 DEF GiveBack, TypeOK
  <2>1. UNCHANGED runs /\ ReleaseUnattempted(i)
    BY <1>6, <2>0 DEF GiveBack, runner
  <2>2. CASE UNCHANGED outbox
    BY <1>b, <2>1, <2>2
  <2>3. CASE /\ Rewritten(i)
             /\ outbox[i].status = Sending
             /\ outbox'[i].status = Queued
    <3>1. Promise!Move(i, {Sending}, Queued)
      BY <1>0, <2>1, <2>3, MoveOfWrite
    <3>2. Promise!Requeue(i)
      BY <3>1 DEF Promise!Requeue, Queued, Sending
    <3> QED BY <1>0, <3>2 DEF Promise!Next
  <2> QED BY <1>0, <2>1, <2>2, <2>3, GiveBackWrites
<1>7. ASSUME NEW d \in Drainers, Dispatch(d)
      PROVE  Goal
  <2> DEFINE t == Len(runs) + 1
  <2>0. PICK i \in Ids : i = drainer[d].id
    BY <1>0, <1>7 DEF Dispatch, TypeOK
  <2>1. outbox[i].status = Sending /\ UNCHANGED outbox
    BY <1>0, <1>7, <2>0 DEF Dispatch, SafeInv, ClaimIsExclusive, Holds, table
  <2>2. /\ Tokens' = Tokens \cup {t} /\ t \notin Tokens
        /\ \A u \in Tokens : runs'[u] = runs[u]
        /\ runs'[t].id = i /\ ~ runs'[t].landed
    BY <1>0, <1>7, <2>0 DEF Dispatch, Tokens, TypeOK
  <2>3. Handed' = Handed \cup {i} /\ Written' = Written
    BY <2>2 DEF Handed, Written
  <2>4. Phase' = Phase /\ Phase[i] = "sending"
    BY <2>1 DEF Phase, Ids, Sending
  <2>5. Promise!HandOver(i)
    BY <2>3, <2>4 DEF Promise!HandOver, Phase, Handed, Written
  <2> QED BY <1>0, <2>1, <2>5 DEF Promise!Next
<1>8. ASSUME NEW d \in Drainers, Settle(d)
      PROVE  Goal
  <2>0. PICK i \in Ids, v \in {Sent, Failed} :
            i = drainer[d].id /\ v = drainer[d].verdict
    BY <1>0, <1>8, DrainerFields DEF Settle, TypeOK
  <2>1. /\ UNCHANGED runs /\ SettleRow(i, v)
        /\ v \in Statuses
        /\ outbox[i].status = Sending
    BY <1>8, <2>0 DEF Settle, runner, SafeInv, ClaimIsExclusive, Holds, Statuses
  <2>2. Rewritten(i) /\ outbox'[i].status = v
    BY <1>0, <2>1, SettleWrites
  <2>3. CASE v = Failed
    <3>1. Promise!Move(i, {Sending}, Failed)
      BY <1>0, <2>1, <2>2, <2>3, MoveOfWrite
    <3>2. Promise!Fail(i)
      BY <3>1 DEF Promise!Fail, Failed, Sending
    <3> QED BY <1>0, <3>2 DEF Promise!Next
  <2>4. CASE v = Sent
    <3>1. /\ drainer[d].token \in Tokens
          /\ runs[drainer[d].token].id = i
          /\ runs[drainer[d].token].outcome = "done"
      BY <1>8, <2>0, <2>4
         DEF Settle, OwnInv, RunIsOwn, VerdictIsOwn, Sent, Failed
    <3>2. i \in Written
      BY <3>1 DEF DoneHasLanded, Written
    <3>3. Promise!Move(i, {Sending}, Sent)
      BY <1>0, <2>1, <2>2, <2>4, MoveOfWrite
    <3>4. Promise!Succeed(i)
      BY <3>2, <3>3 DEF Promise!Succeed, Written, Sent, Sending
    <3> QED BY <1>0, <3>4 DEF Promise!Next
  <2> QED BY <2>1, <2>3, <2>4
<1>9. ASSUME NEW t \in Tokens, Reply(t)
      PROVE  Goal
  <2>1. runs \in Seq(RunType) /\ runs[t] \in RunType
    BY <1>0, <1>9, RunFields DEF TypeOK
  <2>2. runs' = [runs EXCEPT ![t].pc = "replied", ![t].landed = TRUE]
    BY <1>9 DEF Reply
  <2>3. /\ Tokens' = Tokens
        /\ \A u \in Tokens \ {t} : runs'[u] = runs[u]
        /\ runs'[t].id = runs[t].id /\ runs'[t].landed
    BY <2>1, <2>2 DEF Tokens, RunType
  <2>4. Handed' = Handed /\ Written' = Written \cup {runs[t].id}
    BY <2>3 DEF Handed, Written
  <2>5. UNCHANGED outbox
    BY <1>9 DEF Reply, table
  <2>6. PICK i \in Handed : i = runs[t].id
    BY DEF Handed
  <2>7. Promise!Reach(i)
    BY <2>4, <2>5, <2>6 DEF Promise!Reach, Handed, Written, Ids
  <2> QED BY <2>7 DEF Promise!Next, Handed
<1>10. ASSUME NEW t \in Tokens, Record(t) \/ Publish(t)
       PROVE  Goal
  <2>1. runs \in Seq(RunType) /\ runs[t] \in RunType
    BY <1>0, <1>10, RunFields DEF TypeOK
  <2>2. /\ Tokens' = Tokens
        /\ \A u \in Tokens : runs'[u].id = runs[u].id /\ runs'[u].landed = runs[u].landed
    <3>1. CASE Record(t)
      <4>1. PICK end \in {"done", "error"} :
                runs' = [runs EXCEPT ![t].pc = "recorded", ![t].outcome = end]
        BY <3>1 DEF Record
      <4> QED BY <2>1, <4>1 DEF Tokens, RunType
    <3>2. CASE Publish(t)
      BY <2>1, <3>2 DEF Publish, Tokens, RunType
    <3> QED BY <1>10, <3>1, <3>2
  <2> QED BY <1>10, <2>2, RunsMoveOn, NothingSeen DEF Record, Publish, table
<1>11. ASSUME NEW h \in Hosts, Crash(h)
       PROVE  Goal
  <2>1. Tokens' = Tokens /\ \A t \in Tokens : runs[t] \in RunType
    BY <1>0, <1>11, RunFields DEF Crash, Tokens
  <2>2. \A t \in Tokens : \/ runs'[t] = runs[t]
                          \/ runs'[t] = [runs[t] EXCEPT !.pc = "killed"]
    BY <1>11 DEF Crash
  <2>3. \A t \in Tokens : runs'[t].id = runs[t].id /\ runs'[t].landed = runs[t].landed
    BY <2>1, <2>2 DEF RunType
  <2> QED BY <1>11, <2>1, <2>3, RunsMoveOn, NothingSeen DEF Crash, table
<1>12. ASSUME NEW p \in Reclaimers, NEW i \in Ids, NEW v \in Verdicts,
              ReclaimWrites(p, i, v)
       PROVE  Goal
  <2>1. UNCHANGED runs /\ outbox[i].status = Sending
    BY <1>12 DEF ReclaimWrites, runner, SafeInv, ClaimInvariant, SnapshotIsStuck
  <2>2. Rewritten(i) /\ outbox'[i].status \in {Sending, Queued, Failed}
    BY <1>0, <1>12, <2>1, ReclaimRowWrites DEF ReclaimWrites
  <2>3. CASE outbox'[i].status = Sending
    <3>1. Phase' = [Phase EXCEPT ![i] = outbox[i].status] /\ Phase[i] = outbox[i].status
      BY <1>0, <2>1, <2>2, <2>3, PhaseOfWrite DEF Phase
    <3>2. Phase' = Phase
      BY <3>1 DEF Phase
    <3>3. UNCHANGED <<Handed, Written>>
      BY <2>1, RunsUntouched
    <3> QED BY <3>2, <3>3 DEF Promise!lifecycleVars, Phase, Handed, Written
  <2>4. CASE outbox'[i].status = Queued
    <3>1. Promise!Move(i, {Sending}, Queued)
      BY <1>0, <2>1, <2>2, <2>4, MoveOfWrite
    <3>2. Promise!Requeue(i)
      BY <3>1 DEF Promise!Requeue, Queued, Sending
    <3> QED BY <1>0, <3>2 DEF Promise!Next
  <2>5. CASE outbox'[i].status = Failed
    <3>1. Promise!Move(i, {Sending}, Failed)
      BY <1>0, <2>1, <2>2, <2>5, MoveOfWrite
    <3>2. Promise!Fail(i)
      BY <3>1 DEF Promise!Fail, Failed, Sending
    <3> QED BY <1>0, <3>2 DEF Promise!Next
  <2> QED BY <2>2, <2>3, <2>4, <2>5
<1>13. ASSUME NEW d \in Drainers, \/ \E i \in Ids : Pick(d, i)
                                  \/ Busy(d) \/ Poll(d) \/ TimeOut(d) \/ Raises(d)
       PROVE  Goal
  BY <1>b, <1>13 DEF Pick, Busy, Poll, TimeOut, Raises, table, runner
<1>14. ASSUME NEW h \in Hosts, ScrapeStarts(h) \/ ScrapeEnds(h) \/ OtpSubmitted(h)
       PROVE  Goal
  BY <1>b, <1>14 DEF ScrapeStarts, ScrapeEnds, OtpSubmitted, table
<1>15. ASSUME \/ Tick \/ UNCHANGED vars
              \/ \E p \in Reclaimers : ReclaimReads(p)
       PROVE  Goal
  BY <1>b, <1>15 DEF Tick, vars, ReclaimReads, table, runner
<1> QED BY <1>1, <1>3, <1>4, <1>5, <1>6, <1>7, <1>8, <1>9, <1>10, <1>11, <1>12,
           <1>13, <1>14, <1>15 DEF Next

\* Delivery implements Lifecycle, for any number of hosts, drainers and
\* messages, when a reply on the platform is among the tenant's channels and
\* reclaim passes do not overlap.
THEOREM ImplementsLifecycle ==
    ASSUME SoleReclaimer, PlatformOn
    PROVE  Spec => LifecycleSpec
<1>1. SafeInv /\ [Next]_vars => SafeInv'
  BY SafeNext
<1>2. SafeInv => TypeOK
  BY DEF SafeInv
<1>3. TypeOK /\ OwnInv /\ [Next]_vars => OwnInv'
  BY OwnNext
<1>4. Init => DoneHasLanded
  BY DEF Init, DoneHasLanded, Tokens
<1>5. TypeOK /\ DoneHasLanded /\ [Next]_vars => DoneHasLanded'
  BY LandedNext
<1>6. SafeInv /\ OwnInv /\ DoneHasLanded /\ [Next]_vars
      => [Promise!Next]_(Promise!lifecycleVars)
  BY PromiseNext
<1> QED BY SafeInit, OwnInit, PromiseInit, <1>1, <1>2, <1>3, <1>4, <1>5, <1>6, PTL
        DEF Spec, LifecycleSpec, Promise!Spec

-----------------------------------------------------------------------------
(* Resends are bounded.  Every claim is charged to the row before a run    *)
(* can start, and only a reclaim pass that has seen the charge below the   *)
(* limit, or a human, puts a row back in the queue.                        *)

Resends(i)   == Cardinality(RunsOf(i))
Claiming(d, i) == drainer[d].pc \in {"claimed", "refused"} /\ drainer[d].id = i

Charged(i) ==
    /\ Resends(i) <= outbox[i].attempts
    /\ outbox[i].attempts <= MaxSendAttempts + retries[i]
    /\ outbox[i].status = Queued => outbox[i].attempts < MaxSendAttempts + retries[i]
    /\ outbox[i].status = Pending => outbox[i].attempts = 0
    /\ \A d \in Drainers : Claiming(d, i) => Resends(i) < outbox[i].attempts
    /\ \A p \in Reclaimers :
           <<i, "requeue">> \in reclaim[p] => outbox[i].attempts < MaxSendAttempts

ChargeInv ==
    /\ Len(outbox) <= MaxRows
    /\ \A t \in Tokens : runs[t].id \in Ids
    /\ \A i \in Ids : Charged(i)

\* The runs of a message are finitely many, and one more after a dispatch.
LEMMA RunsAreFinite ==
    ASSUME TypeOK, NEW i
    PROVE  IsFiniteSet(RunsOf(i)) /\ Resends(i) \in Nat
<1>1. Tokens = 1..Len(runs) /\ Len(runs) \in Nat
  BY DEF TypeOK, Tokens
<1>2. IsFiniteSet(Tokens)
  BY <1>1, FS_Interval
<1>3. RunsOf(i) \subseteq Tokens
  BY DEF RunsOf
<1> QED BY <1>2, <1>3, FS_Subset, FS_CardinalityType DEF Resends

\* Steps that start no run count none.
LEMMA NoRunStarts ==
    ASSUME Tokens' = Tokens, \A t \in Tokens : runs'[t].id = runs[t].id
    PROVE  \A i : Resends(i)' = Resends(i)
BY DEF Resends, RunsOf

\* A step in which nobody writes the table, starts a run or makes a claim.
LEMMA ChargesKept ==
    ASSUME ChargeInv, UNCHANGED table,
           Tokens' = Tokens, \A t \in Tokens : runs'[t].id = runs[t].id,
           \A d \in Drainers, i \in Ids : Claiming(d, i)' => Claiming(d, i),
           \A p \in Reclaimers : reclaim'[p] \subseteq reclaim[p]
    PROVE  ChargeInv'
BY NoRunStarts DEF ChargeInv, Charged, table, Ids

\* A step that writes one row; the others are charged as they were.
LEMMA ChargeOne ==
    ASSUME ChargeInv, NEW i \in Ids, Rewritten(i), UNCHANGED runs,
           \A j \in Ids \ {i} : retries'[j] = retries[j],
           \A d \in Drainers, j \in Ids \ {i} : Claiming(d, j)' => Claiming(d, j),
           \A p \in Reclaimers : reclaim'[p] \subseteq reclaim[p],
           Charged(i)'
    PROVE  ChargeInv'
<1>1. Tokens' = Tokens /\ \A t \in Tokens : runs'[t].id = runs[t].id
  BY DEF Tokens
<1>2. \A j : Resends(j)' = Resends(j)
  BY <1>1, NoRunStarts
<1>3. \A j \in Ids \ {i} : Charged(j)'
  BY <1>2 DEF ChargeInv, Charged, Rewritten
<1> QED BY <1>1, <1>3 DEF ChargeInv, Rewritten

LEMMA ChargeInit ==
    ASSUME MaxRows # 0
    PROVE  Init => ChargeInv
<1> SUFFICES ASSUME Init PROVE ChargeInv
  OBVIOUS
<1>1. Tokens = {} /\ \A i : Resends(i) = 0
  BY FS_EmptySet DEF Init, Tokens, Resends, RunsOf
<1>2. \A d \in Drainers, i \in Ids : ~ Claiming(d, i)
  BY IdleIsTyped DEF Init, Claiming
<1>3. \A i \in Ids : i \in 1..MaxRows /\ outbox[i].attempts = 0 /\ outbox[i].status = Sending
  BY DeliveryAssumption DEF Init, OutboxInit, Ids
<1>4. \A i \in Ids : Charged(i)
  BY <1>1, <1>2, <1>3, OutboxAssumption, DeliveryAssumption
     DEF Charged, Init, Sending, Queued, Pending
<1>5. Len(outbox) <= MaxRows
  BY DeliveryAssumption DEF Init, OutboxInit
<1> QED BY <1>1, <1>4, <1>5 DEF ChargeInv

\* What the writes of a row charge to it: a claim one attempt, a refund one
\* less, and nothing else.
LEMMA AttemptsWritten ==
    ASSUME OutboxTypeOK, NEW i \in Ids
    PROVE  /\ \A from, body :
                 Release(i, from, body) => outbox'[i].attempts = outbox[i].attempts
           /\ ClaimRow(i) => outbox'[i].attempts = outbox[i].attempts + 1
           /\ ReleaseUnattempted(i) /\ outbox[i].status = Sending
                 /\ outbox[i].attempts > 0
              => outbox'[i].attempts = outbox[i].attempts - 1
           /\ \A status :
                 SettleRow(i, status) => outbox'[i].attempts = outbox[i].attempts
           /\ \A v \in Verdicts :
                 ReclaimRow(i, v) /\ outbox[i].status = Sending =>
                     /\ outbox'[i].attempts = outbox[i].attempts
                     /\ outbox'[i].status = Queued => v = "requeue"
<1>1. i \in DOMAIN outbox /\ outbox[i] \in Row /\ outbox \in Seq(Row)
  BY RowFields DEF OutboxTypeOK, Ids
<1>2. ASSUME NEW row, Write(i, row)
      PROVE  outbox'[i] = row
  BY <1>1, <1>2 DEF Write
<1>3. ASSUME NEW from, NEW body, Release(i, from, body)
      PROVE  outbox'[i].attempts = outbox[i].attempts
  <2> DEFINE row == [outbox[i] EXCEPT !.status = Queued, !.body = body,
                                      !.scheduledAt = Earlier(@, now)]
  <2>1. outbox'[i] = row
    BY <1>2, <1>3 DEF Release
  <2> QED BY <1>1, <2>1 DEF Row
<1>4. ASSUME ClaimRow(i)
      PROVE  outbox'[i].attempts = outbox[i].attempts + 1
  <2>1. outbox'[i] = [outbox[i] EXCEPT !.status = Sending, !.sendingAt = now,
                                       !.attempts = @ + 1]
    BY <1>2, <1>4 DEF ClaimRow
  <2> QED BY <1>1, <2>1 DEF Row
<1>5. ASSUME ReleaseUnattempted(i), outbox[i].status = Sending, outbox[i].attempts > 0
      PROVE  outbox'[i].attempts = outbox[i].attempts - 1
  <2>1. outbox'[i] = [outbox[i] EXCEPT !.status = Queued, !.sendingAt = NoStamp,
                          !.attempts = IF @ > 0 THEN @ - 1 ELSE 0]
    BY <1>2, <1>5 DEF ReleaseUnattempted
  <2> QED BY <1>1, <1>5, <2>1 DEF Row
<1>6. ASSUME NEW status, SettleRow(i, status)
      PROVE  outbox'[i].attempts = outbox[i].attempts
  <2>1. outbox'[i] = [outbox[i] EXCEPT !.status = status]
    BY <1>2, <1>6 DEF SettleRow
  <2> QED BY <1>1, <2>1 DEF Row
<1>7. ASSUME NEW v \in Verdicts, ReclaimRow(i, v), outbox[i].status = Sending
      PROVE  /\ outbox'[i].attempts = outbox[i].attempts
             /\ outbox'[i].status = Queued => v = "requeue"
  <2>1. CASE v = "restamp"
    <3>1. outbox'[i] = [outbox[i] EXCEPT !.sendingAt = now]
      BY <1>2, <1>7, <2>1 DEF ReclaimRow
    <3> QED BY <1>1, <1>7, <3>1 DEF Row, Sending, Queued
  <2>2. CASE v = "abandon"
    <3>1. outbox'[i] = [outbox[i] EXCEPT !.status = Failed]
      BY <1>2, <1>7, <2>2 DEF ReclaimRow
    <3> QED BY <1>1, <3>1 DEF Row, Failed, Queued
  <2>3. CASE v = "requeue"
    <3>1. outbox'[i] = [outbox[i] EXCEPT !.status = Queued]
      BY <1>2, <1>7, <2>3 DEF ReclaimRow
    <3> QED BY <1>1, <2>3, <3>1 DEF Row
  <2> QED BY <2>1, <2>2, <2>3 DEF Verdicts
<1> QED BY <1>3, <1>4, <1>5, <1>6, <1>7

\* What the charge of a row says in numbers.
LEMMA ChargeNumbers ==
    ASSUME TypeOK, ChargeInv, NEW i \in Ids
    PROVE  /\ Resends(i) \in Nat /\ outbox[i].attempts \in Nat
           /\ retries[i] \in Nat /\ i \in 1..MaxRows
           /\ MaxSendAttempts \in Nat /\ MaxSendAttempts > 0
           /\ Charged(i)
<1>1. i \in 1..MaxRows
  BY DeliveryAssumption DEF ChargeInv, TypeOK, OutboxTypeOK, Ids
<1>2. retries[i] \in Nat
  BY <1>1 DEF TypeOK
<1> QED BY <1>1, <1>2, RunsAreFinite, RowFields, OutboxAssumption DEF ChargeInv, TypeOK

\* A new row has cost nothing and been tried by nobody.
LEMMA ChargeAdded ==
    ASSUME TypeOK, ChargeInv, Len(outbox) < MaxRows,
           NEW item \in Items, NEW body \in Bodies, NEW auto \in BOOLEAN, NEW at \in Nat,
           Add(item, body, auto, at), UNCHANGED <<drainer, runner, reclaim, retries>>
    PROVE  ChargeInv'
<1>0. OutboxTypeOK /\ Len(outbox) \in Nat /\ Ids = 1..Len(outbox) /\ MaxRows \in Nat
  BY DeliveryAssumption DEF TypeOK, OutboxTypeOK, Ids
<1>a. PICK n \in Nat : n = Len(outbox) + 1
  BY <1>0
<1>b. /\ Ids' = Ids \cup {n} /\ Len(outbox') = n
      /\ \A j \in Ids : outbox'[j] = outbox[j]
  BY <1>0, <1>a, AddRow
<1>1. /\ Ids' = Ids \cup {n} /\ n \notin Ids /\ n \in 1..MaxRows
      /\ Len(outbox') = n
      /\ \A j \in Ids : outbox'[j] = outbox[j]
  BY <1>0, <1>a, <1>b
<1>2. outbox'[n].attempts = 0
  BY <1>0, <1>a DEF Add, OutboxTypeOK
<1>3. Tokens' = Tokens /\ \A t \in Tokens : runs'[t].id = runs[t].id
  BY DEF runner, Tokens
<1>4. \A i : Resends(i)' = Resends(i)
  BY <1>3, NoRunStarts
<1>5. Resends(n) = 0
  <2>1. RunsOf(n) = {}
    BY <1>1 DEF ChargeInv, RunsOf
  <2> QED BY <2>1, FS_EmptySet DEF Resends
<1>6. /\ \A d \in Drainers : ~ Claiming(d, n)
      /\ \A p \in Reclaimers : <<n, "requeue">> \notin reclaim[p]
  BY <1>1 DEF TypeOK, Claiming
<1>7. retries[n] \in Nat /\ MaxSendAttempts \in Nat \ {0}
  BY <1>1, OutboxAssumption DEF TypeOK
<1>8. Charged(n)'
  BY <1>2, <1>4, <1>5, <1>6, <1>7 DEF Charged, Claiming, runner
<1>9. \A i \in Ids : Charged(i)'
  BY <1>1, <1>4 DEF ChargeInv, Charged, Claiming
<1> QED BY <1>1, <1>3, <1>8, <1>9 DEF ChargeInv

\* A human's release is charged to `retries` when the row had failed, and
\* finds an untried row otherwise.
LEMMA ChargeReleased ==
    ASSUME TypeOK, ClaimIsExclusive, SnapshotIsStuck, ChargeInv,
           NEW i \in Ids, NEW from \in SUBSET Approvable, NEW body \in Bodies,
           Release(i, from, body),
           retries' = IF outbox[i].status = Failed
                      THEN [retries EXCEPT ![i] = @ + 1] ELSE retries,
           UNCHANGED <<drainer, runner, reclaim>>
    PROVE  ChargeInv'
<1>0. OutboxTypeOK
  BY DEF TypeOK
<1>1. Rewritten(i) /\ outbox'[i].status = Queued /\ outbox[i].status \in {Pending, Failed}
  BY <1>0, ReleaseWrites DEF Release, Approvable
<1>2. outbox'[i].attempts = outbox[i].attempts
  BY <1>0, AttemptsWritten
<1>3. Tokens' = Tokens /\ (\A t \in Tokens : runs'[t].id = runs[t].id) /\ UNCHANGED runs
  BY DEF runner, Tokens
<1>4. Resends(i)' = Resends(i)
  BY <1>3, NoRunStarts
<1>5. /\ \A d \in Drainers : ~ Claiming(d, i)
      /\ \A p \in Reclaimers : <<i, "requeue">> \notin reclaim[p]
  BY <1>1 DEF ClaimIsExclusive, SnapshotIsStuck, Claiming, Holds,
              Pending, Failed, Sending
<1>6. /\ retries'[i] = IF outbox[i].status = Failed THEN retries[i] + 1 ELSE retries[i]
      /\ \A j \in Ids \ {i} : retries'[j] = retries[j]
  BY ChargeNumbers DEF TypeOK
<1>7. outbox[i].attempts < MaxSendAttempts + retries'[i]
  <2>1. /\ outbox[i].attempts <= MaxSendAttempts + retries[i]
        /\ outbox[i].status = Pending => outbox[i].attempts = 0
    BY DEF ChargeInv, Charged
  <2>2. /\ outbox[i].attempts \in Nat /\ retries[i] \in Nat
        /\ MaxSendAttempts \in Nat /\ MaxSendAttempts > 0
    BY ChargeNumbers
  <2>3. CASE outbox[i].status = Failed
    <3>1. retries'[i] = retries[i] + 1
      BY <1>6, <2>3
    <3> QED BY <2>1, <2>2, <3>1
  <2>4. CASE outbox[i].status = Pending
    <3>1. retries'[i] = retries[i]
      BY <1>6, <2>4 DEF Pending, Failed
    <3> QED BY <2>1, <2>2, <2>4, <3>1
  <2> QED BY <1>1, <2>3, <2>4
<1>8. Charged(i)'
  <2>1. outbox'[i].attempts <= MaxSendAttempts + retries'[i]
    BY <1>2, <1>6, <1>7, ChargeNumbers
  <2> QED BY <1>1, <1>2, <1>4, <1>5, <1>7, <2>1, ChargeNumbers
          DEF Charged, Claiming, Queued, Pending
<1> QED BY <1>1, <1>3, <1>6, <1>8, ChargeOne DEF Claiming

\* The claim is charged before a run can start.
LEMMA ChargeClaimed ==
    ASSUME TypeOK, ClaimIsExclusive, SnapshotIsStuck, ChargeInv,
           NEW d \in Drainers, drainer[d].pc = "picked", ClaimRow(drainer[d].id),
           drainer' = [drainer EXCEPT ![d].pc = "claimed"],
           UNCHANGED <<retries, runner, reclaim>>
    PROVE  ChargeInv'
<1>0. OutboxTypeOK
  BY DEF TypeOK
<1>a. PICK i \in Ids : i = drainer[d].id
  BY DEF TypeOK
<1>1. /\ Rewritten(i) /\ outbox[i].status = Queued /\ outbox'[i].status = Sending
      /\ outbox'[i].attempts = outbox[i].attempts + 1
  BY <1>0, <1>a, ClaimWrites, AttemptsWritten
<1>2. Tokens' = Tokens /\ (\A t \in Tokens : runs'[t].id = runs[t].id) /\ UNCHANGED runs
  BY DEF runner, Tokens
<1>3. Resends(i)' = Resends(i)
  BY <1>2, NoRunStarts
<1>4. /\ \A p \in Reclaimers : <<i, "requeue">> \notin reclaim[p]
      /\ Queued # Sending /\ Pending # Sending
  BY <1>1 DEF SnapshotIsStuck, Queued, Sending, Pending
<1>5. \A e \in Drainers, j \in Ids \ {i} : Claiming(e, j)' => Claiming(e, j)
  BY <1>a DEF Claiming, TypeOK, DrainerType
<1>6. Charged(i)'
  BY <1>1, <1>3, <1>4, ChargeNumbers DEF Charged
<1> QED BY <1>1, <1>2, <1>5, <1>6, ChargeOne

\* A refund: the run was refused, so the charge had not been used.
LEMMA ChargeGivenBack ==
    ASSUME TypeOK, ClaimIsExclusive, ChargeInv,
           \A e \in Drainers, p \in Reclaimers : \A x \in reclaim[p] :
               Holds(e) => x[1] # drainer[e].id,
           NEW d \in Drainers, GiveBack(d)
    PROVE  ChargeInv'
<1>0. OutboxTypeOK
  BY DEF TypeOK
<1>a. PICK i \in Ids : i = drainer[d].id
  BY DEF TypeOK, GiveBack
<1>b. Holds(d) /\ Claiming(d, i)
  BY <1>a DEF GiveBack, Holds, Claiming
<1>c. outbox[i].status = Sending
  BY <1>a, <1>b DEF ClaimIsExclusive
<1>d. Resends(i) < outbox[i].attempts
  BY <1>b, ChargeNumbers DEF Charged
<1>1. /\ Rewritten(i) /\ outbox'[i].status = Queued
      /\ outbox'[i].attempts = outbox[i].attempts - 1
  BY <1>0, <1>a, <1>c, <1>d, ChargeNumbers, GiveBackWrites, AttemptsWritten DEF GiveBack
<1>2. Tokens' = Tokens /\ (\A t \in Tokens : runs'[t].id = runs[t].id) /\ UNCHANGED runs
  BY DEF GiveBack, runner, Tokens
<1>3. Resends(i)' = Resends(i) /\ retries' = retries /\ reclaim' = reclaim
  BY <1>2, NoRunStarts DEF GiveBack
<1>4. \A p \in Reclaimers : <<i, "requeue">> \notin reclaim[p]
  BY <1>a, <1>b
<1>5. \A e \in Drainers, j \in Ids : Claiming(e, j)' => (e # d) /\ Claiming(e, j)
  BY IdleIsTyped DEF GiveBack, Claiming, TypeOK
<1>6. \A e \in Drainers : ~ Claiming(e, i)'
  BY <1>a, <1>b, <1>5 DEF ClaimIsExclusive, Claiming, Holds
<1>7. Charged(i)'
  BY <1>1, <1>3, <1>4, <1>6, <1>d, ChargeNumbers DEF Charged, Queued, Pending
<1> QED BY <1>1, <1>2, <1>3, <1>5, <1>7, ChargeOne

\* The dispatch uses the charge up.
LEMMA ChargeDispatched ==
    ASSUME TypeOK, ClaimIsExclusive, ChargeInv, NEW d \in Drainers, Dispatch(d)
    PROVE  ChargeInv'
<1> DEFINE t == Len(runs) + 1
<1>a. PICK i \in Ids : i = drainer[d].id
  BY DEF TypeOK, Dispatch
<1>1. /\ UNCHANGED <<outbox, retries, reclaim>>
      /\ Holds(d) /\ Claiming(d, i)
  BY <1>a DEF Dispatch, table, Holds, Claiming
<1>2. /\ Tokens' = Tokens \cup {t} /\ t \notin Tokens
      /\ \A u \in Tokens : runs'[u] = runs[u]
      /\ runs'[t].id = i
  BY <1>a DEF Dispatch, Tokens, TypeOK
<1>3. \A j \in Ids \ {i} : Resends(j)' = Resends(j)
  <2> SUFFICES ASSUME NEW j \in Ids \ {i} PROVE RunsOf(j)' = RunsOf(j)
    BY DEF Resends
  <2> QED BY <1>2 DEF RunsOf
<1>4. Resends(i)' = Resends(i) + 1
  <2>1. RunsOf(i)' = RunsOf(i) \cup {t} /\ t \notin RunsOf(i)
    BY <1>2 DEF RunsOf
  <2> QED BY <2>1, RunsAreFinite, FS_AddElement DEF Resends
<1>5. \A e \in Drainers, j \in Ids : Claiming(e, j)' => (e # d) /\ Claiming(e, j)
  BY DEF Dispatch, Claiming, TypeOK, DrainerType
<1>6. \A e \in Drainers : ~ Claiming(e, i)'
  BY <1>a, <1>1, <1>5 DEF ClaimIsExclusive, Claiming, Holds
<1>7. Charged(i)'
  BY <1>1, <1>4, <1>6, ChargeNumbers DEF Charged
<1>8. \A j \in Ids \ {i} : Charged(j)'
  BY <1>1, <1>3, <1>5 DEF ChargeInv, Charged
<1>9. Ids' = Ids /\ Len(outbox') = Len(outbox)
  BY <1>1 DEF Ids
<1> QED BY <1>2, <1>7, <1>8, <1>9 DEF ChargeInv

\* Recording an outcome, and calling a message off, charge nothing.
LEMMA ChargeMoved ==
    ASSUME TypeOK, ChargeInv, NEW i \in Ids, NEW status \in Statuses,
           SettleRow(i, status), status \notin {Queued, Pending},
           UNCHANGED <<retries, runner, reclaim>>,
           \A e \in Drainers, j \in Ids : Claiming(e, j)' => Claiming(e, j)
    PROVE  ChargeInv'
<1>1. /\ Rewritten(i) /\ outbox'[i].status = status
      /\ outbox'[i].attempts = outbox[i].attempts
  BY SettleWrites, AttemptsWritten DEF TypeOK
<1>2. Tokens' = Tokens /\ (\A t \in Tokens : runs'[t].id = runs[t].id) /\ UNCHANGED runs
  BY DEF runner, Tokens
<1>3. Resends(i)' = Resends(i)
  BY <1>2, NoRunStarts
<1>4. Charged(i)'
  BY <1>1, <1>3 DEF ChargeInv, Charged
<1> QED BY <1>1, <1>2, <1>4, ChargeOne

\* A reclaim pass requeues only a row whose charge it has seen below the
\* limit, and the row has not been claimed since.
LEMMA ChargeReclaimed ==
    ASSUME TypeOK, SnapshotIsStuck, ChargeInv, NEW p \in Reclaimers, NEW i \in Ids,
           NEW v \in Verdicts, ReclaimWrites(p, i, v)
    PROVE  ChargeInv'
<1>1. <<i, v>> \in reclaim[p] /\ outbox[i].status = Sending
  BY DEF ReclaimWrites, SnapshotIsStuck
<1>2. /\ Rewritten(i) /\ outbox'[i].status \in {Sending, Queued, Failed}
      /\ outbox'[i].attempts = outbox[i].attempts
      /\ outbox'[i].status = Queued => v = "requeue"
  BY <1>1, ReclaimRowWrites, AttemptsWritten DEF TypeOK, ReclaimWrites
<1>3. Tokens' = Tokens /\ (\A t \in Tokens : runs'[t].id = runs[t].id) /\ UNCHANGED runs
  BY DEF ReclaimWrites, runner, Tokens
<1>4. Resends(i)' = Resends(i)
  BY <1>3, NoRunStarts
<1>5. /\ \A q \in Reclaimers : reclaim'[q] \subseteq reclaim[q]
      /\ UNCHANGED <<retries, drainer>>
  BY DEF ReclaimWrites, TypeOK
<1>6. outbox'[i].status = Queued => outbox[i].attempts < MaxSendAttempts + retries[i]
  <2>1. outbox'[i].status = Queued => outbox[i].attempts < MaxSendAttempts
    BY <1>1, <1>2 DEF ChargeInv, Charged
  <2>2. /\ outbox[i].attempts \in Nat /\ retries[i] \in Nat
        /\ MaxSendAttempts \in Nat
    BY ChargeNumbers
  <2> QED BY <2>1, <2>2
<1>7. Charged(i)'
  BY <1>2, <1>4, <1>5, <1>6
     DEF ChargeInv, Charged, Claiming, Pending, Sending, Queued, Failed
<1> QED BY <1>2, <1>3, <1>5, <1>7, ChargeOne DEF Claiming

LEMMA ChargeNext ==
    ASSUME SafeInv, ChargeInv, [Next]_vars
    PROVE  ChargeInv'
<1>0. /\ TypeOK /\ OutboxTypeOK /\ ClaimIsExclusive /\ SnapshotIsStuck
      /\ \A e \in Drainers, p \in Reclaimers : \A x \in reclaim[p] :
             Holds(e) => x[1] # drainer[e].id
  BY HeldIsNotStuck DEF SafeInv, ClaimInvariant, TypeOK
<1>1. ASSUME NEW item \in Items, NEW body \in Bodies,
             SendClicked(item, body) \/ Drafted(item, body)
      PROVE  ChargeInv'
  <2>1. PICK auto \in BOOLEAN, at \in Nat : Add(item, body, auto, at)
    <3>1. CASE SendClicked(item, body)
      <4>1. Add(item, body, TRUE, now) /\ now \in Nat
        BY <1>0, <3>1 DEF SendClicked, AddGuarded, OutboxTypeOK
      <4> QED BY <4>1
    <3>2. CASE Drafted(item, body)
      <4>1. PICK auto \in {FALSE, AutoArmed}, delay \in Delays :
                Add(item, body, auto, now + delay)
        BY <3>2 DEF Drafted
      <4>2. auto \in BOOLEAN
        BY <4>1, DeliveryAssumption
      <4>3. now + delay \in Nat
        BY <1>0, DeliveryAssumption DEF OutboxTypeOK
      <4> QED BY <4>1, <4>2, <4>3
    <3> QED BY <1>1, <3>1, <3>2
  <2>2. Len(outbox) < MaxRows /\ UNCHANGED <<drainer, runner, reclaim, retries>>
    BY <1>1 DEF SendClicked, Drafted
  <2> QED BY <1>0, <2>1, <2>2, ChargeAdded
<1>2. ASSUME NEW i \in Ids, NEW body \in Bodies, Approve(i, body)
      PROVE  ChargeInv'
  BY <1>0, <1>2, ChargeReleased DEF Approve
<1>3. ASSUME NEW i \in Ids, Retry(i)
      PROVE  ChargeInv'
  <2>1. /\ Release(i, {Failed}, outbox[i].body) /\ outbox[i].status = Failed
        /\ outbox[i].body \in Bodies /\ {Failed} \in SUBSET Approvable
    BY <1>0, <1>3, RowFields DEF Retry, Release, Approvable
  <2> QED BY <1>0, <1>3, <2>1, ChargeReleased DEF Retry
<1>4. ASSUME NEW i \in Ids, Cancel(i)
      PROVE  ChargeInv'
  <2>1. /\ SettleRow(i, Canceled) /\ Canceled \in Statuses
        /\ Canceled \notin {Queued, Pending}
    BY <1>4 DEF Cancel, CancelRow, SettleRow, Statuses, Canceled, Queued, Pending
  <2> QED BY <1>0, <1>4, <2>1, ChargeMoved DEF Cancel, Claiming
<1>5. ASSUME NEW d \in Drainers, Settle(d)
      PROVE  ChargeInv'
  <2>1. PICK i \in Ids, v \in {Sent, Failed} : SettleRow(i, v)
    BY <1>0, <1>5, DrainerFields DEF Settle, TypeOK
  <2>2. v \in Statuses /\ v \notin {Queued, Pending}
    BY DEF Statuses, Sent, Failed, Queued, Pending
  <2>3. \A e \in Drainers, j \in Ids : Claiming(e, j)' => Claiming(e, j)
    BY <1>0, <1>5, IdleIsTyped DEF Settle, Claiming, TypeOK
  <2> QED BY <1>0, <1>5, <2>1, <2>2, <2>3, ChargeMoved DEF Settle
<1>6. ASSUME NEW d \in Drainers, Claim(d)
      PROVE  ChargeInv'
  <2>1. CASE ClaimRow(drainer[d].id) /\ drainer' = [drainer EXCEPT ![d].pc = "claimed"]
    BY <1>0, <1>6, <2>1, ChargeClaimed DEF Claim
  <2>2. CASE drainer' = [drainer EXCEPT ![d] = IdleDrainer] /\ UNCHANGED outbox
    <3>1. \A e \in Drainers, j \in Ids : Claiming(e, j)' => Claiming(e, j)
      BY <1>0, <2>2, IdleIsTyped DEF Claiming, TypeOK
    <3> QED BY <1>6, <2>2, <3>1, ChargesKept DEF Claim, table, runner, Tokens
  <2> QED BY <1>6, <2>1, <2>2 DEF Claim
<1>7. ASSUME NEW d \in Drainers,
             \/ \E i \in Ids : Pick(d, i)
             \/ Busy(d) \/ Poll(d) \/ TimeOut(d) \/ Raises(d)
      PROVE  ChargeInv'
  <2>1. \A e \in Drainers, j \in Ids : Claiming(e, j)' => Claiming(e, j)
    <3>1. CASE \E i \in Ids : Pick(d, i)
      BY <1>0, <3>1 DEF Pick, Claiming, TypeOK, DrainerType
    <3>2. CASE Busy(d)
      BY <1>0, <3>2 DEF Busy, Claiming, TypeOK, DrainerType
    <3>3. CASE Poll(d)
      <4>1. PICK v : drainer' = [drainer EXCEPT ![d].pc = "settling", ![d].verdict = v]
        BY <3>3 DEF Poll, ReadsOutcome, ReadsSlot, Learned
      <4> QED BY <1>0, <4>1 DEF Claiming, TypeOK, DrainerType
    <3>4. CASE TimeOut(d)
      BY <1>0, <3>4 DEF TimeOut, Claiming, TypeOK, DrainerType
    <3>5. CASE Raises(d)
      BY <1>0, <3>5, IdleIsTyped DEF Raises, Claiming, TypeOK
    <3> QED BY <1>7, <3>1, <3>2, <3>3, <3>4, <3>5
  <2>2. UNCHANGED <<table, runs, reclaim>>
    BY <1>7 DEF Pick, Busy, Poll, TimeOut, Raises, runner
  <2> QED BY <2>1, <2>2, ChargesKept DEF Tokens
<1>8. ASSUME NEW t \in Tokens, Reply(t) \/ Record(t) \/ Publish(t)
      PROVE  ChargeInv'
  <2>1. runs \in Seq(RunType) /\ runs[t] \in RunType
    BY <1>0, <1>8, RunFields DEF TypeOK
  <2>2. Tokens' = Tokens /\ \A u \in Tokens : runs'[u].id = runs[u].id
    <3>1. CASE Reply(t)
      BY <2>1, <3>1 DEF Reply, Tokens, RunType
    <3>2. CASE Record(t)
      BY <2>1, <3>2 DEF Record, Tokens, RunType
    <3>3. CASE Publish(t)
      BY <2>1, <3>3 DEF Publish, Tokens, RunType
    <3> QED BY <1>8, <3>1, <3>2, <3>3
  <2> QED BY <1>8, <2>2, ChargesKept DEF Reply, Record, Publish, Claiming
<1>9. ASSUME NEW h \in Hosts, Crash(h)
      PROVE  ChargeInv'
  <2>1. Tokens' = Tokens /\ \A t \in Tokens : runs'[t].id = runs[t].id
    <3>1. \A t \in Tokens : runs[t] \in RunType
      BY <1>0, RunFields
    <3>2. \A t \in Tokens : \/ runs'[t] = runs[t]
                            \/ runs'[t] = [runs[t] EXCEPT !.pc = "killed"]
      BY <1>9 DEF Crash
    <3> QED BY <1>9, <3>1, <3>2 DEF Crash, Tokens, RunType
  <2>2. \A e \in Drainers, j \in Ids : Claiming(e, j)' => Claiming(e, j)
    BY <1>9, IdleIsTyped DEF Crash, Claiming
  <2>3. \A p \in Reclaimers : reclaim'[p] \subseteq reclaim[p]
    BY <1>9 DEF Crash
  <2> QED BY <1>9, <2>1, <2>2, <2>3, ChargesKept DEF Crash
<1>10. ASSUME NEW p \in Reclaimers, ReclaimReads(p)
       PROVE  ChargeInv'
  <2>1. UNCHANGED <<table, drainer, runs>> /\ Ids' = Ids
    BY <1>10 DEF ReclaimReads, table, runner, Ids
  <2>2. Tokens' = Tokens /\ \A t \in Tokens : runs'[t].id = runs[t].id
    BY <2>1 DEF Tokens
  <2>3. \A i : Resends(i)' = Resends(i)
    BY <2>2, NoRunStarts
  <2>4. \A i \in Ids : <<i, "requeue">> \in StuckSending =>
                           ~ outbox[i].attempts >= MaxSendAttempts
    BY DEF StuckSending, ReclaimVerdict
  <2>5. \A i \in Ids : <<i, "requeue">> \in StuckSending =>
                           outbox[i].attempts < MaxSendAttempts
    BY <1>0, <2>4, RowFields, OutboxAssumption
  <2>6. \A q \in Reclaimers : reclaim'[q] = StuckSending \/ reclaim'[q] = reclaim[q]
    BY <1>0, <1>10 DEF ReclaimReads, TypeOK
  <2>7. \A i \in Ids : Charged(i)'
    BY <2>1, <2>3, <2>5, <2>6 DEF ChargeInv, Charged, Claiming, table
  <2> QED BY <2>1, <2>2, <2>7 DEF ChargeInv, table
<1>11. ASSUME NEW h \in Hosts, ScrapeStarts(h) \/ ScrapeEnds(h) \/ OtpSubmitted(h)
       PROVE  ChargeInv'
  BY <1>11, ChargesKept DEF ScrapeStarts, ScrapeEnds, OtpSubmitted, Tokens, Claiming
<1>12. ASSUME Tick \/ UNCHANGED vars
       PROVE  ChargeInv'
  BY <1>12, ChargesKept DEF Tick, vars, table, runner, Tokens, Claiming
<1> QED BY <1>0, <1>1, <1>2, <1>3, <1>4, <1>5, <1>6, <1>7, <1>8, <1>9, <1>10,
           <1>11, <1>12, ChargeGivenBack, ChargeDispatched, ChargeReclaimed DEF Next

\* MAX_SEND_ATTEMPTS bounds how often one message is put in a browser's
\* hands without a human, whatever crashes, refusals, refunds and reclaims
\* come in between; each human retry allows one more.
THEOREM ResendsAreBounded ==
    ASSUME SoleReclaimer, MaxRows # 0
    PROVE  Spec => []ResendsBounded
<1>1. SafeInv /\ [Next]_vars => SafeInv'
  BY SafeNext
<1>2. Init => ChargeInv
  BY ChargeInit
<1>3. SafeInv /\ ChargeInv /\ [Next]_vars => ChargeInv'
  BY ChargeNext
<1>4. SafeInv /\ ChargeInv => ResendsBounded
  <2> SUFFICES ASSUME SafeInv, ChargeInv, NEW i \in Ids
               PROVE  Cardinality(RunsOf(i)) <= MaxSendAttempts + retries[i]
    BY DEF ResendsBounded
  <2>1. TypeOK
    BY DEF SafeInv
  <2>2. /\ Resends(i) <= outbox[i].attempts
        /\ outbox[i].attempts <= MaxSendAttempts + retries[i]
    BY DEF ChargeInv, Charged
  <2>3. /\ Resends(i) \in Nat /\ outbox[i].attempts \in Nat
        /\ MaxSendAttempts \in Nat /\ retries[i] \in Nat
    BY <2>1, ChargeNumbers
  <2>4. Resends(i) <= MaxSendAttempts + retries[i]
    BY <2>2, <2>3
  <2> QED BY <2>4 DEF Resends
<1> QED BY SafeInit, <1>1, <1>2, <1>3, <1>4, PTL DEF Spec
=============================================================================
