--------------------------- MODULE Delivery_proofs ---------------------------
(***************************************************************************)
(* Theorems about Delivery.  TLC checks the same formulas on the instances *)
(* of MCDelivery; here they are proved for every set of hosts, drainers,   *)
(* guests and texts, and for every bound.                                  *)
(***************************************************************************)
EXTENDS Delivery, SequenceTheorems, TLAPS

-----------------------------------------------------------------------------
(* Lemmas about the writes of the outbox table.                            *)

\* Overwriting one row of a table leaves a table, with the same ids, and
\* touches no other row.
LEMMA WriteRow ==
    ASSUME outbox \in Seq(Row), NEW i \in Ids, NEW row \in Row, Write(i, row)
    PROVE  /\ outbox' \in Seq(Row)
           /\ Len(outbox') = Len(outbox)
           /\ Ids' = Ids
           /\ outbox'[i] = row
           /\ \A j \in Ids \ {i} : outbox'[j] = outbox[j]
BY DEF Write, Ids

\* What every write of an existing row has in common: the table stays a
\* table, the row keeps its guest, no other row is touched.
Rewritten(i) ==
    /\ outbox' \in Seq(Row)
    /\ Len(outbox') = Len(outbox)
    /\ Ids' = Ids
    /\ outbox'[i].item = outbox[i].item
    /\ \A j \in Ids \ {i} : outbox'[j] = outbox[j]

\* The fields of a row of the table.
LEMMA RowFields ==
    ASSUME OutboxTypeOK, NEW i \in Ids
    PROVE  /\ outbox[i] \in Row
           /\ outbox[i].item \in Items
           /\ outbox[i].body \in Bodies
           /\ outbox[i].status \in Statuses
           /\ outbox[i].scheduledAt \in Nat
           /\ outbox[i].sendingAt \in Nat \cup {NoStamp}
           /\ outbox[i].attempts \in Nat
<1>1. outbox[i] \in Row
  BY DEF OutboxTypeOK, Ids
<1> QED BY <1>1 DEF Row

\* release_to_send puts the row in the queue with the posted text.
LEMMA ReleaseWrites ==
    ASSUME OutboxTypeOK, NEW i \in Ids, NEW from, NEW body \in Bodies,
           Release(i, from, body)
    PROVE  /\ Rewritten(i)
           /\ outbox'[i].status = Queued
           /\ outbox'[i].body = body
<1> DEFINE row == [outbox[i] EXCEPT !.status = Queued, !.body = body,
                                    !.scheduledAt = Earlier(@, now)]
<1>1. outbox[i] \in Row
  BY DEF OutboxTypeOK, Ids
<1>2. /\ row \in Row
      /\ row.status = Queued /\ row.body = body /\ row.item = outbox[i].item
  BY <1>1 DEF Row, Statuses, Earlier, OutboxTypeOK
<1> QED BY <1>2, WriteRow DEF Release, Rewritten, OutboxTypeOK

\* The claim stamps the row and leaves its text alone.
LEMMA ClaimWrites ==
    ASSUME OutboxTypeOK, NEW i \in Ids, ClaimRow(i)
    PROVE  /\ Rewritten(i)
           /\ outbox[i].status = Queued
           /\ outbox'[i].status = Sending
           /\ outbox'[i].sendingAt = now
           /\ outbox'[i].body = outbox[i].body
<1> DEFINE row == [outbox[i] EXCEPT !.status = Sending, !.sendingAt = now,
                                    !.attempts = @ + 1]
<1>1. outbox[i] \in Row
  BY DEF OutboxTypeOK, Ids
<1>3. outbox[i].attempts + 1 \in Nat
  BY <1>1 DEF Row
<1>2. /\ row \in Row
      /\ row.status = Sending /\ row.sendingAt = now
      /\ row.body = outbox[i].body /\ row.item = outbox[i].item
  BY <1>1, <1>3 DEF Row, Statuses, OutboxTypeOK
<1> QED BY <1>2, WriteRow DEF ClaimRow, Rewritten, OutboxTypeOK

\* Giving a claim back moves the row from `sending` to `queued`, or finds it
\* moved already and does nothing.
LEMMA GiveBackWrites ==
    ASSUME OutboxTypeOK, NEW i \in Ids, ReleaseUnattempted(i)
    PROVE  \/ /\ Rewritten(i)
              /\ outbox[i].status = Sending
              /\ outbox'[i].status = Queued
              /\ outbox'[i].body = outbox[i].body
           \/ outbox[i].status # Sending /\ UNCHANGED outbox
<1> DEFINE row == [outbox[i] EXCEPT !.status = Queued, !.sendingAt = NoStamp,
                       !.attempts = IF @ > 0 THEN @ - 1 ELSE 0]
<1>1. outbox[i] \in Row
  BY DEF OutboxTypeOK, Ids
<1>3. (IF outbox[i].attempts > 0 THEN outbox[i].attempts - 1 ELSE 0) \in Nat
  BY <1>1 DEF Row
<1>2. /\ row \in Row
      /\ row.status = Queued
      /\ row.body = outbox[i].body /\ row.item = outbox[i].item
  BY <1>1, <1>3 DEF Row, Statuses, OutboxTypeOK
<1> QED BY <1>2, WriteRow DEF ReleaseUnattempted, Rewritten, OutboxTypeOK

\* Recording an outcome changes the status and nothing else.
LEMMA SettleWrites ==
    ASSUME OutboxTypeOK, NEW i \in Ids, NEW status \in Statuses,
           SettleRow(i, status)
    PROVE  /\ Rewritten(i)
           /\ outbox'[i].status = status
           /\ outbox'[i].body = outbox[i].body
<1> DEFINE row == [outbox[i] EXCEPT !.status = status]
<1>1. outbox[i] \in Row
  BY DEF OutboxTypeOK, Ids
<1>2. /\ row \in Row
      /\ row.status = status
      /\ row.body = outbox[i].body /\ row.item = outbox[i].item
  BY <1>1 DEF Row
<1> QED BY <1>2, WriteRow DEF SettleRow, Rewritten, OutboxTypeOK

\* Cancelling is refused once a browser has the row.
LEMMA CancelWrites ==
    ASSUME OutboxTypeOK, NEW i \in Ids, CancelRow(i)
    PROVE  /\ Rewritten(i)
           /\ outbox[i].status \notin {Sending, Sent}
           /\ outbox'[i].status = Canceled
           /\ outbox'[i].body = outbox[i].body
<1>1. outbox[i].status \notin {Sending, Sent}
  BY DEF CancelRow, Cancelable, Pending, Queued, Failed, Canceled, Sending, Sent
<1>2. SettleRow(i, Canceled)
  BY DEF CancelRow, SettleRow
<1> QED BY <1>1, <1>2, SettleWrites DEF Statuses

\* A reclaim pass moves a row out of `sending`, restamps it, or finds it
\* moved already and does nothing.
LEMMA ReclaimRowWrites ==
    ASSUME OutboxTypeOK, NEW i \in Ids, NEW verdict \in Verdicts,
           ReclaimRow(i, verdict)
    PROVE  \/ /\ Rewritten(i)
              /\ outbox[i].status = Sending
              /\ outbox'[i].status \in {Sending, Queued, Failed}
              /\ outbox'[i].body = outbox[i].body
           \/ outbox[i].status # Sending /\ UNCHANGED outbox
<1> SUFFICES ASSUME outbox[i].status = Sending
             PROVE  /\ Rewritten(i)
                    /\ outbox'[i].status \in {Sending, Queued, Failed}
                    /\ outbox'[i].body = outbox[i].body
  BY DEF ReclaimRow
<1>1. outbox[i] \in Row
  BY DEF OutboxTypeOK, Ids
<1>2. CASE verdict = "restamp"
  <2> DEFINE row == [outbox[i] EXCEPT !.sendingAt = now]
  <2>1. /\ row \in Row /\ row.status = Sending
        /\ row.body = outbox[i].body /\ row.item = outbox[i].item
    BY <1>1 DEF Row, OutboxTypeOK
  <2> QED BY <1>2, <2>1, WriteRow DEF ReclaimRow, Rewritten, OutboxTypeOK
<1>3. CASE verdict = "abandon"
  <2>1. SettleRow(i, Failed)
    BY <1>3 DEF ReclaimRow, SettleRow
  <2> QED BY <2>1, SettleWrites DEF Statuses
<1>4. CASE verdict = "requeue"
  <2>1. SettleRow(i, Queued)
    BY <1>4 DEF ReclaimRow, SettleRow
  <2> QED BY <2>1, SettleWrites DEF Statuses
<1> QED BY <1>2, <1>3, <1>4 DEF Verdicts

\* A new row is queued when it is armed and waits for approval otherwise; the
\* rows before it stay where they are.
LEMMA AddRow ==
    ASSUME OutboxTypeOK, NEW item \in Items, NEW body \in Bodies,
           NEW auto \in BOOLEAN, NEW at \in Nat, Add(item, body, auto, at)
    PROVE  /\ outbox' \in Seq(Row)
           /\ Len(outbox') = Len(outbox) + 1
           /\ Ids' = Ids \cup {Len(outbox')}
           /\ Ids \subseteq Ids'
           /\ outbox'[Len(outbox')].item = item
           /\ outbox'[Len(outbox')].body = body
           /\ auto => outbox'[Len(outbox')].status = Queued
           /\ ~ auto => outbox'[Len(outbox')].status = Pending
           /\ \A j \in Ids : outbox'[j] = outbox[j]
<1>1. [item |-> item, body |-> body, status |-> IF auto THEN Queued ELSE Pending,
       scheduledAt |-> at, sendingAt |-> NoStamp, attempts |-> 0] \in Row
  BY DEF Row, Statuses, NoStamp
<1>2. /\ outbox' \in Seq(Row)
      /\ Len(outbox') = Len(outbox) + 1
      /\ Ids' = Ids \cup {Len(outbox')}
      /\ \A j \in Ids : outbox'[j] = outbox[j]
      /\ outbox'[Len(outbox')] =
            [item |-> item, body |-> body,
             status |-> IF auto THEN Queued ELSE Pending,
             scheduledAt |-> at, sendingAt |-> NoStamp, attempts |-> 0]
  BY <1>1 DEF Add, OutboxTypeOK, Ids
<1> QED BY <1>2

-----------------------------------------------------------------------------
(* Type correctness.                                                       *)

\* The program starts with well-formed variables.
LEMMA TypeInit == Init => TypeOK
<1> SUFFICES ASSUME Init PROVE TypeOK
  OBVIOUS
<1>1. OutboxTypeOK
  <2>1. now \in Nat
    BY DEF Init, OutboxInit
  <2>2. CASE outbox = <<>>
    BY <2>1, <2>2 DEF OutboxTypeOK
  <2>3. ASSUME NEW item \in Items, NEW body \in Bodies,
               outbox = <<[item |-> item, body |-> body, status |-> Sending,
                           scheduledAt |-> 0, sendingAt |-> NoStamp,
                           attempts |-> 0]>>
        PROVE  OutboxTypeOK
    <3>1. [item |-> item, body |-> body, status |-> Sending, scheduledAt |-> 0,
           sendingAt |-> NoStamp, attempts |-> 0] \in Row
      BY DEF Row, Statuses
    <3> QED BY <2>1, <2>3, <3>1 DEF OutboxTypeOK
  <2> QED BY <2>2, <2>3 DEF Init, OutboxInit
<1>2. drainer \in [Drainers -> DrainerType]
  BY DEF Init, IdleDrainer, DrainerType, DrainerStates, NoToken
<1>3. slot \in [Hosts -> SlotType]
  BY DEF Init, FreeSlot, SlotType, SlotStates, NoToken
<1>4. /\ \A d \in Drainers : drainer[d].pc = "idle"
      /\ runs \in Seq(RunType)
      /\ outcomes \in [Hosts -> SUBSET Tokens]
      /\ reclaim \in [Reclaimers -> SUBSET (Ids \X Verdicts)]
      /\ retries \in [1..MaxRows -> Nat]
  BY DEF Init, IdleDrainer
<1>5. \A t \in Tokens : runs[t].pc = "recorded" => runs[t].outcome # "none"
  BY DEF Init, Tokens
<1> QED BY <1>1, <1>2, <1>3, <1>4, <1>5 DEF TypeOK

\* The fields of a drainer's record.
LEMMA DrainerFields ==
    ASSUME TypeOK, NEW d \in Drainers
    PROVE  /\ drainer[d] \in DrainerType
           /\ drainer[d].pc \in DrainerStates
           /\ drainer[d].id \in Nat
           /\ drainer[d].body \in Bodies \cup {NoBody}
           /\ drainer[d].token \in Nat
           /\ drainer[d].deadline \in Nat
           /\ drainer[d].verdict \in {Sent, Failed}
<1>1. drainer[d] \in DrainerType
  BY DEF TypeOK
<1> QED BY <1>1 DEF DrainerType

\* A drainer at rest has a well-formed record.
LEMMA IdleIsTyped == IdleDrainer \in DrainerType /\ IdleDrainer.pc = "idle"
BY DEF IdleDrainer, DrainerType, DrainerStates, NoToken

\* The drainers after one of them moved.
DrainersTyped ==
    /\ drainer' \in [Drainers -> DrainerType]
    /\ \A e \in Drainers : drainer'[e].pc # "idle" => drainer'[e].id \in Ids

\* One drainer's record replaced by another well-formed one.
LEMMA OneDrainer ==
    ASSUME TypeOK, NEW d \in Drainers, NEW r \in DrainerType,
           drainer' = [drainer EXCEPT ![d] = r],
           r.pc # "idle" => r.id \in Ids
    PROVE  DrainersTyped
BY DEF TypeOK, DrainersTyped

\* The part of TypeOK that speaks of the rows survives any step that keeps
\* the table well formed and forgets no row.
LEMMA TableGrows ==
    ASSUME TypeOK, outbox' \in Seq(Row), now' \in Nat, Ids \subseteq Ids',
           UNCHANGED <<drainer, runner, reclaim>>,
           retries' \in [1..MaxRows -> Nat]
    PROVE  TypeOK'
BY DEF TypeOK, OutboxTypeOK, runner, Tokens

\* Counting one more retry of a row.
LEMMA RetryCounted ==
    ASSUME TypeOK, NEW i
    PROVE  [retries EXCEPT ![i] = @ + 1] \in [1..MaxRows -> Nat]
<1>1. retries \in [1..MaxRows -> Nat]
  BY DEF TypeOK
<1>2. i \in 1..MaxRows => retries[i] + 1 \in Nat
  BY <1>1
<1> QED BY <1>1, <1>2

\* The runs after one of them moved.
RunsTyped ==
    /\ runs' \in Seq(RunType)
    /\ Tokens' = Tokens
    /\ \A t \in Tokens : runs'[t].pc = "recorded" => runs'[t].outcome # "none"

\* One run's record replaced by another well-formed one.
LEMMA OneRun ==
    ASSUME TypeOK, NEW t \in Tokens, NEW r \in RunType,
           runs' = [runs EXCEPT ![t] = r],
           r.pc = "recorded" => r.outcome # "none"
    PROVE  RunsTyped
BY DEF TypeOK, RunsTyped, Tokens

\* The fields of a run.
LEMMA RunFields ==
    ASSUME TypeOK, NEW t \in Tokens
    PROVE  /\ runs[t] \in RunType
           /\ runs[t].host \in Hosts
           /\ runs[t].id \in Nat
           /\ runs[t].pc \in RunStates
           /\ runs[t].landed \in BOOLEAN
           /\ runs[t].outcome \in {"none", "done", "error"}
<1>1. runs[t] \in RunType
  BY DEF TypeOK, Tokens
<1> QED BY <1>1 DEF RunType

\* No step of any actor breaks the shape of a variable.
LEMMA TypeNext == TypeOK /\ [Next]_vars => TypeOK'
<1> SUFFICES ASSUME TypeOK, [Next]_vars PROVE TypeOK'
  OBVIOUS
<1>0. OutboxTypeOK
  BY DEF TypeOK
<1>1. ASSUME NEW item \in Items, NEW body \in Bodies, SendClicked(item, body)
      PROVE  TypeOK'
  <2>1. Add(item, body, TRUE, now) /\ now \in Nat
    BY <1>0, <1>1 DEF SendClicked, AddGuarded, OutboxTypeOK
  <2> QED BY <1>1, <2>1, <1>0, AddRow, TableGrows DEF SendClicked, TypeOK
<1>2. ASSUME NEW item \in Items, NEW body \in Bodies, Drafted(item, body)
      PROVE  TypeOK'
  <2>1. PICK auto \in {FALSE, AutoArmed}, delay \in Delays :
            Add(item, body, auto, now + delay)
    BY <1>2 DEF Drafted
  <2>2. auto \in BOOLEAN
    BY <2>1, DeliveryAssumption
  <2>3. now + delay \in Nat /\ now' \in Nat
    BY <1>0, <1>2, DeliveryAssumption DEF OutboxTypeOK, Drafted
  <2> QED BY <1>2, <2>1, <2>2, <2>3, <1>0, AddRow, TableGrows DEF Drafted, TypeOK
<1>3. ASSUME NEW i \in Ids, NEW body \in Bodies, Approve(i, body)
      PROVE  TypeOK'
  <2>1. retries' \in [1..MaxRows -> Nat]
    BY <1>3, RetryCounted DEF Approve, TypeOK
  <2> QED BY <1>3, <2>1, <1>0, ReleaseWrites, TableGrows
          DEF Approve, Rewritten, OutboxTypeOK
<1>4. ASSUME NEW i \in Ids, Retry(i)
      PROVE  TypeOK'
  <2>1. outbox[i].body \in Bodies /\ retries' \in [1..MaxRows -> Nat]
    BY <1>4, <1>0, RowFields, RetryCounted DEF Retry
  <2> QED BY <1>4, <2>1, <1>0, ReleaseWrites, TableGrows
          DEF Retry, Rewritten, OutboxTypeOK
<1>5. ASSUME NEW i \in Ids, Cancel(i)
      PROVE  TypeOK'
  BY <1>5, <1>0, CancelWrites, TableGrows
     DEF Cancel, Rewritten, OutboxTypeOK, TypeOK
<1>6. ASSUME NEW d \in Drainers, NEW i \in Ids, Pick(d, i)
      PROVE  TypeOK'
  <2>1. outbox[i].body \in Bodies
    BY <1>0, RowFields
  <2>2. i \in Nat
    BY <1>0 DEF OutboxTypeOK, Ids
  <2>3. DrainersTyped
    <3> DEFINE r == [drainer[d] EXCEPT !.pc = "picked", !.id = i,
                                       !.body = outbox[i].body]
    <3>1. r \in DrainerType /\ r.id = i
      BY <2>1, <2>2, DrainerFields DEF DrainerType, DrainerStates
    <3>2. drainer' = [drainer EXCEPT ![d] = r]
      BY <1>6 DEF Pick
    <3>3. r.id \in Ids
      BY <1>6, <3>1 DEF Pick, TypeOK
    <3> QED BY <3>1, <3>2, <3>3, OneDrainer
  <2> QED BY <1>6, <2>3
          DEF DrainersTyped, Pick, TypeOK, OutboxTypeOK, table, runner, Ids, Tokens
<1>7. ASSUME NEW d \in Drainers, Claim(d)
      PROVE  TypeOK'
  <2>1. DrainersTyped
    <3>1. CASE drainer' = [drainer EXCEPT ![d] = IdleDrainer]
      BY <3>1, IdleIsTyped, OneDrainer
    <3>2. CASE drainer' = [drainer EXCEPT ![d].pc = "claimed"]
      <4> DEFINE r == [drainer[d] EXCEPT !.pc = "claimed"]
      <4>1. r \in DrainerType /\ r.id = drainer[d].id
        BY DrainerFields DEF DrainerType, DrainerStates
      <4>2. r.id \in Ids
        BY <1>7, <4>1 DEF Claim, TypeOK
      <4> QED BY <3>2, <4>1, <4>2, OneDrainer
    <3> QED BY <1>7, <3>1, <3>2 DEF Claim
  <2>2. drainer[d].id \in Ids
    BY <1>7 DEF Claim, TypeOK
  <2>3. outbox' \in Seq(Row) /\ Ids' = Ids
    BY <1>7, <2>2, <1>0, ClaimWrites DEF Claim, Rewritten, OutboxTypeOK, Ids
  <2> QED BY <1>7, <2>1, <2>3 DEF DrainersTyped, Claim, TypeOK, OutboxTypeOK, runner, Tokens
<1>8. ASSUME NEW d \in Drainers, Busy(d)
      PROVE  TypeOK'
  <2>1. DrainersTyped
    <3> DEFINE r == [drainer[d] EXCEPT !.pc = "refused"]
    <3>1. r \in DrainerType /\ r.id = drainer[d].id
      BY DrainerFields DEF DrainerType, DrainerStates
    <3>2. drainer' = [drainer EXCEPT ![d] = r]
      BY <1>8 DEF Busy
    <3>3. r.id \in Ids
      BY <1>8, <3>1 DEF Busy, TypeOK
    <3> QED BY <3>1, <3>2, <3>3, OneDrainer
  <2> QED BY <1>8, <2>1
          DEF DrainersTyped, Busy, TypeOK, OutboxTypeOK, table, runner, Ids, Tokens
<1>9. ASSUME NEW d \in Drainers, GiveBack(d)
      PROVE  TypeOK'
  <2>1. DrainersTyped
    BY <1>9, IdleIsTyped, OneDrainer DEF GiveBack
  <2>2. drainer[d].id \in Ids
    BY <1>9 DEF GiveBack, TypeOK
  <2>3. outbox' \in Seq(Row) /\ Ids' = Ids
    BY <1>9, <2>2, <1>0, GiveBackWrites
       DEF GiveBack, Rewritten, OutboxTypeOK, Ids
  <2> QED BY <1>9, <2>1, <2>3
          DEF DrainersTyped, GiveBack, TypeOK, OutboxTypeOK, runner, Tokens
<1>10. ASSUME NEW d \in Drainers, Dispatch(d)
       PROVE  TypeOK'
  <2> DEFINE t == Len(runs) + 1
             run == [host |-> HostOf[d], id |-> drainer[d].id,
                     body |-> drainer[d].body, pc |-> "browsing",
                     landed |-> FALSE, outcome |-> "none"]
  <2>1. /\ t \in Nat
        /\ now + SendTimeout \in Nat
    BY DeliveryAssumption DEF TypeOK, OutboxTypeOK
  <2>2. run \in RunType
    BY DrainerFields, DeliveryAssumption DEF RunType, RunStates
  <2>3. /\ runs' \in Seq(RunType) /\ Tokens \subseteq Tokens'
        /\ \A u \in Tokens' : runs'[u].pc = "recorded" => runs'[u].outcome # "none"
    BY <1>10, <2>2 DEF Dispatch, TypeOK, Tokens
  <2>4. DrainersTyped
    <3> DEFINE r == [drainer[d] EXCEPT !.pc = "waiting", !.token = t,
                                       !.deadline = now + SendTimeout]
    <3>1. r \in DrainerType /\ r.id = drainer[d].id
      BY <2>1, DrainerFields DEF DrainerType, DrainerStates
    <3>2. drainer' = [drainer EXCEPT ![d] = r]
      BY <1>10 DEF Dispatch
    <3>3. r.id \in Ids
      BY <1>10, <3>1 DEF Dispatch, TypeOK
    <3> QED BY <3>1, <3>2, <3>3, OneDrainer
  <2>5. slot' \in [Hosts -> SlotType]
    BY <1>10, <2>1 DEF Dispatch, TypeOK, SlotType, SlotStates
  <2>6. outcomes' \in [Hosts -> SUBSET Tokens']
    BY <1>10, <2>3 DEF Dispatch, TypeOK
  <2> QED BY <1>10, <2>3, <2>4, <2>5, <2>6
          DEF DrainersTyped, Dispatch, TypeOK, OutboxTypeOK, table, Ids
<1>11. ASSUME NEW d \in Drainers, Poll(d)
       PROVE  TypeOK'
  <2>1. DrainersTyped
    <3> DEFINE r(v) == [drainer[d] EXCEPT !.pc = "settling", !.verdict = v]
    <3>1. \A v \in {Sent, Failed} : r(v) \in DrainerType /\ r(v).id = drainer[d].id
      BY DrainerFields DEF DrainerType, DrainerStates
    <3>2. PICK v \in {Sent, Failed} : drainer' = [drainer EXCEPT ![d] = r(v)]
      BY <1>11 DEF Poll, ReadsOutcome, ReadsSlot, Learned
    <3>3. r(v).id \in Ids
      BY <1>11, <3>1 DEF Poll, TypeOK
    <3> QED BY <3>1, <3>2, <3>3, OneDrainer
  <2>2. outcomes' \in [Hosts -> SUBSET Tokens]
    BY <1>11 DEF Poll, ReadsOutcome, ReadsSlot, TypeOK
  <2> QED BY <1>11, <2>1, <2>2
          DEF DrainersTyped, Poll, TypeOK, OutboxTypeOK, table, Ids, Tokens
<1>12. ASSUME NEW d \in Drainers, TimeOut(d)
       PROVE  TypeOK'
  <2>1. DrainersTyped
    <3> DEFINE r == [drainer[d] EXCEPT !.pc = "settling", !.verdict = Failed]
    <3>1. r \in DrainerType /\ r.id = drainer[d].id
      BY DrainerFields DEF DrainerType, DrainerStates
    <3>2. drainer' = [drainer EXCEPT ![d] = r]
      BY <1>12 DEF TimeOut
    <3>3. r.id \in Ids
      BY <1>12, <3>1 DEF TimeOut, TypeOK
    <3> QED BY <3>1, <3>2, <3>3, OneDrainer
  <2> QED BY <1>12, <2>1
          DEF DrainersTyped, TimeOut, TypeOK, OutboxTypeOK, table, runner, Ids, Tokens
<1>13. ASSUME NEW d \in Drainers, Settle(d)
       PROVE  TypeOK'
  <2>1. DrainersTyped
    BY <1>13, IdleIsTyped, OneDrainer DEF Settle
  <2>2. drainer[d].id \in Ids /\ drainer[d].verdict \in Statuses
    BY <1>13 DEF Settle, TypeOK, DrainerType, Statuses
  <2>3. outbox' \in Seq(Row) /\ Ids' = Ids
    BY <1>13, <2>2, <1>0, SettleWrites DEF Settle, Rewritten
  <2> QED BY <1>13, <2>1, <2>3 DEF DrainersTyped, Settle, TypeOK, OutboxTypeOK, runner, Tokens
<1>14. ASSUME NEW d \in Drainers, Raises(d)
       PROVE  TypeOK'
  <2>1. DrainersTyped
    BY <1>14, IdleIsTyped, OneDrainer DEF Raises
  <2> QED BY <1>14, <2>1
          DEF DrainersTyped, Raises, TypeOK, OutboxTypeOK, table, runner, Ids, Tokens
<1>15. ASSUME NEW t \in Tokens, Reply(t)
       PROVE  TypeOK'
  <2>1. RunsTyped
    <3> DEFINE r(landed) == [runs[t] EXCEPT !.pc = "replied", !.landed = landed]
    <3>1. \A b \in BOOLEAN : r(b) \in RunType /\ r(b).pc = "replied"
      BY RunFields DEF RunType, RunStates
    <3>2. PICK b \in BOOLEAN : runs' = [runs EXCEPT ![t] = r(b)]
      BY <1>15 DEF Reply
    <3> QED BY <3>1, <3>2, OneRun
  <2> QED BY <1>15, <2>1
          DEF RunsTyped, Reply, TypeOK, OutboxTypeOK, table, Ids
<1>16. ASSUME NEW t \in Tokens, Record(t)
       PROVE  TypeOK'
  <2>1. RunsTyped
    <3> DEFINE r(end) == [runs[t] EXCEPT !.pc = "recorded", !.outcome = end]
    <3>1. \A end \in {"done", "error"} :
             r(end) \in RunType /\ r(end).outcome # "none"
      BY RunFields DEF RunType, RunStates
    <3>2. PICK end \in {"done", "error"} : runs' = [runs EXCEPT ![t] = r(end)]
      BY <1>16 DEF Record
    <3> QED BY <3>1, <3>2, OneRun
  <2>2. outcomes' \in [Hosts -> SUBSET Tokens]
    BY <1>16 DEF Record, TypeOK, Trimmed
  <2> QED BY <1>16, <2>1, <2>2
          DEF RunsTyped, Record, TypeOK, OutboxTypeOK, table, Ids
<1>17. ASSUME NEW t \in Tokens, Publish(t)
       PROVE  TypeOK'
  <2>1. RunsTyped
    <3> DEFINE r == [runs[t] EXCEPT !.pc = "ended"]
    <3>1. r \in RunType /\ r.pc = "ended"
      BY RunFields DEF RunType, RunStates
    <3> QED BY <1>17, <3>1, OneRun DEF Publish
  <2>2. slot' \in [Hosts -> SlotType]
    <3>1. runs[t].outcome \in SlotStates
      BY <1>17, RunFields DEF Publish, TypeOK, SlotStates
    <3> QED BY <1>17, <3>1 DEF Publish, TypeOK, SlotType
  <2> QED BY <1>17, <2>1, <2>2
          DEF RunsTyped, Publish, TypeOK, OutboxTypeOK, table, Ids
<1>18. ASSUME NEW h \in Hosts, ScrapeStarts(h) \/ ScrapeEnds(h) \/ OtpSubmitted(h)
       PROVE  TypeOK'
  <2>1. slot[h] \in SlotType
    BY DEF TypeOK
  <2>2. CASE ScrapeStarts(h)
    <3>1. slot' \in [Hosts -> SlotType]
      BY <2>2 DEF ScrapeStarts, TypeOK, SlotType, SlotStates, NoToken
    <3> QED BY <2>2, <3>1
            DEF ScrapeStarts, TypeOK, OutboxTypeOK, table, Ids, Tokens
  <2>3. CASE ScrapeEnds(h)
    <3>1. \A s \in {"done", "error"} :
             [slot[h] EXCEPT !.running = FALSE, !.status = s] \in SlotType
      BY <2>1 DEF SlotType, SlotStates
    <3>2. slot' \in [Hosts -> SlotType]
      BY <2>3, <3>1 DEF ScrapeEnds, TypeOK
    <3> QED BY <2>3, <3>2
            DEF ScrapeEnds, TypeOK, OutboxTypeOK, table, Ids, Tokens
  <2>4. CASE OtpSubmitted(h)
    <3>1. slot' \in [Hosts -> SlotType]
      BY <2>1, <2>4 DEF OtpSubmitted, TypeOK, SlotType, SlotStates
    <3> QED BY <2>4, <3>1
            DEF OtpSubmitted, TypeOK, OutboxTypeOK, table, Ids, Tokens
  <2> QED BY <1>18, <2>2, <2>3, <2>4
<1>19. ASSUME NEW h \in Hosts, Crash(h)
       PROVE  TypeOK'
  <2>1. DrainersTyped
    BY <1>19, IdleIsTyped DEF Crash, TypeOK, DrainersTyped
  <2>2. slot' \in [Hosts -> SlotType]
    BY <1>19 DEF Crash, TypeOK, FreeSlot, SlotType, SlotStates, NoToken
  <2>3. RunsTyped
    <3>1. \A t \in Tokens : [runs[t] EXCEPT !.pc = "killed"] \in RunType
      BY RunFields DEF RunType, RunStates
    <3>2. \A t \in Tokens : runs[t] \in RunType
      BY RunFields
    <3>3. Tokens = 1..Len(runs) /\ Len(runs) \in Nat
      BY DEF TypeOK, Tokens
    <3>4. /\ \A t \in Tokens : runs'[t] \in RunType
          /\ DOMAIN runs' = 1..Len(runs)
      BY <1>19, <3>1, <3>2, <3>3 DEF Crash
    <3>5. runs' \in Seq(RunType) /\ Tokens' = Tokens
      <4>1. runs' \in [1..Len(runs) -> RunType]
        BY <1>19, <3>3, <3>4 DEF Crash
      <4>2. runs' \in Seq(RunType)
        BY <3>3, <4>1, SeqDef
      <4> QED BY <3>3, <3>4, <4>2 DEF Tokens
    <3> QED BY <1>19, <3>5 DEF Crash, TypeOK, RunsTyped
  <2> QED BY <1>19, <2>1, <2>2, <2>3
          DEF DrainersTyped, RunsTyped, Crash, TypeOK, OutboxTypeOK, table, Ids
<1>20. ASSUME NEW p \in Reclaimers, ReclaimReads(p)
       PROVE  TypeOK'
  <2>1. StuckSending \in SUBSET (Ids \X Verdicts)
    BY DEF StuckSending, ReclaimVerdict, Verdicts
  <2> QED BY <1>20, <2>1
          DEF ReclaimReads, TypeOK, OutboxTypeOK, table, runner, Ids, Tokens
<1>21. ASSUME NEW p \in Reclaimers, NEW i \in Ids, NEW v \in Verdicts,
              ReclaimWrites(p, i, v)
       PROVE  TypeOK'
  <2>1. outbox' \in Seq(Row) /\ Ids' = Ids
    BY <1>21, <1>0, ReclaimRowWrites
       DEF ReclaimWrites, Rewritten, OutboxTypeOK, Ids
  <2> QED BY <1>21, <2>1
          DEF ReclaimWrites, TypeOK, OutboxTypeOK, runner, Tokens
<1>22. CASE Tick
  BY <1>22 DEF Tick, TypeOK, OutboxTypeOK, table, runner, Ids, Tokens
<1>23. CASE UNCHANGED vars
  BY <1>23 DEF vars, TypeOK, OutboxTypeOK, Ids, Tokens
<1> QED BY <1>1, <1>2, <1>3, <1>4, <1>5, <1>6, <1>7, <1>8, <1>9, <1>10, <1>11,
           <1>12, <1>13, <1>14, <1>15, <1>16, <1>17, <1>18, <1>19, <1>20,
           <1>21, <1>22, <1>23 DEF Next

\* Every variable keeps its shape: in particular no drainer, run or reclaim
\* pass ever names a message that is not in the table.
THEOREM TypeCorrect == Spec => []TypeOK
BY TypeInit, TypeNext, PTL DEF Spec

-----------------------------------------------------------------------------
(* The claim is exclusive, when reclaim passes do not overlap.  The        *)
(* inductive invariant adds to the property why it holds: ClaimInvariant.  *)

SafeInv == TypeOK /\ ClaimIsExclusive /\ ClaimInvariant

SoleReclaimer == \A p, q \in Reclaimers : p = q

\* A held row has been claimed too recently for a reclaim pass to have read
\* it: the timeout of a send is shorter than the age of a stuck one.
LEMMA HeldIsNotStuck ==
    ASSUME SafeInv, NEW d \in Drainers, Holds(d), NEW p \in Reclaimers,
           NEW x \in reclaim[p]
    PROVE  x[1] # drainer[d].id /\ x[1] \in Ids
<1>1. drainer[d].id \in Ids
  BY DEF SafeInv, TypeOK, Holds
<1>2. /\ outbox[drainer[d].id].sendingAt \in Nat
      /\ now - outbox[drainer[d].id].sendingAt <= SendTimeout
  <2>1. outbox[drainer[d].id].sendingAt \in Nat \cup {NoStamp} /\ now \in Nat
    BY <1>1, RowFields DEF SafeInv, TypeOK, OutboxTypeOK
  <2>2. /\ outbox[drainer[d].id].sendingAt # NoStamp
        /\ now <= outbox[drainer[d].id].sendingAt + SendTimeout
    BY DEF SafeInv, ClaimInvariant, HeldIsFresh
  <2> QED BY <2>1, <2>2, DeliveryAssumption DEF NoStamp
<1>3. ~ TooOld(drainer[d].id)
  <2>1. now \in Nat
    BY DEF SafeInv, TypeOK, OutboxTypeOK
  <2> QED BY <1>2, <2>1, DeliveryAssumption, OutboxAssumption DEF TooOld
<1>4. outbox[x[1]].sendingAt = NoStamp \/ TooOld(x[1])
  BY DEF SafeInv, ClaimInvariant, SnapshotIsStuck
<1>5. x[1] \in Ids
  BY DEF SafeInv, TypeOK
<1> QED BY <1>2, <1>3, <1>4, <1>5 DEF NoStamp

\* Writing a row that nobody holds and no reclaim pass has read.
LEMMA WriteElsewhere ==
    ASSUME SafeInv, NEW i \in Ids, Rewritten(i), UNCHANGED <<now, drainer, reclaim>>,
           outbox[i].status # Sending
    PROVE  (ClaimIsExclusive /\ ClaimInvariant)'
<1>1. \A d \in Drainers : Holds(d) => drainer[d].id # i /\ drainer[d].id \in Ids
  BY DEF SafeInv, ClaimIsExclusive, TypeOK, Holds
<1>2. \A p \in Reclaimers : \A x \in reclaim[p] : x[1] # i /\ x[1] \in Ids
  BY DEF SafeInv, ClaimInvariant, SnapshotIsStuck, TypeOK
<1>3. ClaimIsExclusive'
  BY <1>1 DEF SafeInv, ClaimIsExclusive, Holds, Rewritten
<1>4. HeldIsFresh'
  BY <1>1 DEF SafeInv, ClaimInvariant, HeldIsFresh, Holds, Rewritten
<1>5. SnapshotIsStuck'
  BY <1>2 DEF SafeInv, ClaimInvariant, SnapshotIsStuck, TooOld, Rewritten
<1> QED BY <1>3, <1>4, <1>5 DEF ClaimInvariant

\* Adding rows disturbs no drainer and no reclaim pass.
LEMMA WriteBeyond ==
    ASSUME SafeInv, UNCHANGED <<now, drainer, reclaim>>,
           \A j \in Ids : outbox'[j] = outbox[j]
    PROVE  (ClaimIsExclusive /\ ClaimInvariant)'
<1>1. \A d \in Drainers : Holds(d) => drainer[d].id \in Ids
  BY DEF SafeInv, TypeOK, Holds
<1>2. \A p \in Reclaimers : \A x \in reclaim[p] : x[1] \in Ids
  BY DEF SafeInv, TypeOK
<1>3. ClaimIsExclusive'
  BY <1>1 DEF SafeInv, ClaimIsExclusive, Holds
<1>4. HeldIsFresh'
  BY <1>1 DEF SafeInv, ClaimInvariant, HeldIsFresh, Holds
<1>5. SnapshotIsStuck'
  BY <1>2 DEF SafeInv, ClaimInvariant, SnapshotIsStuck, TooOld
<1> QED BY <1>3, <1>4, <1>5 DEF ClaimInvariant

\* What a drainer that did not take a row may do: let go, or go on with the
\* row it has; when it starts to wait, its deadline is a timeout from now.
GoesOn(e) ==
    Holds(e)' =>
        /\ Holds(e)
        /\ drainer'[e].id = drainer[e].id
        /\ drainer'[e].pc = "claimed" => drainer[e].pc = "claimed"
        /\ drainer'[e].pc = "waiting" =>
              \/ /\ drainer[e].pc = "waiting"
                 /\ drainer'[e].deadline = drainer[e].deadline
              \/ /\ drainer[e].pc = "claimed"
                 /\ drainer'[e].deadline = now + SendTimeout

\* Drainers going on, and reclaim passes being forgotten.
LEMMA NobodyWrites ==
    ASSUME SafeInv, UNCHANGED <<outbox, now>>,
           \A e \in Drainers : GoesOn(e),
           \A p \in Reclaimers : reclaim'[p] \subseteq reclaim[p]
    PROVE  (ClaimIsExclusive /\ ClaimInvariant)'
<1>1. ClaimIsExclusive'
  BY DEF SafeInv, ClaimIsExclusive, GoesOn, Holds
<1>2. HeldIsFresh'
  BY DEF SafeInv, ClaimInvariant, HeldIsFresh, GoesOn, Holds
<1>3. SnapshotIsStuck'
  BY DEF SafeInv, ClaimInvariant, SnapshotIsStuck, TooOld
<1> QED BY <1>1, <1>2, <1>3 DEF ClaimInvariant

\* A drainer that writes the row it holds and lets it go.
LEMMA LetGo ==
    ASSUME SafeInv, NEW d \in Drainers, Holds(d), Rewritten(drainer[d].id),
           drainer' = [drainer EXCEPT ![d] = IdleDrainer],
           UNCHANGED <<now, reclaim>>
    PROVE  (ClaimIsExclusive /\ ClaimInvariant)'
<1>1. \A e \in Drainers : Holds(e)' =>
         /\ e # d /\ Holds(e) /\ drainer'[e] = drainer[e]
         /\ drainer[e].id # drainer[d].id /\ drainer[e].id \in Ids
  BY IdleIsTyped DEF SafeInv, TypeOK, ClaimIsExclusive, Holds
<1>2. ClaimIsExclusive'
  BY <1>1 DEF SafeInv, ClaimIsExclusive, Rewritten, Holds
<1>3. HeldIsFresh'
  BY <1>1 DEF SafeInv, ClaimInvariant, HeldIsFresh, Rewritten
<1>4. SnapshotIsStuck'
  BY HeldIsNotStuck
     DEF SafeInv, ClaimInvariant, SnapshotIsStuck, TooOld, Rewritten
<1> QED BY <1>2, <1>3, <1>4 DEF ClaimInvariant

\* No drainer holds a row at start-up, and no pass has read one.
LEMMA SafeInit == Init => SafeInv
<1> SUFFICES ASSUME Init PROVE SafeInv
  OBVIOUS
<1>1. /\ \A d \in Drainers : ~ Holds(d)
      /\ \A p \in Reclaimers : reclaim[p] = {}
  BY IdleIsTyped DEF Init, Holds
<1> QED BY <1>1, TypeInit
        DEF SafeInv, ClaimIsExclusive, ClaimInvariant, HeldIsFresh, SnapshotIsStuck

\* The invariant is inductive.  Only four actions are close to breaking it:
\* the claim, the write of an outcome, the write of a reclaim pass, and time.
LEMMA SafeNext ==
    ASSUME SoleReclaimer, SafeInv, [Next]_vars
    PROVE  SafeInv'
<1> DEFINE Goal == (ClaimIsExclusive /\ ClaimInvariant)'
<1>0. TypeOK /\ OutboxTypeOK
  BY DEF SafeInv, TypeOK
<1>1. ASSUME NEW item \in Items, NEW body \in Bodies, SendClicked(item, body)
      PROVE  Goal
  <2>1. Add(item, body, TRUE, now) /\ now \in Nat
    BY <1>0, <1>1 DEF SendClicked, AddGuarded, OutboxTypeOK
  <2>2. \A j \in Ids : outbox'[j] = outbox[j]
    BY <1>0, <2>1, AddRow
  <2> QED BY <1>1, <2>2, WriteBeyond DEF SendClicked
<1>2. ASSUME NEW item \in Items, NEW body \in Bodies, Drafted(item, body)
      PROVE  Goal
  <2>1. PICK auto \in {FALSE, AutoArmed}, delay \in Delays :
            Add(item, body, auto, now + delay)
    BY <1>2 DEF Drafted
  <2>2. auto \in BOOLEAN
    BY <2>1, DeliveryAssumption
  <2>3. now + delay \in Nat
    BY <1>0, <1>2, DeliveryAssumption DEF OutboxTypeOK
  <2>4. \A j \in Ids : outbox'[j] = outbox[j]
    BY <1>0, <2>1, <2>2, <2>3, AddRow
  <2> QED BY <1>2, <2>4, WriteBeyond DEF Drafted
<1>3. ASSUME NEW i \in Ids, NEW body \in Bodies, Approve(i, body)
      PROVE  Goal
  <2>1. Rewritten(i) /\ outbox[i].status # Sending
    BY <1>0, <1>3, ReleaseWrites
       DEF Approve, Release, Approvable, Pending, Failed, Sending
  <2> QED BY <1>3, <2>1, WriteElsewhere DEF Approve
<1>4. ASSUME NEW i \in Ids, Retry(i)
      PROVE  Goal
  <2>1. Rewritten(i) /\ outbox[i].status # Sending
    BY <1>0, <1>4, RowFields, ReleaseWrites
       DEF Retry, Release, Failed, Sending
  <2> QED BY <1>4, <2>1, WriteElsewhere DEF Retry
<1>5. ASSUME NEW i \in Ids, Cancel(i)
      PROVE  Goal
  BY <1>0, <1>5, CancelWrites, WriteElsewhere DEF Cancel
<1>6. ASSUME NEW d \in Drainers, NEW i \in Ids, Pick(d, i)
      PROVE  Goal
  <2>1. \A e \in Drainers : GoesOn(e)
    BY <1>0, <1>6 DEF Pick, GoesOn, Holds, TypeOK
  <2> QED BY <1>6, <2>1, NobodyWrites DEF Pick, table
<1>7. ASSUME NEW d \in Drainers, Claim(d)
      PROVE  Goal
  <2> DEFINE i == drainer[d].id
  <2>1. i \in Ids
    BY <1>0, <1>7 DEF Claim, TypeOK
  <2>2. CASE ClaimRow(i) /\ drainer' = [drainer EXCEPT ![d].pc = "claimed"]
    <3>1. /\ Rewritten(i)
          /\ outbox[i].status = Queued
          /\ outbox'[i].status = Sending
          /\ outbox'[i].sendingAt = now
      BY <1>0, <2>1, <2>2, ClaimWrites
    <3>2. \A e \in Drainers : Holds(e) => drainer[e].id # i /\ drainer[e].id \in Ids
      BY <3>1, <1>0 DEF SafeInv, ClaimIsExclusive, TypeOK, Holds, Queued, Sending
    <3>3. \A e \in Drainers \ {d} : drainer'[e] = drainer[e]
      BY <1>0, <2>2 DEF TypeOK
    <3>4. drainer'[d].pc = "claimed" /\ drainer'[d].id = i
      BY <1>0, <2>2 DEF TypeOK, DrainerType
    <3>5. \A p \in Reclaimers : \A x \in reclaim[p] : x[1] # i /\ x[1] \in Ids
      BY <3>1, <1>0
         DEF SafeInv, ClaimInvariant, SnapshotIsStuck, TypeOK, Queued, Sending
    <3>6. now' = now /\ reclaim' = reclaim /\ now \in Nat
      BY <1>0, <1>7 DEF Claim, OutboxTypeOK
    <3>7. ClaimIsExclusive'
      BY <3>1, <3>2, <3>3, <3>4 DEF SafeInv, ClaimIsExclusive, Rewritten, Holds
    <3>8. HeldIsFresh'
      <4>1. now <= now + SendTimeout /\ now # NoStamp
        BY <3>6, DeliveryAssumption DEF NoStamp
      <4> QED BY <3>1, <3>2, <3>3, <3>4, <3>6, <4>1
              DEF SafeInv, ClaimInvariant, HeldIsFresh, Rewritten, Holds
    <3>9. SnapshotIsStuck'
      BY <3>1, <3>5, <3>6
         DEF SafeInv, ClaimInvariant, SnapshotIsStuck, TooOld, Rewritten
    <3> QED BY <3>7, <3>8, <3>9 DEF ClaimInvariant
  <2>3. CASE drainer' = [drainer EXCEPT ![d] = IdleDrainer] /\ UNCHANGED outbox
    <3>1. \A e \in Drainers : GoesOn(e)
      BY <1>0, <2>3, IdleIsTyped DEF GoesOn, Holds, TypeOK
    <3> QED BY <1>7, <2>3, <3>1, NobodyWrites DEF Claim
  <2> QED BY <1>7, <2>2, <2>3 DEF Claim
<1>8. ASSUME NEW d \in Drainers, Busy(d)
      PROVE  Goal
  <2>1. \A e \in Drainers : GoesOn(e)
    BY <1>0, <1>8 DEF Busy, GoesOn, Holds, TypeOK
  <2> QED BY <1>8, <2>1, NobodyWrites DEF Busy, table
<1>9. ASSUME NEW d \in Drainers, GiveBack(d)
      PROVE  Goal
  <2>1. Holds(d) /\ drainer[d].id \in Ids
    BY <1>0, <1>9 DEF GiveBack, Holds, TypeOK
  <2>2. outbox[drainer[d].id].status = Sending
    BY <2>1 DEF SafeInv, ClaimIsExclusive
  <2>3. Rewritten(drainer[d].id)
    BY <1>0, <1>9, <2>1, <2>2, GiveBackWrites DEF GiveBack
  <2> QED BY <1>9, <2>1, <2>3, LetGo DEF GiveBack
<1>10. ASSUME NEW d \in Drainers, Dispatch(d)
       PROVE  Goal
  <2>1. \A e \in Drainers : GoesOn(e)
    BY <1>0, <1>10 DEF Dispatch, GoesOn, Holds, TypeOK
  <2> QED BY <1>10, <2>1, NobodyWrites DEF Dispatch, table
<1>11. ASSUME NEW d \in Drainers, Poll(d)
       PROVE  Goal
  <2>1. \A e \in Drainers : GoesOn(e)
    <3>1. PICK v : drainer' = [drainer EXCEPT ![d].pc = "settling", ![d].verdict = v]
      BY <1>11 DEF Poll, ReadsOutcome, ReadsSlot, Learned
    <3>2. drainer[d].pc = "waiting"
      BY <1>11 DEF Poll
    <3> QED BY <1>0, <3>1, <3>2 DEF GoesOn, Holds, TypeOK
  <2> QED BY <1>11, <2>1, NobodyWrites DEF Poll, table
<1>12. ASSUME NEW d \in Drainers, TimeOut(d)
       PROVE  Goal
  <2>1. \A e \in Drainers : GoesOn(e)
    BY <1>0, <1>12 DEF TimeOut, GoesOn, Holds, TypeOK
  <2> QED BY <1>12, <2>1, NobodyWrites DEF TimeOut, table
<1>13. ASSUME NEW d \in Drainers, Settle(d)
       PROVE  Goal
  <2>1. Holds(d) /\ drainer[d].id \in Ids
    BY <1>0, <1>13 DEF Settle, Holds, TypeOK
  <2>2. drainer[d].verdict \in Statuses
    BY <1>0, DrainerFields DEF Statuses
  <2>3. Rewritten(drainer[d].id)
    BY <1>0, <1>13, <2>1, <2>2, SettleWrites DEF Settle
  <2> QED BY <1>13, <2>1, <2>3, LetGo DEF Settle
<1>14. ASSUME NEW d \in Drainers, Raises(d)
       PROVE  Goal
  <2>1. \A e \in Drainers : GoesOn(e)
    BY <1>0, <1>14, IdleIsTyped DEF Raises, GoesOn, Holds, TypeOK
  <2> QED BY <1>14, <2>1, NobodyWrites DEF Raises, table
<1>15. ASSUME UNCHANGED <<outbox, now, drainer, reclaim>>
       PROVE  Goal
  <2>1. \A e \in Drainers : GoesOn(e)
    BY <1>15 DEF GoesOn, Holds
  <2> QED BY <1>15, <2>1, NobodyWrites
<1>16. ASSUME NEW t \in Tokens, Reply(t) \/ Record(t) \/ Publish(t)
       PROVE  Goal
  BY <1>15, <1>16 DEF Reply, Record, Publish, table
<1>17. ASSUME NEW h \in Hosts, ScrapeStarts(h) \/ ScrapeEnds(h) \/ OtpSubmitted(h)
       PROVE  Goal
  BY <1>15, <1>17 DEF ScrapeStarts, ScrapeEnds, OtpSubmitted, table
<1>18. ASSUME NEW h \in Hosts, Crash(h)
       PROVE  Goal
  <2>1. \A e \in Drainers : GoesOn(e)
    BY <1>18, IdleIsTyped DEF Crash, GoesOn, Holds
  <2>2. \A p \in Reclaimers : reclaim'[p] \subseteq reclaim[p]
    BY <1>18 DEF Crash
  <2> QED BY <1>18, <2>1, <2>2, NobodyWrites DEF Crash, table
<1>19. ASSUME NEW p \in Reclaimers, ReclaimReads(p)
       PROVE  Goal
  <2>1. \A x \in StuckSending :
           /\ outbox[x[1]].status = Sending
           /\ outbox[x[1]].sendingAt = NoStamp \/ TooOld(x[1])
           /\ \A y \in StuckSending : x[1] = y[1] => x = y
    BY DEF StuckSending
  <2>2. UNCHANGED <<outbox, now, drainer>>
    BY <1>19 DEF ReclaimReads, table
  <2>3. \A q \in Reclaimers : reclaim'[q] = StuckSending \/ reclaim'[q] = reclaim[q]
    BY <1>0, <1>19 DEF ReclaimReads, TypeOK
  <2>4. SnapshotIsStuck'
    BY <2>1, <2>2, <2>3 DEF SafeInv, ClaimInvariant, SnapshotIsStuck, TooOld
  <2>5. (ClaimIsExclusive /\ HeldIsFresh)'
    BY <2>2 DEF SafeInv, ClaimIsExclusive, ClaimInvariant, HeldIsFresh, Holds
  <2> QED BY <2>4, <2>5 DEF ClaimInvariant
<1>20. ASSUME NEW p \in Reclaimers, NEW i \in Ids, NEW v \in Verdicts,
              ReclaimWrites(p, i, v)
       PROVE  Goal
  <2>1. <<i, v>> \in reclaim[p] /\ outbox[i].status = Sending
    BY <1>20
       DEF ReclaimWrites, SafeInv, ClaimInvariant, SnapshotIsStuck
  <2>2. Rewritten(i)
    BY <1>0, <1>20, <2>1, ReclaimRowWrites DEF ReclaimWrites
  <2>3. \A d \in Drainers : Holds(d) => drainer[d].id # i /\ drainer[d].id \in Ids
    BY <2>1, <1>0, HeldIsNotStuck DEF TypeOK, Holds
  <2>4. UNCHANGED <<now, drainer>>
    BY <1>20 DEF ReclaimWrites
  <2>5. \A q \in Reclaimers : \A x \in reclaim'[q] : x \in reclaim[q] /\ x[1] # i
    <3>1. \A q \in Reclaimers : q = p
      BY DEF SoleReclaimer
    <3>2. reclaim'[p] = reclaim[p] \ {<<i, v>>}
      BY <1>0, <1>20 DEF ReclaimWrites, TypeOK
    <3>3. \A x \in reclaim[p] : x[1] = i => x = <<i, v>>
      BY <2>1 DEF SafeInv, ClaimInvariant, SnapshotIsStuck
    <3> QED BY <3>1, <3>2, <3>3
  <2>6. \A q \in Reclaimers : \A x \in reclaim[q] : x[1] \in Ids
    BY <1>0 DEF TypeOK
  <2>7. (ClaimIsExclusive /\ HeldIsFresh)'
    BY <2>2, <2>3, <2>4
       DEF SafeInv, ClaimIsExclusive, ClaimInvariant, HeldIsFresh, Holds, Rewritten
  <2>8. SnapshotIsStuck'
    BY <2>2, <2>4, <2>5, <2>6
       DEF SafeInv, ClaimInvariant, SnapshotIsStuck, TooOld, Rewritten
  <2> QED BY <2>7, <2>8 DEF ClaimInvariant
<1>21. ASSUME Tick
       PROVE  Goal
  <2>1. /\ now' = now + 1 /\ now \in Nat
        /\ UNCHANGED <<outbox, drainer, reclaim>>
    BY <1>0, <1>21 DEF Tick, OutboxTypeOK, table
  <2>2. \A d \in Drainers : Holds(d) =>
           /\ drainer[d].pc = "waiting"
           /\ now < drainer[d].deadline
           /\ drainer[d].id \in Ids
           /\ outbox[drainer[d].id].sendingAt \in Nat
    BY <1>0, <1>21, RowFields
       DEF Tick, Holds, TypeOK, SafeInv, ClaimInvariant, HeldIsFresh
  <2>3. HeldIsFresh'
    <3> SUFFICES ASSUME NEW d \in Drainers, Holds(d)
                 PROVE  LET row == outbox[drainer[d].id]
                        IN  /\ row.sendingAt # NoStamp
                            /\ now + 1 <= row.sendingAt + SendTimeout
                            /\ drainer[d].pc = "claimed" => row.sendingAt = now + 1
                            /\ drainer[d].pc = "waiting" =>
                                  drainer[d].deadline = row.sendingAt + SendTimeout
      BY <2>1 DEF HeldIsFresh, Holds
    <3>1. /\ outbox[drainer[d].id].sendingAt # NoStamp
          /\ drainer[d].deadline = outbox[drainer[d].id].sendingAt + SendTimeout
      BY <2>2 DEF SafeInv, ClaimInvariant, HeldIsFresh
    <3>2. drainer[d].deadline \in Nat
      BY <1>0, DrainerFields
    <3> QED BY <2>1, <2>2, <3>1, <3>2
  <2>4. \A i \in Ids : outbox[i].sendingAt \in Nat /\ TooOld(i) => TooOld(i)'
    BY <2>1, OutboxAssumption DEF TooOld
  <2>5. SnapshotIsStuck'
    BY <1>0, <2>1, <2>4, RowFields
       DEF SafeInv, ClaimInvariant, SnapshotIsStuck, TypeOK
  <2>6. ClaimIsExclusive'
    BY <2>1 DEF SafeInv, ClaimIsExclusive, Holds
  <2> QED BY <2>3, <2>5, <2>6 DEF ClaimInvariant
<1>22. ASSUME UNCHANGED vars
       PROVE  Goal
  BY <1>15, <1>22 DEF vars
<1>23. TypeOK'
  BY <1>0, TypeNext
<1>24. Goal
  BY <1>1, <1>2, <1>3, <1>4, <1>5, <1>6, <1>7, <1>8, <1>9, <1>10, <1>11, <1>12,
     <1>13, <1>14, <1>16, <1>17, <1>18, <1>19, <1>20, <1>21, <1>22 DEF Next
<1> QED BY <1>23, <1>24 DEF SafeInv

\* No two drainers ever hold one message, and nobody moves a message a
\* drainer holds: the write of the outcome, which has no guard, always finds
\* the row as its claim left it.  Proved for any number of processes,
\* drainers and messages, provided reclaim passes do not overlap.
THEOREM ClaimExclusive ==
    ASSUME SoleReclaimer
    PROVE  Spec => []ClaimIsExclusive
<1>1. SafeInv /\ [Next]_vars => SafeInv'
  BY SafeNext
<1>2. SafeInv => ClaimIsExclusive
  BY DEF SafeInv
<1> QED BY SafeInit, <1>1, <1>2, PTL DEF Spec

-----------------------------------------------------------------------------
(* One message on its way per guest.  The property is inductive given the  *)
(* types, so nothing is assumed of the reclaim passes.                     *)

\* A write that puts no row newly on its way.
LEMMA NothingSetsOut ==
    ASSUME OneInFlightPerGuest, NEW i \in Ids, Rewritten(i),
           outbox'[i].status \in InFlight => outbox[i].status \in InFlight
    PROVE  OneInFlightPerGuest'
BY DEF OneInFlightPerGuest, SiblingInFlight, Siblings, Rewritten

\* A release sets a row out only when no sibling is on its way.
LEMMA ReleaseIsAlone ==
    ASSUME OutboxTypeOK, OneInFlightPerGuest, NEW i \in Ids, NEW from,
           NEW body \in Bodies, Release(i, from, body)
    PROVE  OneInFlightPerGuest'
<1>1. Rewritten(i) /\ ~ SiblingInFlight(outbox[i].item, i)
  BY ReleaseWrites DEF Release
<1> QED BY <1>1 DEF OneInFlightPerGuest, SiblingInFlight, Siblings, Rewritten

\* A step that leaves the table alone.
LEMMA TableUnchanged ==
    ASSUME UNCHANGED outbox
    PROVE  /\ OneInFlightPerGuest => OneInFlightPerGuest'
           /\ SentWordsDistinct => SentWordsDistinct'
BY DEF OneInFlightPerGuest, SentWordsDistinct, SiblingInFlight, AlreadySent,
       Siblings, Ids

\* What one step may do to the table: add a row, release one, move one
\* along, or nothing.
TableStep ==
    \/ UNCHANGED outbox
    \/ \E item \in Items, body \in Bodies : AddGuarded(item, body)
    \/ \E item \in Items, body \in Bodies, auto \in {FALSE, AutoArmed}, at \in Nat :
          Add(item, body, auto, at)
    \/ \E i \in Ids, from \in {Approvable, {Failed}}, body \in Bodies :
          Release(i, from, body)
    \/ \E i \in Ids :
          /\ Rewritten(i)
          /\ outbox'[i].body = outbox[i].body
          /\ outbox'[i].status \in InFlight => outbox[i].status \in InFlight
          /\ outbox'[i].status = Sent =>
                \E d \in Drainers : Holds(d) /\ drainer[d].id = i

\* Every step of every actor is one of those.
LEMMA StepsOfTheTable ==
    ASSUME TypeOK, [Next]_vars
    PROVE  TableStep
<1>0. OutboxTypeOK
  BY DEF TypeOK
<1>1. ASSUME NEW item \in Items, NEW body \in Bodies, SendClicked(item, body)
      PROVE  TableStep
  BY <1>1 DEF SendClicked, TableStep
<1>2. ASSUME NEW item \in Items, NEW body \in Bodies, Drafted(item, body)
      PROVE  TableStep
  <2>1. PICK auto \in {FALSE, AutoArmed}, delay \in Delays :
            Add(item, body, auto, now + delay)
    BY <1>2 DEF Drafted
  <2>2. now + delay \in Nat
    BY <1>0, DeliveryAssumption DEF OutboxTypeOK
  <2> QED BY <2>1, <2>2 DEF TableStep
<1>3. ASSUME NEW i \in Ids, NEW body \in Bodies, Approve(i, body)
      PROVE  TableStep
  BY <1>3 DEF Approve, TableStep
<1>4. ASSUME NEW i \in Ids, Retry(i)
      PROVE  TableStep
  BY <1>0, <1>4, RowFields DEF Retry, TableStep
<1>5. ASSUME NEW i \in Ids, Cancel(i)
      PROVE  TableStep
  BY <1>0, <1>5, CancelWrites
     DEF Cancel, TableStep, InFlight, Queued, Sending, Sent, Canceled
<1>6. ASSUME NEW d \in Drainers, Claim(d)
      PROVE  TableStep
  <2>1. drainer[d].id \in Ids
    BY <1>6 DEF Claim, TypeOK
  <2>2. CASE ClaimRow(drainer[d].id)
    BY <1>0, <2>1, <2>2, ClaimWrites
       DEF TableStep, InFlight, Queued, Sending, Sent
  <2> QED BY <1>6, <2>2 DEF Claim, TableStep
<1>7. ASSUME NEW d \in Drainers, GiveBack(d)
      PROVE  TableStep
  <2>1. drainer[d].id \in Ids
    BY <1>7 DEF GiveBack, TypeOK
  <2> QED BY <1>0, <1>7, <2>1, GiveBackWrites
          DEF GiveBack, TableStep, InFlight, Queued, Sending, Sent
<1>8. ASSUME NEW d \in Drainers, Settle(d)
      PROVE  TableStep
  <2>1. Holds(d) /\ drainer[d].id \in Ids
    BY <1>8 DEF Settle, Holds, TypeOK
  <2>2. drainer[d].verdict \in {Sent, Failed} /\ {Sent, Failed} \subseteq Statuses
    BY DrainerFields DEF Statuses
  <2> QED BY <1>0, <1>8, <2>1, <2>2, SettleWrites
          DEF Settle, TableStep, InFlight, Queued, Sending, Sent, Failed
<1>9. ASSUME NEW p \in Reclaimers, NEW i \in Ids, NEW v \in Verdicts,
             ReclaimWrites(p, i, v)
      PROVE  TableStep
  BY <1>0, <1>9, ReclaimRowWrites
     DEF ReclaimWrites, TableStep, InFlight, Queued, Sending, Sent, Failed
<1>10. ASSUME UNCHANGED outbox
       PROVE  TableStep
  BY <1>10 DEF TableStep
<1>11. ASSUME NEW d \in Drainers, \/ \E i \in Ids : Pick(d, i)
                                  \/ Busy(d) \/ Dispatch(d) \/ Poll(d)
                                  \/ TimeOut(d) \/ Raises(d)
       PROVE  TableStep
  BY <1>10, <1>11 DEF Pick, Busy, Dispatch, Poll, TimeOut, Raises, table
<1>12. ASSUME NEW t \in Tokens, Reply(t) \/ Record(t) \/ Publish(t)
       PROVE  TableStep
  BY <1>10, <1>12 DEF Reply, Record, Publish, table
<1>13. ASSUME NEW h \in Hosts, \/ ScrapeStarts(h) \/ ScrapeEnds(h)
                               \/ OtpSubmitted(h) \/ Crash(h)
       PROVE  TableStep
  BY <1>10, <1>13 DEF ScrapeStarts, ScrapeEnds, OtpSubmitted, Crash, table
<1>14. ASSUME NEW p \in Reclaimers, ReclaimReads(p)
       PROVE  TableStep
  BY <1>10, <1>14 DEF ReclaimReads, table
<1>15. ASSUME Tick \/ UNCHANGED vars
       PROVE  TableStep
  BY <1>10, <1>15 DEF Tick, table, vars
<1> QED BY <1>1, <1>2, <1>3, <1>4, <1>5, <1>6, <1>7, <1>8, <1>9, <1>11, <1>12,
           <1>13, <1>14, <1>15 DEF Next

\* No step sets a second message out to a guest who has one coming.
LEMMA OneInFlightNext ==
    ASSUME TypeOK, OneInFlightPerGuest, [Next]_vars
    PROVE  OneInFlightPerGuest'
<1>0. OutboxTypeOK /\ TableStep
  BY StepsOfTheTable DEF TypeOK
<1>1. CASE UNCHANGED outbox
  BY <1>1, TableUnchanged
<1>2. ASSUME NEW item \in Items, NEW body \in Bodies, AddGuarded(item, body)
      PROVE  OneInFlightPerGuest'
  <2>1. Add(item, body, TRUE, now) /\ now \in Nat /\ ~ SiblingInFlight(item, 0)
    BY <1>0, <1>2 DEF AddGuarded, OutboxTypeOK
  <2>2. TRUE \in BOOLEAN
    OBVIOUS
  <2>4. /\ Ids' = Ids \cup {Len(outbox')}
        /\ outbox'[Len(outbox')].item = item
        /\ \A j \in Ids : outbox'[j] = outbox[j]
    BY <1>0, <2>1, <2>2, AddRow
  <2>3. \A j \in Ids : outbox[j].item = item => outbox[j].status \notin InFlight
    BY <1>0, <2>1 DEF SiblingInFlight, Siblings, Ids, OutboxTypeOK
  <2> QED BY <2>4, <2>3 DEF OneInFlightPerGuest, SiblingInFlight, Siblings
<1>3. ASSUME NEW item \in Items, NEW body \in Bodies,
             NEW auto \in {FALSE, AutoArmed}, NEW at \in Nat,
             Add(item, body, auto, at)
      PROVE  OneInFlightPerGuest'
  <2> SUFFICES ASSUME ~ AutoArmed PROVE OneInFlightPerGuest'
    BY DEF OneInFlightPerGuest
  <2>1. auto = FALSE
    BY DeliveryAssumption, Zenon
  <2>2. /\ Ids' = Ids \cup {Len(outbox')}
        /\ outbox'[Len(outbox')].status \notin InFlight
        /\ \A j \in Ids : outbox'[j] = outbox[j]
    BY <1>0, <1>3, <2>1, AddRow DEF InFlight, Pending, Queued, Sending
  <2> QED BY <2>2 DEF OneInFlightPerGuest, SiblingInFlight, Siblings
<1>4. ASSUME NEW i \in Ids, NEW from, NEW body \in Bodies, Release(i, from, body)
      PROVE  OneInFlightPerGuest'
  BY <1>0, <1>4, ReleaseIsAlone
<1>5. ASSUME NEW i \in Ids, Rewritten(i),
             outbox'[i].status \in InFlight => outbox[i].status \in InFlight
      PROVE  OneInFlightPerGuest'
  BY <1>5, NothingSetsOut
<1> QED BY <1>0, <1>1, <1>2, <1>3, <1>4, <1>5 DEF TableStep

\* When no step is armed for unattended sending, a guest never has two
\* messages on their way, however approvals, retries, clicks, claims, crashes
\* and reclaims interleave.
THEOREM OneInFlight == Spec => []OneInFlightPerGuest
<1>1. Init => OneInFlightPerGuest
  BY DEF Init, OutboxInit, OneInFlightPerGuest, SiblingInFlight, Siblings, Ids
<1>2. TypeOK /\ OneInFlightPerGuest /\ [Next]_vars => OneInFlightPerGuest'
  BY OneInFlightNext
<1> QED BY <1>1, <1>2, TypeCorrect, PTL DEF Spec

-----------------------------------------------------------------------------
(* No text is sent twice to one guest.  Only the unconditional write of an *)
(* outcome makes a row `sent`, so the invariant looks one step ahead of    *)
(* the property: a text that is on its way has not been sent either.       *)

WordsAreFresh ==
    ~ AutoArmed =>
        \A i \in Ids : outbox[i].status \in InFlight \cup {Sent} =>
            ~ AlreadySent(outbox[i].item, outbox[i].body, i)

\* A write that keeps the text, and that neither sets a row out nor records
\* it as sent.
LEMMA WordsUntouched ==
    ASSUME WordsAreFresh, NEW i \in Ids, Rewritten(i),
           outbox'[i].body = outbox[i].body,
           outbox'[i].status \in InFlight => outbox[i].status \in InFlight,
           outbox'[i].status # Sent
    PROVE  WordsAreFresh'
BY DEF WordsAreFresh, AlreadySent, Siblings, Rewritten

\* Recording as sent a row that was on its way: its text had not been sent,
\* and no sibling was on its way with the same one.
LEMMA WordsSettled ==
    ASSUME WordsAreFresh, OneInFlightPerGuest, NEW i \in Ids, Rewritten(i),
           outbox'[i].body = outbox[i].body,
           outbox[i].status = Sending, outbox'[i].status = Sent
    PROVE  WordsAreFresh'
<1> SUFFICES ASSUME ~ AutoArmed, NEW j \in Ids, NEW k \in Ids \ {j},
                    outbox'[j].status \in InFlight \cup {Sent},
                    outbox'[k].item = outbox'[j].item,
                    outbox'[k].status = Sent,
                    outbox'[k].body = outbox'[j].body
             PROVE  FALSE
  BY DEF WordsAreFresh, AlreadySent, Siblings, Rewritten
<1>1. Sending \in InFlight /\ Sent \notin InFlight
  BY DEF InFlight, Sent, Sending, Queued
<1>2. CASE i = j
  <2>1. outbox[k].status = Sent /\ outbox[k].body = outbox[i].body
        /\ outbox[k].item = outbox[i].item
    BY <1>2 DEF Rewritten
  <2> QED BY <1>1, <2>1, <1>2 DEF WordsAreFresh, AlreadySent, Siblings
<1>3. CASE i = k
  <2>1. outbox[j].body = outbox[i].body /\ outbox[j].item = outbox[i].item
        /\ outbox[j].status \in InFlight \cup {Sent}
    BY <1>3 DEF Rewritten
  <2>2. outbox[j].status # Sent
    BY <1>1, <1>3, <2>1 DEF WordsAreFresh, AlreadySent, Siblings
  <2>3. outbox[j].status \notin InFlight
    BY <1>1, <1>3, <2>1 DEF OneInFlightPerGuest, SiblingInFlight, Siblings
  <2> QED BY <2>1, <2>2, <2>3
<1>4. CASE i # j /\ i # k
  BY <1>4 DEF WordsAreFresh, AlreadySent, Siblings, Rewritten
<1> QED BY <1>2, <1>3, <1>4

\* No step sets out, or records as sent, a text the guest already has.
LEMMA WordsNext ==
    ASSUME TypeOK, ClaimIsExclusive, OneInFlightPerGuest, WordsAreFresh,
           [Next]_vars
    PROVE  WordsAreFresh'
<1>0. OutboxTypeOK /\ TableStep
  BY StepsOfTheTable DEF TypeOK
<1>1. CASE UNCHANGED outbox
  BY <1>1 DEF WordsAreFresh, AlreadySent, Siblings, Ids
<1>2. ASSUME NEW item \in Items, NEW body \in Bodies, AddGuarded(item, body)
      PROVE  WordsAreFresh'
  <2>1. Add(item, body, TRUE, now) /\ now \in Nat /\ ~ AlreadySent(item, body, 0)
    BY <1>0, <1>2 DEF AddGuarded, OutboxTypeOK
  <2>2. TRUE \in BOOLEAN
    OBVIOUS
  <2>3. /\ Ids' = Ids \cup {Len(outbox')}
        /\ outbox'[Len(outbox')].item = item
        /\ outbox'[Len(outbox')].body = body
        /\ outbox'[Len(outbox')].status = Queued
        /\ \A j \in Ids : outbox'[j] = outbox[j]
    BY <1>0, <2>1, <2>2, AddRow
  <2>4. \A j \in Ids : ~ (/\ outbox[j].item = item /\ outbox[j].status = Sent
                          /\ outbox[j].body = body)
    BY <1>0, <2>1 DEF AlreadySent, Siblings, Ids, OutboxTypeOK
  <2>5. Queued # Sent
    BY DEF Queued, Sent
  <2> QED BY <2>3, <2>4, <2>5 DEF WordsAreFresh, AlreadySent, Siblings
<1>3. ASSUME NEW item \in Items, NEW body \in Bodies,
             NEW auto \in {FALSE, AutoArmed}, NEW at \in Nat,
             Add(item, body, auto, at)
      PROVE  WordsAreFresh'
  <2> SUFFICES ASSUME ~ AutoArmed PROVE WordsAreFresh'
    BY DEF WordsAreFresh
  <2>1. auto = FALSE
    BY DeliveryAssumption, Zenon
  <2>2. /\ Ids' = Ids \cup {Len(outbox')}
        /\ outbox'[Len(outbox')].status \notin InFlight \cup {Sent}
        /\ \A j \in Ids : outbox'[j] = outbox[j]
    BY <1>0, <1>3, <2>1, AddRow DEF InFlight, Pending, Queued, Sending, Sent
  <2> QED BY <2>2 DEF WordsAreFresh, AlreadySent, Siblings
<1>4. ASSUME NEW i \in Ids, NEW from, NEW body \in Bodies, Release(i, from, body)
      PROVE  WordsAreFresh'
  <2>1. /\ Rewritten(i)
        /\ outbox'[i].status = Queued /\ outbox'[i].body = body
        /\ ~ AlreadySent(outbox[i].item, body, i)
    BY <1>0, <1>4, ReleaseWrites DEF Release
  <2>2. Queued # Sent
    BY DEF Queued, Sent
  <2> QED BY <2>1, <2>2 DEF WordsAreFresh, AlreadySent, Siblings, Rewritten
<1>5. ASSUME NEW i \in Ids, Rewritten(i),
             outbox'[i].body = outbox[i].body,
             outbox'[i].status \in InFlight => outbox[i].status \in InFlight,
             outbox'[i].status = Sent =>
                \E d \in Drainers : Holds(d) /\ drainer[d].id = i
      PROVE  WordsAreFresh'
  <2>1. CASE outbox'[i].status = Sent
    <3>1. outbox[i].status = Sending
      BY <1>5, <2>1 DEF ClaimIsExclusive
    <3> QED BY <1>5, <2>1, <3>1, WordsSettled
  <2>2. CASE outbox'[i].status # Sent
    BY <1>5, <2>2, WordsUntouched
  <2> QED BY <2>1, <2>2
<1> QED BY <1>0, <1>1, <1>2, <1>3, <1>4, <1>5 DEF TableStep

\* When no step is armed for unattended sending and reclaim passes do not
\* overlap, no two messages recorded as sent to one guest carry the same
\* text: the guard of the release, which reads the table once and never
\* again, is enough.
THEOREM SentWordsAreDistinct ==
    ASSUME SoleReclaimer
    PROVE  Spec => []SentWordsDistinct
<1>1. Init => WordsAreFresh
  BY DEF Init, OutboxInit, WordsAreFresh, AlreadySent, Siblings, Ids
<1>2. /\ TypeOK /\ ClaimIsExclusive /\ OneInFlightPerGuest /\ WordsAreFresh
      /\ [Next]_vars
      => WordsAreFresh'
  BY WordsNext
<1>3. WordsAreFresh => SentWordsDistinct
  BY DEF WordsAreFresh, SentWordsDistinct
<1> QED BY <1>1, <1>2, <1>3, TypeCorrect, ClaimExclusive, OneInFlight, PTL
        DEF Spec
=============================================================================
