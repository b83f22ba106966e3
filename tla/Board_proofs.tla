---------------------------- MODULE Board_proofs ----------------------------
(***************************************************************************)
(* Theorems about Board, for every number of guests, texts, rows and ticks:*)
(* the rules that are written twice give one answer, and what a page shows *)
(* and offers is what the writes do.                                       *)
(***************************************************************************)
EXTENDS Board, Greatest

-----------------------------------------------------------------------------
(* The deal's state, in Python and in SQL: no behaviour needed.            *)

LEMMA NullIsApart ==
    /\ Null # 0 /\ Null # 1 /\ Null # 2
    /\ Null # "draft" /\ Null # "skipped" /\ Null # "sent" /\ Null # "dismissed"
    /\ Null # "draft error" /\ Null # "not a fit"
BY BoardAssumption

\* When SQL's connectives and comparisons are true.
LEMMA TrueIs ==
    /\ \A b \in BOOLEAN : (Is(b) = "true") <=> b
    /\ \A p, q : (And(p, q) = "true") <=> p = "true" /\ q = "true"
    /\ \A a, b : (Eq(a, b) = "true") <=> a # Null /\ b # Null /\ a = b
    /\ \A a, b \in {0, 1, 2} : (Greater(a, b) = "true") <=> a > b
<1>1. \A p, q : (And(p, q) = "true") <=> p = "true" /\ q = "true"
  BY DEF And
<1>2. \A a, b \in {0, 1, 2} : (Greater(a, b) = "true") <=> a > b
  <2> SUFFICES ASSUME NEW a \in {0, 1, 2}, NEW b \in {0, 1, 2}
               PROVE  (Greater(a, b) = "true") <=> a > b
    OBVIOUS
  <2>1. Null \notin {a, b}
    BY NullIsApart
  <2>2. Greater(a, b) = IF a > b THEN "true" ELSE "false"
    BY <2>1 DEF Greater, Is
  <2> QED BY <2>2
<1> QED BY <1>1, <1>2 DEF Is, Eq

\* A guest waits by both: a NULL contact is as good as one before every stamp.
LEMMA WaitingAlike ==
    ASSUME NEW d \in Deals
    PROVE  (Replied(d) = "true") <=> GuestIsWaiting(d)
<1>1. d.reply \in {Null, 1, 2} /\ d.contact \in {Null, 1, 2}
  BY DEF Deals, Stamps
<1>2. (Replied(d) = "true") <=>
          d.reply # Null /\ Greater(d.reply, Coalesce(d.contact, 0)) = "true"
  BY TrueIs DEF Replied
<1>3. CASE d.reply = Null
  BY <1>2, <1>3 DEF GuestIsWaiting
<1>4. CASE d.reply # Null
  <2>1. d.reply \in {0, 1, 2} /\ CmpTs(d.reply) = d.reply
    BY <1>1, <1>4 DEF CmpTs
  <2>2. Coalesce(d.contact, 0) = CmpTs(d.contact) /\ CmpTs(d.contact) \in {0, 1, 2}
    BY <1>1 DEF Coalesce, CmpTs
  <2> QED BY <1>2, <1>4, <2>1, <2>2, TrueIs DEF GuestIsWaiting
<1> QED BY <1>3, <1>4

\* The values of a response row, the joined row of NULLs included.
LEMMA ResponseIs ==
    ASSUME NEW r \in Responses
    PROVE  /\ r.status \in {Null, "draft", "skipped", "sent", "dismissed"}
           /\ r.reason \in {Null, "draft error", "not a fit"}
<1>1. CASE r = NoResponse
  BY <1>1 DEF NoResponse
<1>2. CASE r # NoResponse
  BY <1>2 DEF Responses
<1> QED BY <1>1, <1>2

LEMMA FailureAlike ==
    ASSUME NEW r \in Responses
    PROVE  (And(Eq(r.status, "skipped"), Eq(Coalesce(r.reason, ""), "draft error")) = "true")
               <=> IsDraftFailure(r)
<1>1. (Eq(r.status, "skipped") = "true") <=> r.status = "skipped"
  BY ResponseIs, NullIsApart DEF Eq, Is
<1>2. (Eq(Coalesce(r.reason, ""), "draft error") = "true") <=> r.reason = "draft error"
  BY ResponseIs, TrueIs, NullIsApart DEF Coalesce
<1>3. ASSUME NEW p, NEW q PROVE (And(p, q) = "true") <=> p = "true" /\ q = "true"
  BY TrueIs
<1> QED BY <1>1, <1>2, <1>3 DEF IsDraftFailure

LEMMA StatusAlike ==
    ASSUME NEW r \in Responses
    PROVE  /\ r.status \in {Null, "draft", "skipped", "sent", "dismissed"}
           /\ (Eq(r.status, "dismissed") = "true") <=> r.status = "dismissed"
           /\ (Eq(r.status, "skipped") = "true") <=> r.status = "skipped"
           /\ (Unanswered(r) = "true") <=> r.status \in {"draft", Null}
<1>1. r.status \in {Null, "draft", "skipped", "sent", "dismissed"}
  BY ResponseIs
<1>2. /\ (Eq(r.status, "dismissed") = "true") <=> r.status = "dismissed"
      /\ (Eq(r.status, "skipped") = "true") <=> r.status = "skipped"
  BY <1>1, NullIsApart DEF Eq, Is
<1>3. (Unanswered(r) = "true") <=> r.status \in {"draft", Null}
  BY <1>1, NullIsApart DEF Unanswered, Or, Eq, Is
<1> QED BY <1>1, <1>2, <1>3

LEMMA FiledAlikeAlways ==
    ASSUME NEW failed \in BOOLEAN
    PROVE  FiledAlike(failed)
<1> SUFFICES ASSUME NEW d \in Deals, NEW r \in Responses
             PROVE  LeadState(d, r, failed) = StateSql(d, r, failed)
  BY DEF FiledAlike
<1>1. /\ (Is(d.stage \in Closed) = "true") <=> d.stage \in Closed
      /\ (Is(failed) = "true") <=> failed
  BY DEF Is
<1>2. CASE d.stage \in Closed \/ r.status = "dismissed"
  BY <1>1, <1>2, StatusAlike DEF LeadState, StateSql
<1>3. CASE ~ (d.stage \in Closed \/ r.status = "dismissed") /\ GuestIsWaiting(d)
  BY <1>1, <1>3, StatusAlike, WaitingAlike DEF LeadState, StateSql
<1>4. CASE /\ ~ (d.stage \in Closed \/ r.status = "dismissed") /\ ~ GuestIsWaiting(d)
           /\ failed \/ IsDraftFailure(r)
  BY <1>1, <1>4, StatusAlike, WaitingAlike, FailureAlike DEF LeadState, StateSql
<1>5. CASE /\ ~ (d.stage \in Closed \/ r.status = "dismissed") /\ ~ GuestIsWaiting(d)
           /\ ~ (failed \/ IsDraftFailure(r))
  <2>1. LeadState(d, r, failed) =
            CASE r.status \in {"draft", Null}                   -> "needs_you"
              [] r.status = "skipped"                           -> "closed"
              [] r.status = "sent" /\ d.next # Null             -> "scheduled"
              [] r.status = "sent" /\ d.next = Null             -> "awaiting_guest"
    BY <1>5 DEF LeadState
  <2>2. StateSql(d, r, failed) =
            CASE Unanswered(r) = "true"                                 -> "needs_you"
              [] OTHER ->
            CASE Eq(r.status, "skipped") = "true"                       -> "closed"
              [] OTHER ->
            CASE d.next # Null                                          -> "scheduled"
              [] OTHER                                                  -> "awaiting_guest"
    BY <1>1, <1>5, StatusAlike, WaitingAlike, FailureAlike DEF StateSql
  <2>3. CASE r.status \in {"draft", Null}
    BY <2>1, <2>2, <2>3, StatusAlike, NullIsApart
  <2>4. CASE r.status = "skipped"
    BY <2>1, <2>2, <2>4, StatusAlike, NullIsApart
  <2>5. CASE r.status = "sent" /\ d.next # Null
    BY <2>1, <2>2, <2>5, StatusAlike, NullIsApart
  <2>6. CASE r.status = "sent" /\ d.next = Null
    BY <2>1, <2>2, <2>6, StatusAlike, NullIsApart
  <2> QED BY <1>5, <2>3, <2>4, <2>5, <2>6, StatusAlike
<1> QED BY <1>2, <1>3, <1>4, <1>5

\* "Two implementations of one rule" (pipeline.py): lead_state and _state_sql
\* file every deal and response alike, whatever is NULL.
THEOREM InboxAlwaysAgrees == Spec => []InboxAgrees
<1>1. InboxAgrees
  BY FiledAlikeAlways DEF InboxAgrees, FiledAlikeFailed, FiledAlikeUnfailed
<1> QED BY <1>1, PTL

\* lead_state of an open deal nobody has dismissed.
LEMMA StateOfOpen ==
    ASSUME NEW d \in Deals, NEW r \in Responses, NEW failed \in BOOLEAN,
           d.stage \in Open, r.status # "dismissed"
    PROVE  /\ GuestIsWaiting(d) => LeadState(d, r, failed) = "guest_replied"
           /\ ~ GuestIsWaiting(d) /\ (failed \/ IsDraftFailure(r))
                  => LeadState(d, r, failed) = "needs_you"
           /\ ~ GuestIsWaiting(d) /\ ~ (failed \/ IsDraftFailure(r)) =>
                  /\ r.status \in {"draft", Null} => LeadState(d, r, failed) = "needs_you"
                  /\ r.status = "skipped" => LeadState(d, r, failed) = "closed"
                  /\ r.status = "sent" => LeadState(d, r, failed) \in {"scheduled", "awaiting_guest"}
<1>1. d.stage \notin Closed
  BY DEF Open, Closed
<1>2. CASE GuestIsWaiting(d)
  BY <1>1, <1>2 DEF LeadState
<1>3. CASE ~ GuestIsWaiting(d) /\ (failed \/ IsDraftFailure(r))
  BY <1>1, <1>3 DEF LeadState
<1>4. CASE ~ GuestIsWaiting(d) /\ ~ (failed \/ IsDraftFailure(r))
  <2>1. LeadState(d, r, failed) =
            CASE r.status \in {"draft", Null}                   -> "needs_you"
              [] r.status = "skipped"                           -> "closed"
              [] r.status = "sent" /\ d.next # Null             -> "scheduled"
              [] r.status = "sent" /\ d.next = Null             -> "awaiting_guest"
    BY <1>1, <1>4 DEF LeadState
  <2>2. CASE r.status \in {"draft", Null}
    BY <1>4, <2>1, <2>2, NullIsApart
  <2>3. CASE r.status = "skipped"
    BY <1>4, <2>1, <2>3, NullIsApart
  <2>4. CASE r.status = "sent" /\ d.next # Null
    BY <1>4, <2>1, <2>4, NullIsApart
  <2>5. CASE r.status = "sent" /\ d.next = Null
    BY <1>4, <2>1, <2>5, NullIsApart
  <2> QED BY <1>4, <2>2, <2>3, <2>4, <2>5, StatusAlike
<1> QED BY <1>2, <1>3, <1>4

LEMMA ListedAlikeAlways ==
    ASSUME NEW failed \in BOOLEAN
    PROVE  ListedAlike(failed)
<1> SUFFICES ASSUME NEW d \in Deals, NEW r \in Responses
             PROVE  /\ NeedsAction(d, r) <=>
                           /\ LeadState(d, r, failed) \in {"needs_you", "guest_replied"}
                           /\ d.fresh /\ ~ Overlooked(d, r, failed)
                    /\ Reviewable(d, r) <=>
                           \/ /\ d.stage \in Open /\ LeadState(d, r, failed) = "closed"
                              /\ r.status # "dismissed"
                           \/ Overlooked(d, r, failed) /\ r.status # "sent"
  BY DEF ListedAlike
<1>1. r.status \in {Null, "draft", "skipped", "sent", "dismissed"}
  BY StatusAlike
<1>2. CASE d.stage \notin Open \/ r.status = "dismissed"
  <2>1. d.stage \in Closed \/ r.status = "dismissed"
    BY <1>2 DEF Deals, Open, Closed
  <2>2. LeadState(d, r, failed) = "closed"
    BY <2>1 DEF LeadState
  <2> QED BY <1>2, <2>2 DEF NeedsAction, Reviewable, Overlooked
<1>3. CASE d.stage \in Open /\ r.status # "dismissed"
  <2>1. CASE r.status \in {"draft", Null}
    <3>1. /\ r.status \notin {"sent", "skipped"} /\ ~ IsDraftFailure(r)
          /\ LeadState(d, r, failed) \in {"needs_you", "guest_replied"}
      BY <1>3, <2>1, NullIsApart, StateOfOpen DEF IsDraftFailure
    <3> QED BY <1>3, <3>1 DEF NeedsAction, Reviewable, Overlooked
  <2>2. CASE IsDraftFailure(r)
    <3>1. /\ r.status = "skipped"
          /\ LeadState(d, r, failed) \in {"needs_you", "guest_replied"}
      BY <1>3, <2>2, StateOfOpen DEF IsDraftFailure
    <3> QED BY <1>3, <2>2, <3>1 DEF NeedsAction, Reviewable, Overlooked
  <2>3. CASE r.status = "skipped" /\ ~ IsDraftFailure(r)
    <3>1. \/ LeadState(d, r, failed) = "closed"
          \/ /\ GuestIsWaiting(d) \/ failed
             /\ LeadState(d, r, failed) \in {"needs_you", "guest_replied"}
      BY <1>3, <2>3, StateOfOpen
    <3>2. LeadState(d, r, failed) = "closed" <=> ~ (GuestIsWaiting(d) \/ failed)
      BY <1>3, <2>3, StateOfOpen
    <3> QED BY <1>3, <2>3, <3>1, <3>2 DEF NeedsAction, Reviewable, Overlooked
  <2>4. CASE r.status = "sent"
    <3>1. ~ IsDraftFailure(r)
      BY <2>4 DEF IsDraftFailure
    <3>2. /\ GuestIsWaiting(d) \/ failed =>
                 LeadState(d, r, failed) \in {"needs_you", "guest_replied"}
          /\ ~ (GuestIsWaiting(d) \/ failed) =>
                 LeadState(d, r, failed) \in {"scheduled", "awaiting_guest"}
      BY <1>3, <2>4, <3>1, StateOfOpen
    <3> QED BY <1>3, <2>4, <3>2 DEF NeedsAction, Reviewable, Overlooked
  <2> QED BY <1>1, <1>3, <2>1, <2>2, <2>3, <2>4
<1> QED BY <1>2, <1>3

\* needs_action and reviewable (pipeline.py) differ from lead_state in the
\* overlooked deals and in nothing else: sent to or skipped, and still a guest is
\* waiting or a send has failed.
THEOREM OverlookedAreMissed == Spec => []ListsMissOverlooked
<1>1. ListsMissOverlooked
  BY ListedAlikeAlways DEF ListsMissOverlooked, ListedAlikeFailed, ListedAlikeUnfailed
<1> QED BY <1>1, PTL

-----------------------------------------------------------------------------
(* The table.                                                              *)

LEMMA AddKeepsType ==
    ASSUME OutboxTypeOK, NEW item \in Items, NEW body \in Bodies, NEW auto \in BOOLEAN,
           NEW at \in Nat, Add(item, body, auto, at)
    PROVE  outbox' \in Seq(Row)
<1> DEFINE row == [item |-> item, body |-> body,
                   status |-> IF auto THEN Queued ELSE Pending,
                   scheduledAt |-> at, sendingAt |-> NoStamp, attempts |-> 0]
<1>1. row \in Row
  BY DEF Row, Statuses
<1>2. outbox' = Append(outbox, row)
  BY DEF Add
<1> HIDE DEF row
<1> QED BY <1>1, <1>2 DEF OutboxTypeOK

LEMMA RowInTable ==
    ASSUME OutboxTypeOK, NEW i \in Ids
    PROVE  outbox[i] \in Row
BY DEF OutboxTypeOK, Ids

LEMMA WriteKeepsType ==
    ASSUME OutboxTypeOK, NEW i \in Ids, NEW row \in Row, Write(i, row)
    PROVE  /\ outbox' \in Seq(Row) /\ Ids' = Ids /\ outbox'[i] = row
           /\ \A j \in Ids \ {i} : outbox'[j] = outbox[j]
BY DEF OutboxTypeOK, Write, Ids

\* What a row that is on nobody's way can become, and stay so.
CalledOff(i, row) ==
    outbox[i].status \in Cancelable /\ row.status = Canceled /\ row.body = outbox[i].body

\* The writes of a row: released, claimed, given back, called off, settled and
\* reclaimed.
LEMMA RowIsWritten ==
    ASSUME OutboxTypeOK, NEW i \in Ids
    PROVE  /\ \A from \in {Approvable, {Failed}}, body \in Bodies : Release(i, from, body) =>
                  \E row \in Row : Write(i, row) /\ row.item = outbox[i].item /\ row.status = Queued
           /\ ClaimRow(i) =>
                  \E row \in Row : Write(i, row) /\ row.item = outbox[i].item /\ row.status = Sending
           /\ CancelRow(i) =>
                  \E row \in Row : Write(i, row) /\ row.item = outbox[i].item /\ CalledOff(i, row)
           /\ \A status \in {Sent, Failed} : SettleRow(i, status) =>
                  \E row \in Row : Write(i, row) /\ row.item = outbox[i].item /\ row.status = status
           /\ ReleaseUnattempted(i) =>
                  \/ UNCHANGED outbox
                  \/ \E row \in Row : Write(i, row) /\ row.item = outbox[i].item /\ row.status = Queued
           /\ \A verdict \in Verdicts : ReclaimRow(i, verdict) =>
                  \/ UNCHANGED outbox
                  \/ /\ outbox[i].status = Sending
                     /\ \E row \in Row : Write(i, row) /\ row.item = outbox[i].item
<1>0. /\ outbox[i] \in Row /\ now \in Nat
      /\ outbox[i].scheduledAt \in Nat /\ outbox[i].attempts \in Nat
  <2>1. outbox[i] \in Row /\ now \in Nat
    BY DEF OutboxTypeOK, Ids
  <2> QED BY <2>1 DEF Row
<1>1. ASSUME NEW from \in {Approvable, {Failed}}, NEW body \in Bodies, Release(i, from, body)
      PROVE  \E row \in Row : Write(i, row) /\ row.item = outbox[i].item /\ row.status = Queued
  <2> DEFINE row == [outbox[i] EXCEPT !.status = Queued, !.body = body,
                                      !.scheduledAt = Earlier(@, now)]
  <2>1. Earlier(outbox[i].scheduledAt, now) \in Nat
    BY <1>0 DEF Earlier
  <2>2. row \in Row /\ row.item = outbox[i].item /\ row.status = Queued
    BY <1>0, <2>1 DEF Row, Statuses
  <2>3. Write(i, row)
    BY <1>1 DEF Release
  <2> HIDE DEF row
  <2> QED BY <2>2, <2>3
<1>2. ASSUME ClaimRow(i)
      PROVE  \E row \in Row : Write(i, row) /\ row.item = outbox[i].item /\ row.status = Sending
  <2> DEFINE row == [outbox[i] EXCEPT !.status = Sending, !.sendingAt = now, !.attempts = @ + 1]
  <2>1. row \in Row /\ row.item = outbox[i].item /\ row.status = Sending
    <3>1. /\ outbox[i].attempts + 1 \in Nat /\ now \in Nat \cup {NoStamp}
          /\ Sending \in Statuses
      BY <1>0 DEF Statuses
    <3> QED BY <1>0, <3>1 DEF Row
  <2>2. Write(i, row)
    BY <1>2 DEF ClaimRow
  <2> HIDE DEF row
  <2> QED BY <2>1, <2>2
<1>3. ASSUME NEW status \in {Sent, Failed, Canceled}, Write(i, [outbox[i] EXCEPT !.status = status])
      PROVE  \E row \in Row : /\ Write(i, row) /\ row.item = outbox[i].item
                              /\ row.status = status /\ row.body = outbox[i].body
  <2> DEFINE row == [outbox[i] EXCEPT !.status = status]
  <2>1. row \in Row /\ row.item = outbox[i].item /\ row.status = status /\ row.body = outbox[i].body
    BY <1>0 DEF Row, Statuses
  <2>2. Write(i, row)
    BY <1>3
  <2> HIDE DEF row
  <2> QED BY <2>1, <2>2
<1>4. ASSUME CancelRow(i)
      PROVE  \E row \in Row : Write(i, row) /\ row.item = outbox[i].item /\ CalledOff(i, row)
  BY <1>3, <1>4 DEF CancelRow, CalledOff
<1>5. ASSUME NEW status \in {Sent, Failed}, SettleRow(i, status)
      PROVE  \E row \in Row : Write(i, row) /\ row.item = outbox[i].item /\ row.status = status
  BY <1>3, <1>5 DEF SettleRow
<1>6. ASSUME ReleaseUnattempted(i), outbox[i].status = Sending
      PROVE  \E row \in Row : Write(i, row) /\ row.item = outbox[i].item /\ row.status = Queued
  <2> DEFINE count == IF outbox[i].attempts > 0 THEN outbox[i].attempts - 1 ELSE 0
             row == [outbox[i] EXCEPT !.status = Queued, !.sendingAt = NoStamp, !.attempts = count]
  <2>1. Write(i, row)
    BY <1>6 DEF ReleaseUnattempted
  <2>2. count \in Nat
    BY <1>0
  <2> HIDE DEF count
  <2>3. row \in Row /\ row.item = outbox[i].item /\ row.status = Queued
    BY <1>0, <2>2 DEF Row, Statuses
  <2> HIDE DEF row
  <2> QED BY <2>1, <2>3
<1>7. ASSUME NEW verdict \in Verdicts, ReclaimRow(i, verdict), outbox[i].status = Sending
      PROVE  \E row \in Row : Write(i, row) /\ row.item = outbox[i].item
  <2>1. PICK row : /\ Write(i, row)
                   /\ row \in {[outbox[i] EXCEPT !.sendingAt = now],
                               [outbox[i] EXCEPT !.status = Failed],
                               [outbox[i] EXCEPT !.status = Queued]}
    BY <1>7 DEF ReclaimRow, Verdicts
  <2>2. row \in Row /\ row.item = outbox[i].item
    BY <1>0, <2>1 DEF Row, Statuses
  <2> QED BY <2>1, <2>2
<1> QED BY <1>1, <1>2, <1>4, <1>5, <1>6, <1>7 DEF ReleaseUnattempted, ReclaimRow

\* The requests and the drainers.
Labels == Statuses \cup {"", "scheduled to send", "already received", "another send"}

Request ==
    [at : {"idle", "writing", "rereading", "blockers", "duplicates"}, row : Nat,
     item : Items \cup {Null}, from : {{}, Approvable, {Failed}},
     text : Bodies \cup {Null}, wasUnderWay : BOOLEAN, says : Labels]

\* What a request asks for makes sense: a text to insert, or a row to release.
Sensible(a) ==
    a.at # "idle" =>
        /\ a.item \in Items /\ a.says = ""
        /\ a.row = 0 => a.text \in Bodies /\ a.at # "rereading"
        /\ a.row # 0 => /\ a.row \in Ids /\ outbox[a.row].item = a.item
                        /\ a.from \in {Approvable, {Failed}}
        /\ a.at \in {"blockers", "duplicates"} => a.text \in Bodies

Shape ==
    /\ OutboxTypeOK
    /\ drives \in [Drainers -> Ids \cup {0}]
    /\ asked \in [Requests -> Request]
    /\ \A r \in Requests : Sensible(asked[r])

\* A refusal nobody has explained yet, and no send since: its reason stands.
StillRefused(a) ==
    IF a.at = "rereading"
    THEN outbox[a.row].status \notin a.from \/ AlreadySent(a.item, Comparand(a), a.row)
    ELSE AlreadySent(a.item, a.text, a.row)

Explained(a) ==
    /\ Explaining(a) /\ ~ a.wasUnderWay => ~ UnderWay(a.item) /\ StillRefused(a)
    /\ a.says = "another send" => a.wasUnderWay

IInv == Shape /\ \A r \in Requests : Explained(asked[r])

LEMMA RowIsNotZero == OutboxTypeOK => 0 \notin Ids
BY DEF OutboxTypeOK, Ids

\* What a request would write is one of the texts.
LEMMA WordsAreTexts ==
    ASSUME Shape, NEW r \in Requests, asked[r].at # "idle"
    PROVE  Words(asked[r]) \in Bodies
<1>1. asked[r] \in Request /\ Sensible(asked[r])
  BY DEF Shape
<1>2. CASE asked[r].row = 0
  BY <1>1, <1>2 DEF Sensible, Words
<1>3. CASE asked[r].row # 0
  <2>0. asked[r].row \in Ids /\ OutboxTypeOK
    BY <1>1, <1>3 DEF Sensible, Shape
  <2>1. outbox[asked[r].row] \in Row
    BY <2>0, RowInTable
  <2>2. outbox[asked[r].row].body \in Bodies /\ asked[r].text \in Bodies \cup {Null}
    BY <1>1, <2>1 DEF Row, Request
  <2> QED BY <1>3, <2>2 DEF Words, Coalesce
<1> QED BY <1>2, <1>3

\* One step of the table: which rows it may change, and how.
Lasts(j) ==
    /\ outbox'[j].item = outbox[j].item
    /\ outbox[j].status = Queued /\ outbox'[j].status = Sending =>
           \E d \in Drainers : Dispatches(d, j)
    /\ \/ outbox'[j] = outbox[j]
       \/ outbox[j].status \in InFlight \/ outbox'[j].status \in InFlight
       \/ CalledOff(j, outbox'[j])
       \/ \E d \in Drainers : drives[d] = j

TableLasts == OutboxTypeOK' /\ Ids \subseteq Ids' /\ \A j \in Ids : Lasts(j)

LEMMA NoRowIsWritten ==
    ASSUME OutboxTypeOK, UNCHANGED outbox, now' \in Nat
    PROVE  TableLasts
BY DEF TableLasts, OutboxTypeOK, Ids, Queued, Sending, Lasts

LEMMA RowIsAdded ==
    ASSUME OutboxTypeOK, NEW item \in Items, NEW body \in Bodies, NEW auto \in BOOLEAN,
           NEW at \in Nat, Add(item, body, auto, at), now' = now
    PROVE  TableLasts
<1>1. outbox' \in Seq(Row)
  BY AddKeepsType
<1>2. OutboxTypeOK'
  BY <1>1 DEF OutboxTypeOK
<1>3. Ids \subseteq Ids' /\ \A j \in Ids : outbox'[j] = outbox[j]
  BY DEF Add, OutboxTypeOK, Ids
<1> QED BY <1>2, <1>3 DEF TableLasts, Lasts, Queued, Sending

LEMMA OneRowIsWritten ==
    ASSUME OutboxTypeOK, NEW i \in Ids, NEW row \in Row, Write(i, row),
           row.item = outbox[i].item, now' = now,
           outbox[i].status = Queued /\ row.status = Sending => \E d \in Drainers : Dispatches(d, i),
           \/ outbox[i].status \in InFlight \/ row.status \in InFlight
           \/ CalledOff(i, row)
           \/ \E d \in Drainers : drives[d] = i
    PROVE  TableLasts
<1>1. /\ outbox' \in Seq(Row) /\ Ids' = Ids /\ outbox'[i] = row
      /\ \A j \in Ids \ {i} : outbox'[j] = outbox[j]
  BY WriteKeepsType
<1>2. OutboxTypeOK'
  BY <1>1 DEF OutboxTypeOK
<1>3. Lasts(i)
  BY <1>1, Zenon DEF Lasts
<1>4. ASSUME NEW j \in Ids \ {i} PROVE Lasts(j)
  BY <1>1, <1>4 DEF Lasts, Queued, Sending
<1> QED BY <1>1, <1>2, <1>3, <1>4 DEF TableLasts

LEMMA TableStep ==
    ASSUME Shape, [Next]_vars
    PROVE  TableLasts
<1>0. OutboxTypeOK /\ now \in Nat /\ now + 1 \in Nat
  BY DEF Shape, OutboxTypeOK
<1>1. CASE UNCHANGED vars
  BY <1>0, <1>1, NoRowIsWritten DEF vars
<1>2. ASSUME NEW r \in Requests, RequestStep(r), ~ Releases(r) PROVE TableLasts
  BY <1>0, <1>2, NoRowIsWritten
     DEF RequestStep, SendButton, Approves, Retries, IsRefused, Rereads, ReadsBlocker, ReadsDuplicate
<1>3. ASSUME NEW r \in Requests, Releases(r) PROVE TableLasts
  <2>1. /\ Grants(asked[r]) /\ now' = now /\ Sensible(asked[r])
        /\ asked[r].at = "writing" /\ Words(asked[r]) \in Bodies
    BY <1>3, WordsAreTexts DEF Releases, Shape
  <2>2. CASE asked[r].row = 0
    <3>1. /\ asked[r].item \in Items /\ asked[r].text \in Bodies
          /\ Add(asked[r].item, asked[r].text, TRUE, now)
      BY <2>1, <2>2 DEF Grants, AddGuarded, Sensible
    <3> QED BY <1>0, <2>1, <3>1, RowIsAdded
  <2>3. CASE asked[r].row # 0
    <3>1. /\ asked[r].row \in Ids /\ asked[r].from \in {Approvable, {Failed}}
          /\ Release(asked[r].row, asked[r].from, Words(asked[r]))
      BY <2>1, <2>3 DEF Grants, Sensible
    <3>2. PICK row \in Row : /\ Write(asked[r].row, row)
                             /\ row.item = outbox[asked[r].row].item /\ row.status = Queued
      BY <1>0, <2>1, <3>1, RowIsWritten
    <3> QED BY <1>0, <2>1, <3>1, <3>2, OneRowIsWritten DEF InFlight, Queued, Sending
  <2> QED BY <2>2, <2>3
<1>4. ASSUME NEW item \in Items, NEW body \in Bodies, Drafts(item, body) PROVE TableLasts
  <2>1. PICK auto \in BOOLEAN, at \in Nat : Add(item, body, auto, at) /\ now' = now
    BY <1>0, <1>4 DEF Drafts
  <2> QED BY <1>0, <2>1, RowIsAdded
<1>5. ASSUME NEW d \in Drainers, NEW i \in Ids, Dispatches(d, i) PROVE TableLasts
  <2>1. ClaimRow(i) /\ now' = now
    BY <1>5 DEF Dispatches
  <2>2. PICK row \in Row : Write(i, row) /\ row.item = outbox[i].item /\ row.status = Sending
    BY <1>0, <2>1, RowIsWritten
  <2> QED BY <1>0, <1>5, <2>1, <2>2, OneRowIsWritten DEF InFlight
<1>6. ASSUME NEW d \in Drainers, Ends(d) PROVE TableLasts
  <2>1. drives[d] \in Ids /\ now' = now
    BY <1>6 DEF Ends, Shape
  <2>2. CASE \E status \in {Sent, Failed} : SettleRow(drives[d], status)
    <3>1. PICK row \in Row : /\ Write(drives[d], row) /\ row.item = outbox[drives[d]].item
                             /\ row.status \in {Sent, Failed}
      BY <1>0, <2>1, <2>2, RowIsWritten
    <3> QED BY <1>0, <2>1, <3>1, OneRowIsWritten DEF Sent, Failed, Sending
  <2>3. CASE ReleaseUnattempted(drives[d])
    <3>1. CASE UNCHANGED outbox
      BY <1>0, <2>1, <3>1, NoRowIsWritten
    <3>2. CASE ~ UNCHANGED outbox
      <4>1. PICK row \in Row : /\ Write(drives[d], row) /\ row.item = outbox[drives[d]].item
                               /\ row.status = Queued
        BY <1>0, <2>1, <2>3, <3>2, RowIsWritten
      <4> QED BY <1>0, <2>1, <4>1, OneRowIsWritten DEF Queued, Sending, InFlight
    <3> QED BY <3>1, <3>2
  <2> QED BY <1>6, <2>2, <2>3 DEF Ends
<1>7. ASSUME NEW i \in Ids, CallsOff(i) PROVE TableLasts
  <2>1. CancelRow(i) /\ now' = now
    BY <1>7 DEF CallsOff
  <2>2. PICK row \in Row : Write(i, row) /\ row.item = outbox[i].item /\ CalledOff(i, row)
    BY <1>0, <2>1, RowIsWritten
  <2>3. row.status # Sending
    BY <2>2 DEF CalledOff, Canceled, Sending
  <2> QED BY <1>0, <2>1, <2>2, <2>3, OneRowIsWritten
<1>8. ASSUME Reclaims PROVE TableLasts
  <2>1. PICK stuck \in StuckSending : ReclaimRow(stuck[1], stuck[2])
    BY <1>8 DEF Reclaims
  <2>2. stuck[1] \in Ids /\ stuck[2] \in Verdicts /\ now' = now
    BY <1>8 DEF StuckSending, ReclaimVerdict, Verdicts, Reclaims
  <2>3. CASE UNCHANGED outbox
    BY <1>0, <2>2, <2>3, NoRowIsWritten
  <2>4. CASE ~ UNCHANGED outbox
    <3> DEFINE i == stuck[1]
    <3>1. PICK row \in Row : Write(i, row) /\ row.item = outbox[i].item /\ outbox[i].status = Sending
      BY <1>0, <2>1, <2>2, <2>4, RowIsWritten
    <3> HIDE DEF i
    <3>2. i \in Ids
      BY <2>2 DEF i
    <3> QED BY <1>0, <2>2, <3>1, <3>2, OneRowIsWritten DEF InFlight, Queued, Sending
  <2> QED BY <2>3, <2>4
<1>9. CASE Tick \/ \E d \in Drainers : Dies(d)
  BY <1>0, <1>9, NoRowIsWritten DEF Tick, Dies
<1> QED BY <1>1, <1>2, <1>3, <1>4, <1>5, <1>6, <1>7, <1>8, <1>9 DEF Next, RequestStep

-----------------------------------------------------------------------------
(* The row that speaks for an item.                                        *)

LEMMA RowIs ==
    ASSUME OutboxTypeOK, NEW i \in Ids
    PROVE  /\ i \in Nat /\ now \in Nat
           /\ outbox[i].scheduledAt \in Nat /\ outbox[i].status \in Statuses
<1>1. outbox[i] \in Row /\ i \in Nat /\ now \in Nat
  BY DEF OutboxTypeOK, Ids
<1> QED BY <1>1 DEF Row

\* Rows are ordered by send time and id: some row of a set comes first.
LEMMA SoonestExists ==
    ASSUME OutboxTypeOK, NEW rows \in SUBSET Ids, rows # {}
    PROVE  \E i \in rows : \A j \in rows \ {i} : Before(i, j)
<1> DEFINE times == {outbox[i].scheduledAt : i \in rows}
<1>1. times \in SUBSET Nat /\ times # {}
  BY RowIs
<1>2. PICK t \in times : \A u \in times : t <= u
  <2> HIDE DEF times
  <2> QED BY <1>1, LeastNumber
<1> DEFINE early == {i \in rows : outbox[i].scheduledAt = t}
<1>3. early \in SUBSET Nat /\ early # {}
  BY RowIs
<1>4. PICK i \in early : \A j \in early : i <= j
  <2> HIDE DEF early
  <2> QED BY <1>3, LeastNumber
<1>5. ASSUME NEW j \in rows \ {i} PROVE Before(i, j)
  <2>1. /\ i \in rows /\ outbox[i].scheduledAt = t /\ t <= outbox[j].scheduledAt
        /\ outbox[j].scheduledAt = t => i <= j
    BY <1>2, <1>4
  <2>2. i \in Nat /\ j \in Nat /\ t \in Nat /\ outbox[j].scheduledAt \in Nat
    BY <2>1, RowIs
  <2> QED BY <2>1, <2>2 DEF Before
<1> QED BY <1>4, <1>5

LEMMA FirstRow ==
    ASSUME OutboxTypeOK, NEW rows \in SUBSET Ids, rows # {}
    PROVE  /\ First(rows) \in rows
           /\ \A j \in rows \ {First(rows)} : Outranks(First(rows), j)
<1>1. \E i \in rows : \A j \in rows \ {i} : Outranks(i, j)
  <2> DEFINE claimed == {i \in rows : outbox[i].status = Sending}
  <2>1. CASE claimed = {}
    BY <2>1, SoonestExists DEF Outranks
  <2>2. CASE claimed # {}
    <3>1. PICK i \in claimed : \A j \in claimed \ {i} : Before(i, j)
      BY <2>2, SoonestExists
    <3> QED BY <3>1 DEF Outranks
  <2> QED BY <2>1, <2>2
<1> QED BY <1>1 DEF First

\* The caption of a row, and what it says of the row.
LEMMA LabelIs ==
    ASSUME OutboxTypeOK, NEW i \in Ids
    PROVE  /\ RowLabel(i) \in Labels /\ RowLabel(i) # "" /\ RowLabel(i) # "another send"
           /\ RowLabel(i) = "scheduled to send" => Deferred(i)
<1>1. RowLabel(i) \in Statuses \cup {"scheduled to send"}
  BY RowIs DEF RowLabel
<1>2. /\ "" \notin Statuses \cup {"scheduled to send"}
      /\ "another send" \notin Statuses \cup {"scheduled to send"}
      /\ "scheduled to send" \notin Statuses
  BY DEF Statuses, Pending, Queued, Sending, Sent, Failed, Canceled
<1>3. RowLabel(i) = "scheduled to send" => Deferred(i)
  BY <1>2, RowIs DEF RowLabel
<1> QED BY <1>1, <1>2, <1>3 DEF Labels

\* What a deferred row outranks is neither going out nor due.
LEMMA WaitsItsTurn ==
    ASSUME OutboxTypeOK, NEW g \in Ids, NEW i \in Ids, Deferred(g), i = g \/ Outranks(g, i)
    PROVE  outbox[i].status # Sending /\ ~ Due(i)
<1>1. /\ outbox[g].status = Queued /\ outbox[g].scheduledAt > now
      /\ outbox[g].scheduledAt \in Nat /\ outbox[i].scheduledAt \in Nat /\ now \in Nat
  BY RowIs DEF Deferred
<1>2. CASE i = g
  BY <1>1, <1>2 DEF Due, Queued, Sending
<1>3. CASE Outranks(g, i)
  <2>1. outbox[i].status # Sending /\ Before(g, i)
    BY <1>1, <1>3 DEF Outranks, Queued, Sending
  <2>2. outbox[g].scheduledAt <= outbox[i].scheduledAt
    BY <1>1, <2>1 DEF Before
  <2> QED BY <1>1, <2>1, <2>2 DEF Due
<1> QED BY <1>2, <1>3

LEMMA CaptionLemma == OutboxTypeOK => CaptionIsHonest
<1> SUFFICES ASSUME OutboxTypeOK, NEW item \in Items, Siblings(item, 0) # {},
                    RowLabel(Governing(item)) = "scheduled to send",
                    NEW i \in Siblings(item, 0),
                    outbox[i].status = Sending \/ Due(i)
             PROVE  FALSE
  BY DEF CaptionIsHonest
<1> DEFINE rows == OnItsWay(item, 0)
           g == First(rows)
<1>1. i \in rows /\ rows \in SUBSET Ids
  BY DEF OnItsWay, Due, InFlight, Siblings
<1>2. g \in rows /\ \A j \in rows \ {g} : Outranks(g, j)
  <2> HIDE DEF rows
  <2> QED BY <1>1, FirstRow
<1>3. Deferred(g) /\ g \in Ids /\ i \in Ids
  BY <1>1, <1>2, LabelIs DEF Governing
<1>4. i = g \/ Outranks(g, i)
  BY <1>1, <1>2
<1> HIDE DEF g
<1> QED BY <1>3, <1>4, WaitsItsTurn

LEMMA LatestRow ==
    ASSUME OutboxTypeOK, NEW rows \in SUBSET Ids, rows # {}
    PROVE  Max(rows) \in rows
<1>1. Len(outbox) \in Nat /\ Ids = 1 .. Len(outbox)
  BY DEF Ids, OutboxTypeOK
<1>2. rows \in SUBSET (0 .. Len(outbox))
  BY <1>1
<1> QED BY <1>1, <1>2, MaxExists

LEMMA OfferLemma == OutboxTypeOK => OfferIsAccepted
<1> SUFFICES ASSUME OutboxTypeOK, NEW item \in Items, NEW r \in Answers,
                    NEW text \in Bodies \cup {Null}, SentState(item, r, text) = "",
                    Coalesce(text, r.draft) # Null
             PROVE  MayAdd(item, Coalesce(text, r.draft))
  BY DEF OfferIsAccepted
<1> DEFINE words == Coalesce(text, r.draft)
<1>1. ~ (Siblings(item, 0) # {} /\ outbox[Governing(item)].status \in InFlight)
  <2> SUFFICES ASSUME Siblings(item, 0) # {}, outbox[Governing(item)].status \in InFlight
               PROVE  FALSE
    OBVIOUS
  <2>1. OnItsWay(item, 0) # {}
    <3> SUFFICES ASSUME OnItsWay(item, 0) = {} PROVE FALSE
      OBVIOUS
    <3>1. Governing(item) = Max(Siblings(item, 0))
      BY DEF Governing
    <3>2. Max(Siblings(item, 0)) \in Siblings(item, 0)
      BY LatestRow DEF Siblings
    <3> QED BY <3>1, <3>2 DEF OnItsWay
  <2>2. Governing(item) \in Ids
    BY <2>1, FirstRow DEF Governing, OnItsWay, Siblings
  <2>3. SentState(item, r, text) = RowLabel(Governing(item))
    BY DEF SentState
  <2> QED BY <2>2, <2>3, LabelIs
<1>2. OnItsWay(item, 0) = {}
  <2> SUFFICES ASSUME OnItsWay(item, 0) # {} PROVE FALSE
    OBVIOUS
  <2>1. Governing(item) \in OnItsWay(item, 0)
    BY FirstRow DEF Governing, OnItsWay, Siblings
  <2> QED BY <1>1, <2>1 DEF OnItsWay
<1>3. words \notin Delivered(item)
  BY <1>1 DEF SentState
<1> QED BY <1>2, <1>3
      DEF MayAdd, OnItsWay, SiblingInFlight, AlreadySent, Delivered, Siblings

LEMMA NextSpeaks ==
    ASSUME OutboxTypeOK, NEW d \in Drainers, NEW i \in Ids, Dispatches(d, i),
           \A j \in Siblings(outbox[i].item, i) : outbox[j].status # Sending
    PROVE  Governing(outbox[i].item) = i
<1> DEFINE rows == OnItsWay(outbox[i].item, 0)
           g == First(rows)
<1>1. i \in Nat /\ Due(i) /\ \A j \in Ids \ {i} : Due(j) => Before(i, j)
  BY RowIs DEF Dispatches, IsNextQueued
<1>2. i \in rows /\ rows \in SUBSET Ids
  <2>1. i # 0
    BY DEF OutboxTypeOK, Ids
  <2> QED BY <1>1, <2>1 DEF OnItsWay, Siblings, Due, InFlight
<1>3. g \in rows /\ \A j \in rows \ {g} : Outranks(g, j)
  <2> HIDE DEF rows
  <2> QED BY <1>2, FirstRow
<1>4. g = i
  <2> SUFFICES ASSUME g # i PROVE FALSE
    OBVIOUS
  <2>1. outbox[g].status = Queued /\ g \in Ids /\ outbox[i].status = Queued
    BY <1>1, <1>3 DEF OnItsWay, Siblings, InFlight, Due
  <2>2. Before(g, i)
    BY <1>2, <1>3, <2>1 DEF Outranks
  <2>3. /\ outbox[g].scheduledAt \in Nat /\ outbox[i].scheduledAt \in Nat
        /\ now \in Nat /\ g \in Nat
    BY <2>1, RowIs
  <2>4. Due(g)
    BY <1>1, <2>1, <2>2, <2>3 DEF Due, Before
  <2>5. Before(i, g)
    BY <1>1, <2>1, <2>4
  <2> QED BY <1>1, <2>2, <2>3, <2>5 DEF Before
<1> QED BY <1>2, <1>4 DEF Governing

-----------------------------------------------------------------------------
(* Requests, and why they were refused.                                    *)

Kept(r) == asked'[r] \in Request /\ Sensible(asked[r])' /\ Explained(asked[r])'

\* A request that stands still, or says its next word, while the table does.
LEMMA TableStandsStill ==
    ASSUME UNCHANGED <<outbox, drives>>, NEW r \in Requests, NEW a \in Request,
           asked'[r] = a, Sensible(a), Explained(a)
    PROVE  Kept(r)
BY DEF Kept, Sensible, Explained, StillRefused, Comparand, UnderWay, OnItsWay, AlreadySent,
       Siblings, Ids

\* A request while another writes: what it was refused for stands, unless a send
\* of its guest is under way.
LEMMA WatchedKept ==
    ASSUME IInv, [Next]_vars, NEW r \in Requests, asked'[r] = Watched(asked[r])
    PROVE  Kept(r)
<1>1. OutboxTypeOK' /\ Ids \subseteq Ids' /\ \A j \in Ids : Lasts(j)
  BY TableStep DEF IInv, TableLasts
<1>2. PICK a : a = asked[r]
  OBVIOUS
<1>3. a \in Request /\ Sensible(a) /\ Explained(a)
  BY <1>2 DEF IInv, Shape
<1>4. PICK b : b = asked'[r]
  OBVIOUS
<1>5. b = Watched(a)
  BY <1>2, <1>4
<1>6. /\ b \in Request /\ b = [a EXCEPT !.wasUnderWay = b.wasUnderWay]
      /\ a.wasUnderWay => b.wasUnderWay
      /\ Explaining(a) /\ ~ b.wasUnderWay =>
             b = a /\ ~ \E item \in Items : item = a.item /\ UnderWay(item)'
  BY <1>3, <1>5 DEF Watched, Request
<1>7. /\ b.at = a.at /\ b.row = a.row /\ b.item = a.item /\ b.from = a.from
      /\ b.text = a.text /\ b.says = a.says
  BY <1>3, <1>6 DEF Request
<1>8. Sensible(b)'
  <2>1. a.row \in Ids => a.row \in Ids' /\ outbox'[a.row].item = outbox[a.row].item
    BY <1>1 DEF Lasts
  <2> QED BY <1>3, <1>7, <2>1 DEF Sensible
<1>9. ASSUME Explaining(b), ~ b.wasUnderWay PROVE ~ UnderWay(b.item)' /\ StillRefused(b)'
  <2>1. Explaining(a) /\ ~ a.wasUnderWay
    BY <1>6, <1>7, <1>9 DEF Explaining
  <2>2. /\ b = a /\ a.item \in Items /\ (a.row # 0 => a.row \in Ids /\ outbox[a.row].item = a.item)
        /\ a.row # 0 => a.from \in {Approvable, {Failed}}
        /\ a.at = "rereading" => a.row # 0
    BY <1>3, <1>6, <1>9, <2>1 DEF Sensible, Explaining
  <2>3. ~ UnderWay(a.item)' /\ ~ UnderWay(a.item) /\ StillRefused(a)
    BY <1>3, <1>6, <1>9, <2>1, <2>2 DEF Explained
  <2>4. ASSUME NEW j \in Ids, outbox[j].item = a.item
        PROVE  /\ j \in Ids' /\ outbox'[j].item = a.item /\ outbox'[j].body = outbox[j].body
               /\ \/ outbox'[j].status = outbox[j].status
                  \/ outbox[j].status \in Cancelable /\ outbox'[j].status = Canceled
    <3>1. j \in Ids' /\ outbox'[j].item = a.item /\ j # 0
      BY <1>1, <2>4, RowIsNotZero DEF Lasts, IInv, Shape
    <3>2. outbox[j].status \notin InFlight /\ ~ \E d \in Drainers : drives[d] = j
      BY <2>3, <2>4, <3>1 DEF UnderWay, OnItsWay, Siblings
    <3>3. outbox'[j].status \notin InFlight
      BY <2>3, <3>1 DEF UnderWay, OnItsWay, Siblings
    <3>4. outbox'[j] = outbox[j] \/ CalledOff(j, outbox'[j])
      BY <1>1, <3>2, <3>3 DEF Lasts
    <3> QED BY <3>1, <3>4 DEF CalledOff
  <2>5. ASSUME NEW body, AlreadySent(a.item, body, a.row) PROVE AlreadySent(a.item, body, a.row)'
    <3>1. PICK j \in Siblings(a.item, a.row) : outbox[j].status = Sent /\ outbox[j].body = body
      BY <2>5 DEF AlreadySent
    <3>2. j \in Ids /\ outbox[j].item = a.item /\ j # a.row
      BY DEF Siblings
    <3>3. /\ j \in Ids' /\ outbox'[j].item = a.item /\ outbox'[j].body = body
          /\ outbox'[j].status = Sent
      BY <2>4, <3>1, <3>2 DEF Cancelable, Sent, Pending, Queued, Failed, Canceled
    <3> QED BY <3>2, <3>3 DEF AlreadySent, Siblings
  <2>6. StillRefused(a)'
    <3>1. CASE a.at = "rereading"
      <4>1. a.row \in Ids /\ outbox[a.row].item = a.item /\ a.from \in {Approvable, {Failed}}
        BY <2>2, <3>1
      <4>2. outbox'[a.row].body = outbox[a.row].body /\ Comparand(a)' = Comparand(a)
        BY <2>4, <4>1 DEF Comparand
      <4>3. CASE outbox[a.row].status \notin a.from
        <5>1. Canceled \notin a.from
          BY <4>1 DEF Approvable, Canceled, Pending, Failed
        <5>2. outbox'[a.row].status \notin a.from
          BY <2>4, <4>1, <4>3, <5>1
        <5> QED BY <3>1, <5>2 DEF StillRefused
      <4>4. CASE AlreadySent(a.item, Comparand(a), a.row)
        <5>1. PICK body : body = Comparand(a)
          OBVIOUS
        <5>2. AlreadySent(a.item, body, a.row)'
          BY <2>5, <4>4, <5>1
        <5> QED BY <3>1, <4>2, <5>1, <5>2 DEF StillRefused
      <4> QED BY <2>3, <3>1, <4>3, <4>4 DEF StillRefused
    <3>2. CASE a.at # "rereading"
      BY <2>3, <2>5, <3>2 DEF StillRefused
    <3> QED BY <3>1, <3>2
  <2> QED BY <2>2, <2>3, <2>6
<1>10. b.says = "another send" => b.wasUnderWay
  BY <1>3, <1>6, <1>7 DEF Explained
<1>11. Explained(b)'
  BY <1>9, <1>10 DEF Explained
<1> QED BY <1>4, <1>6, <1>8, <1>11 DEF Kept

\* A request's step that leaves the table alone.
LEMMA OneSteps ==
    ASSUME IInv, UNCHANGED <<outbox, drives>>, NEW r \in Requests, NEW a \in Request,
           Steps(r, a), Sensible(a), Explained(a)
    PROVE  \A q \in Requests : Kept(q)
<1>1. asked'[r] = a /\ \A q \in Requests \ {r} : asked'[q] = asked[q]
  BY DEF Steps, IInv, Shape
<1>2. Kept(r)
  BY <1>1, TableStandsStill
<1>3. ASSUME NEW q \in Requests \ {r} PROVE Kept(q)
  <2>1. asked[q] \in Request /\ Sensible(asked[q]) /\ Explained(asked[q])
    BY DEF IInv, Shape
  <2> QED BY <1>1, <2>1, TableStandsStill
<1> QED BY <1>2, <1>3

\* An answer other than "another send" needs no reason.
LEMMA AnswerIsKept ==
    ASSUME IInv, UNCHANGED <<outbox, drives>>, NEW r \in Requests, NEW label \in Labels,
           label = "another send" => asked[r].wasUnderWay, Answered(r, label)
    PROVE  \A q \in Requests : Kept(q)
<1> DEFINE a == [NoRequest EXCEPT !.says = label, !.wasUnderWay = asked[r].wasUnderWay]
<1>1. asked[r].wasUnderWay \in BOOLEAN
  BY DEF IInv, Shape, Request
<1>2. /\ a.at = "idle" /\ a.says = label /\ a.wasUnderWay = asked[r].wasUnderWay
      /\ a \in Request
  BY <1>1 DEF NoRequest, Request
<1>3. Steps(r, a)
  BY DEF Answered
<1> HIDE DEF a
<1>4. Sensible(a) /\ Explained(a)
  BY <1>2 DEF Sensible, Explained, Explaining
<1> QED BY <1>2, <1>3, <1>4, OneSteps

LEMMA AskingIsKept ==
    ASSUME IInv, NEW r \in Requests,
           \/ \E item \in Items, text \in Bodies : SendButton(r, item, text)
           \/ \E i \in Ids, text \in Bodies \cup {Null} : Approves(r, i, text)
           \/ \E i \in Ids : Retries(r, i)
    PROVE  \A q \in Requests : Kept(q)
<1>1. ASSUME NEW i \in Ids PROVE i \in Nat /\ i # 0 /\ outbox[i].item \in Items
  <2>1. outbox[i] \in Row /\ i \in Nat /\ i # 0
    BY RowInTable, RowIsNotZero DEF IInv, Shape, OutboxTypeOK, Ids
  <2> QED BY <2>1 DEF Row
<1>2. ASSUME NEW item \in Items, NEW text \in Bodies, SendButton(r, item, text)
      PROVE  \A q \in Requests : Kept(q)
  <2> DEFINE a == [NoRequest EXCEPT !.at = "writing", !.item = item, !.text = text]
  <2>1. Steps(r, a) /\ UNCHANGED <<outbox, drives>>
    BY <1>2 DEF SendButton
  <2>2. /\ a.at = "writing" /\ a.row = 0 /\ a.item = item /\ a.text = text /\ a.says = ""
        /\ a \in Request
    BY DEF NoRequest, Request, Labels
  <2> HIDE DEF a
  <2>3. Sensible(a) /\ Explained(a)
    BY <2>2 DEF Sensible, Explained, Explaining
  <2> QED BY <2>1, <2>2, <2>3, OneSteps
<1>3. ASSUME NEW i \in Ids, NEW text \in Bodies \cup {Null}, Approves(r, i, text)
      PROVE  \A q \in Requests : Kept(q)
  <2> DEFINE item == outbox[i].item
             a == [NoRequest EXCEPT !.at = "writing", !.row = i, !.item = item,
                                    !.from = Approvable, !.text = text]
  <2>1. Steps(r, a) /\ UNCHANGED <<outbox, drives>>
    BY <1>3 DEF Approves
  <2>2. item \in Items /\ i \in Nat
    BY <1>1
  <2> HIDE DEF item
  <2>3. /\ a.at = "writing" /\ a.row = i /\ a.item = item /\ a.from = Approvable
        /\ a.text = text /\ a.says = "" /\ a \in Request
    BY <2>2 DEF NoRequest, Request, Labels
  <2> HIDE DEF a
  <2>4. Sensible(a) /\ Explained(a)
    BY <1>1, <2>2, <2>3 DEF Sensible, Explained, Explaining, item
  <2> QED BY <2>1, <2>3, <2>4, OneSteps
<1>4. ASSUME NEW i \in Ids, Retries(r, i) PROVE \A q \in Requests : Kept(q)
  <2> DEFINE item == outbox[i].item
             a == [NoRequest EXCEPT !.at = "writing", !.row = i, !.item = item,
                                    !.from = {Failed}]
  <2>1. Steps(r, a) /\ UNCHANGED <<outbox, drives>>
    BY <1>4 DEF Retries
  <2>2. item \in Items /\ i \in Nat
    BY <1>1
  <2> HIDE DEF item
  <2>3. /\ a.at = "writing" /\ a.row = i /\ a.item = item /\ a.from = {Failed}
        /\ a.says = "" /\ a \in Request
    BY <2>2 DEF NoRequest, Request, Labels
  <2> HIDE DEF a
  <2>4. Sensible(a) /\ Explained(a)
    BY <1>1, <2>2, <2>3 DEF Sensible, Explained, Explaining, item
  <2> QED BY <2>1, <2>3, <2>4, OneSteps
<1> QED BY <1>2, <1>3, <1>4

\* A write is refused for a send under way or for a reason that stands.
LEMMA RefusalIsKept ==
    ASSUME IInv, NEW r \in Requests, IsRefused(r)
    PROVE  \A q \in Requests : Kept(q)
<1>1. PICK a : a = asked[r]
  OBVIOUS
<1>2. a \in Request /\ Sensible(a) /\ a.at = "writing" /\ Refuses(a)
  BY <1>1 DEF IInv, Shape, IsRefused
<1> DEFINE at == IF a.row = 0 THEN "blockers" ELSE "rereading"
           b == [a EXCEPT !.at = at, !.wasUnderWay = UnderWay(a.item)]
<1>3. Steps(r, b) /\ UNCHANGED <<outbox, drives>>
  BY <1>1 DEF IsRefused
<1>4. UnderWay(a.item) \in BOOLEAN
  BY DEF UnderWay
<1>5. /\ b \in Request /\ b.at = at /\ b.wasUnderWay = UnderWay(a.item) /\ b.row = a.row
      /\ b.item = a.item /\ b.from = a.from /\ b.text = a.text /\ b.says = a.says
  BY <1>2, <1>4 DEF Request
<1> HIDE DEF b
<1>6. Sensible(b)
  BY <1>2, <1>5 DEF Sensible
<1>7. ASSUME ~ UnderWay(a.item) PROVE StillRefused(b)
  <2>1. ASSUME NEW self PROVE ~ SiblingInFlight(a.item, self)
    <3>1. 0 \notin Ids /\ OnItsWay(a.item, 0) = {}
      BY <1>7, RowIsNotZero DEF UnderWay, IInv, Shape
    <3> QED BY <3>1 DEF OnItsWay, SiblingInFlight, Siblings
  <2>2. CASE a.row = 0
    <3>1. AlreadySent(a.item, a.text, 0)
      BY <1>2, <2>1, <2>2 DEF Refuses, MayAdd
    <3> QED BY <1>5, <2>2, <3>1 DEF StillRefused
  <2>3. CASE a.row # 0
    <3>1. outbox[a.row].item = a.item
      BY <1>2, <2>3 DEF Sensible
    <3>2. outbox[a.row].status \notin a.from \/ AlreadySent(a.item, Words(a), a.row)
      BY <1>2, <2>1, <2>3, <3>1 DEF Refuses, MayRelease
    <3>3. Words(a) = Comparand(b)
      BY <1>5, <2>3 DEF Words, Comparand
    <3> QED BY <1>5, <2>3, <3>2, <3>3 DEF StillRefused
  <2> QED BY <2>2, <2>3
<1>8. Explained(b)
  BY <1>2, <1>5, <1>7 DEF Explained, Sensible
<1> QED BY <1>3, <1>5, <1>6, <1>8, OneSteps

LEMMA RereadingIsKept ==
    ASSUME IInv, NEW r \in Requests, Rereads(r)
    PROVE  \A q \in Requests : Kept(q)
<1>1. PICK a : a = asked[r]
  OBVIOUS
<1>2. /\ a \in Request /\ Sensible(a) /\ Explained(a) /\ a.at = "rereading"
      /\ UNCHANGED <<outbox, drives>>
  BY <1>1 DEF IInv, Shape, Rereads
<1>3. /\ a.row \in Ids /\ a.row # 0 /\ outbox[a.row].item = a.item /\ a.item \in Items
      /\ a.from \in {Approvable, {Failed}} /\ a.says = "" /\ OutboxTypeOK
  BY <1>2 DEF Sensible, IInv, Shape
<1>4. CASE outbox[a.row].status \notin a.from
  <2>1. Answered(r, RowLabel(a.row))
    BY <1>1, <1>4 DEF Rereads
  <2> QED BY <1>2, <1>3, <2>1, LabelIs, AnswerIsKept
<1>5. CASE outbox[a.row].status \in a.from
  <2> DEFINE b == [a EXCEPT !.at = "blockers", !.text = Comparand(a)]
  <2>1. Steps(r, b)
    BY <1>1, <1>5 DEF Rereads
  <2>2. Comparand(a) \in Bodies
    <3>1. outbox[a.row] \in Row
      BY <1>3, RowInTable
    <3> QED BY <1>2, <3>1 DEF Comparand, Coalesce, Row, Request
  <2>3. /\ b \in Request /\ b.at = "blockers" /\ b.wasUnderWay = a.wasUnderWay /\ b.row = a.row
        /\ b.item = a.item /\ b.from = a.from /\ b.text = Comparand(a) /\ b.says = a.says
    BY <1>2, <2>2 DEF Request
  <2> HIDE DEF b
  <2>4. Sensible(b)
    BY <1>3, <2>2, <2>3 DEF Sensible
  <2>5. Explained(b)
    BY <1>2, <1>3, <1>5, <2>3 DEF Explained, Explaining, StillRefused
  <2> QED BY <1>2, <2>1, <2>3, <2>4, <2>5, OneSteps
<1> QED BY <1>4, <1>5

LEMMA ExplainingIsKept ==
    ASSUME IInv, NEW r \in Requests, ReadsBlocker(r) \/ ReadsDuplicate(r)
    PROVE  \A q \in Requests : Kept(q)
<1>1. PICK a : a = asked[r]
  OBVIOUS
<1>2. /\ a \in Request /\ Sensible(a) /\ Explained(a) /\ OutboxTypeOK
      /\ UNCHANGED <<outbox, drives>>
  BY <1>1 DEF IInv, Shape, ReadsBlocker, ReadsDuplicate
<1> DEFINE rows == OnItsWay(a.item, a.row)
<1>3. CASE ReadsBlocker(r) /\ rows # {}
  <2>1. Answered(r, RowLabel(First(rows)))
    BY <1>1, <1>3 DEF ReadsBlocker
  <2>2. rows \in SUBSET Ids
    BY DEF OnItsWay, Siblings
  <2> HIDE DEF rows
  <2>3. First(rows) \in Ids
    BY <1>2, <1>3, <2>2, FirstRow
  <2> QED BY <1>2, <2>1, <2>3, LabelIs, AnswerIsKept
<1>4. CASE ReadsBlocker(r) /\ rows = {}
  <2> DEFINE b == [a EXCEPT !.at = "duplicates"]
  <2>1. Steps(r, b) /\ a.at = "blockers"
    BY <1>1, <1>4 DEF ReadsBlocker
  <2>2. /\ b \in Request /\ b.at = "duplicates" /\ b.wasUnderWay = a.wasUnderWay /\ b.row = a.row
        /\ b.item = a.item /\ b.from = a.from /\ b.text = a.text /\ b.says = a.says
    BY <1>2 DEF Request
  <2> HIDE DEF b
  <2>3. Sensible(b)
    BY <1>2, <2>1, <2>2 DEF Sensible
  <2>4. Explained(b)
    BY <1>2, <2>1, <2>2 DEF Explained, Explaining, StillRefused
  <2> QED BY <1>2, <2>1, <2>2, <2>3, <2>4, OneSteps
<1>5. CASE ReadsDuplicate(r)
  <2>1. a.at = "duplicates"
    BY <1>1, <1>5 DEF ReadsDuplicate
  <2>2. CASE AlreadySent(a.item, a.text, a.row)
    <3>1. Answered(r, "already received") /\ "already received" \in Labels
      BY <1>1, <1>5, <2>2 DEF ReadsDuplicate, Labels
    <3> QED BY <1>2, <3>1, AnswerIsKept
  <2>3. CASE ~ AlreadySent(a.item, a.text, a.row)
    <3>1. Answered(r, "another send") /\ "another send" \in Labels
      BY <1>1, <1>5, <2>3 DEF ReadsDuplicate, Labels
    <3>2. asked[r].wasUnderWay
      BY <1>1, <1>2, <2>1, <2>3 DEF Explained, Explaining, StillRefused
    <3> QED BY <1>2, <3>1, <3>2, AnswerIsKept
  <2> QED BY <2>2, <2>3
<1> QED BY <1>3, <1>4, <1>5

\* A request that has got its row is done.
LEMMA ReleaseIsKept ==
    ASSUME IInv, [Next]_vars, NEW r \in Requests, Releases(r)
    PROVE  \A q \in Requests : Kept(q)
<1>1. asked' = [q \in Requests |-> IF q = r THEN NoRequest ELSE Watched(asked[q])]
  BY DEF Releases
<1>2. ASSUME NEW q \in Requests \ {r} PROVE Kept(q)
  <2>1. asked'[q] = Watched(asked[q])
    BY <1>1
  <2> QED BY <2>1, WatchedKept
<1>3. Kept(r)
  <2>1. asked'[r] = NoRequest
    BY <1>1
  <2>2. NoRequest \in Request
    BY DEF NoRequest, Request, Labels
  <2>3. PICK a : a = NoRequest
    OBVIOUS
  <2>4. a.at = "idle" /\ a.says = "" /\ a \in Request /\ asked'[r] = a
    BY <2>1, <2>2, <2>3 DEF NoRequest
  <2> QED BY <2>4 DEF Kept, Sensible, Explained, Explaining
<1> QED BY <1>2, <1>3

LEMMA RequestsAreKept ==
    ASSUME IInv, [Next]_vars
    PROVE  \A q \in Requests : Kept(q)
<1>1. CASE UNCHANGED <<outbox, drives, asked>>
  <2> SUFFICES ASSUME NEW q \in Requests PROVE Kept(q)
    OBVIOUS
  <2>1. asked[q] \in Request /\ Sensible(asked[q]) /\ Explained(asked[q]) /\ asked'[q] = asked[q]
    BY <1>1 DEF IInv, Shape
  <2> QED BY <1>1, <2>1, TableStandsStill
<1>2. CASE Watch
  <2> SUFFICES ASSUME NEW q \in Requests PROVE Kept(q)
    OBVIOUS
  <2>1. asked'[q] = Watched(asked[q])
    BY <1>2 DEF Watch
  <2> QED BY <2>1, WatchedKept
<1>3. ASSUME NEW r \in Requests, RequestStep(r) PROVE \A q \in Requests : Kept(q)
  BY <1>3, AskingIsKept, ReleaseIsKept, RefusalIsKept, RereadingIsKept, ExplainingIsKept
     DEF RequestStep
<1>4. Tick \/ UNCHANGED vars => UNCHANGED <<outbox, drives, asked>>
  BY DEF Tick, vars
<1>5. /\ \A item \in Items, body \in Bodies : Drafts(item, body) => Watch
      /\ \A d \in Drainers : Ends(d) \/ Dies(d) \/ (\E i \in Ids : Dispatches(d, i)) => Watch
      /\ \A i \in Ids : CallsOff(i) => Watch
      /\ Reclaims => Watch
  BY DEF Drafts, Ends, Dies, Dispatches, CallsOff, Reclaims
<1> QED BY <1>1, <1>2, <1>3, <1>4, <1>5 DEF Next

\* A drainer drives a row of the table, or none.
LEMMA DrivesAreKept ==
    ASSUME Shape, [Next]_vars, Ids \subseteq Ids'
    PROVE  drives' \in [Drainers -> Ids' \cup {0}]
<1>1. drives \in [Drainers -> Ids \cup {0}]
  BY DEF Shape
<1>2. \/ drives' = drives
      \/ \E d \in Drainers, i \in Ids \cup {0} : drives' = [drives EXCEPT ![d] = i]
  BY DEF Next, RequestStep, SendButton, Approves, Retries, Releases, IsRefused, Rereads,
         ReadsBlocker, ReadsDuplicate, Drafts, Ends, Dies, Dispatches, CallsOff, Reclaims,
         Tick, vars
<1> QED BY <1>1, <1>2

LEMMA AskedStaysFunction ==
    ASSUME Shape, [Next]_vars
    PROVE  asked' = [r \in Requests |-> asked'[r]]
<1>1. asked = [r \in Requests |-> asked[r]]
  BY DEF Shape
<1>2. \/ asked' = asked \/ Watch
      \/ \E r \in Requests : Releases(r) \/ \E a : Steps(r, a)
  BY DEF Next, RequestStep, SendButton, Approves, Retries, IsRefused, Rereads, Answered,
         ReadsBlocker, ReadsDuplicate, Drafts, Ends, Dies, Dispatches, CallsOff, Reclaims,
         Tick, vars
<1> QED BY <1>1, <1>2 DEF Watch, Releases, Steps

LEMMA InvStarts == Init => IInv
<1> SUFFICES ASSUME Init PROVE IInv
  OBVIOUS
<1>1. OutboxTypeOK
  <2>1. CASE outbox = << >>
    BY <2>1 DEF Init, OutboxInit, OutboxTypeOK
  <2>2. ASSUME NEW item \in Items, NEW body \in Bodies,
               outbox = <<[item |-> item, body |-> body, status |-> Sending,
                           scheduledAt |-> 0, sendingAt |-> NoStamp, attempts |-> 0]>>
        PROVE  OutboxTypeOK
    <3>1. [item |-> item, body |-> body, status |-> Sending,
           scheduledAt |-> 0, sendingAt |-> NoStamp, attempts |-> 0] \in Row
      BY DEF Row, Statuses
    <3> QED BY <2>2, <3>1 DEF Init, OutboxInit, OutboxTypeOK
  <2> QED BY <2>1, <2>2 DEF Init, OutboxInit
<1>2. NoRequest \in Request
  BY DEF NoRequest, Request, Labels
<1>3. Sensible(NoRequest) /\ Explained(NoRequest)
  BY DEF NoRequest, Sensible, Explained, Explaining
<1> QED BY <1>1, <1>2, <1>3 DEF Init, IInv, Shape

LEMMA InvIsKept == IInv /\ [Next]_vars => IInv'
<1> SUFFICES ASSUME IInv, [Next]_vars PROVE IInv'
  OBVIOUS
<1>1. OutboxTypeOK' /\ Ids \subseteq Ids'
  BY TableStep DEF IInv, TableLasts
<1>2. drives' \in [Drainers -> Ids' \cup {0}]
  BY <1>1, DrivesAreKept DEF IInv
<1>3. \A r \in Requests : asked'[r] \in Request /\ Sensible(asked[r])' /\ Explained(asked[r])'
  BY RequestsAreKept DEF Kept
<1>4. asked' \in [Requests -> Request]
  BY <1>3, AskedStaysFunction DEF IInv
<1> QED BY <1>1, <1>2, <1>3, <1>4 DEF IInv, Shape

LEMMA InvHolds == Spec => []IInv
BY InvStarts, InvIsKept, PTL DEF Spec

LEMMA InvIsTyped == IInv => OutboxTypeOK
BY DEF IInv, Shape

-----------------------------------------------------------------------------
(* What the pages say, in every state.                                     *)

\* send_state (outbox.py): a card that says there is time to stop a message is
\* never over a guest one of whose messages is going out.
THEOREM CaptionStaysHonest == Spec => []CaptionIsHonest
BY InvHolds, InvIsTyped, CaptionLemma, PTL

\* _sent_state (dashboard.py): the page never offers a send that the guards of
\* add would turn down.
THEOREM OffersAreAccepted == Spec => []OfferIsAccepted
BY InvHolds, InvIsTyped, OfferLemma, PTL

\* _send_refusal (dashboard.py): a page that says "another send" to an operator
\* whose write was refused speaks of one that really was under way, although it
\* learns the reason from statements of its own, after the write.
THEOREM RefusalsAreTrue == Spec => []RefusalIsTrue
<1>1. IInv => RefusalIsTrue
  BY DEF IInv, Explained, RefusalIsTrue
<1> QED BY <1>1, InvHolds, PTL

\* _governing_rank (outbox.py): the drainer takes the row the card speaks of.
THEOREM CardsNameNext == Spec => CardNamesNext
<1>1. IInv /\ [Next]_vars =>
          [\A i \in Ids :
               /\ outbox[i].status = Queued /\ outbox'[i].status = Sending
               /\ \A j \in Siblings(outbox[i].item, i) : outbox[j].status # Sending
               => Governing(outbox[i].item) = i]_vars
  <2> SUFFICES ASSUME IInv, [Next]_vars, NEW i \in Ids,
                      outbox[i].status = Queued, outbox'[i].status = Sending,
                      \A j \in Siblings(outbox[i].item, i) : outbox[j].status # Sending
               PROVE  Governing(outbox[i].item) = i
    OBVIOUS
  <2>1. Lasts(i) /\ OutboxTypeOK
    BY TableStep DEF TableLasts, IInv, Shape
  <2>2. PICK d \in Drainers : Dispatches(d, i)
    BY <2>1 DEF Lasts
  <2> QED BY <2>1, <2>2, NextSpeaks
<1> QED BY <1>1, InvHolds, PTL DEF Spec, CardNamesNext
=============================================================================
