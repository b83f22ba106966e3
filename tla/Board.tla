-------------------------------- MODULE Board --------------------------------
(***************************************************************************)
(* What the operator is shown about a deal and about its messages, and     *)
(* what the program does with the same rows.  The rule "what still needs   *)
(* me" is written in Python (pipeline.lead_state), in SQL (_state_sql) and *)
(* as lists (needs_action, reviewable); the rule "may I send" as a card    *)
(* label (outbox.send_state), as a pre-read (_sent_state) and as the guard *)
(* of the writes (Outbox).                                                 *)
(*                                                                         *)
(* The behaviour is the outbox table's, written by drainers, operators and *)
(* the pass that reclaims, and the requests of the operators, which learn  *)
(* why a write was refused from statements of their own.  The properties   *)
(* range over every deal and response.                                     *)
(***************************************************************************)
EXTENDS Outbox, FiniteSets, FiniteSetsExt

CONSTANTS
    Requests,         \* request threads of the dashboard
    Drainers,         \* the drainers of every host (send_next)
    Null,             \* SQL's NULL, Python's None, no text
    MaxRows, MaxTime, \* bounds of the model: rows, clock,
    MaxClaims         \* and claims of one row

ASSUME BoardAssumption ==
    /\ Null \notin Bodies /\ Null \notin {0, 1, 2}
    /\ Null \notin {"draft", "skipped", "sent", "dismissed", "draft error", "not a fit"}

VARIABLES
    asked,            \* a request's release: what it asks for, and how far it is
    drives            \* the row a drainer is delivering, 0 for none

vars == <<outbox, now, asked, drives>>

-----------------------------------------------------------------------------
(* The rows behind the views.                                              *)

Open   == {"new", "contacted"}
Closed == {"booked", "lost"}

Stamps == {Null, 1, 2}

\* A deal, as far as the views read it; `fresh` is an inquiry younger than
\* LIVE_WINDOW_DAYS.
Deals == [stage : {"contacted", "booked", "lost"}, reply : Stamps, contact : Stamps,
          next : {Null, 1}, fresh : BOOLEAN]

NoResponse == [status |-> Null, reason |-> Null, draft |-> Null]

\* A response row, or the row of NULLs that a LEFT JOIN puts in its place.
Responses ==
    {NoResponse} \cup
    [status : {"draft", "skipped", "sent", "dismissed"},
     reason : {Null, "draft error", "not a fit"}, draft : Bodies \cup {Null}]

-----------------------------------------------------------------------------
(* pipeline.py: the state of a deal.                                       *)

LeadStates == {"needs_you", "guest_replied", "awaiting_guest", "scheduled", "closed"}

\* cmp_ts: a missing stamp sorts before every other.
CmpTs(stamp) == IF stamp = Null THEN 0 ELSE stamp

GuestIsWaiting(d) == d.reply # Null /\ CmpTs(d.reply) > CmpTs(d.contact)

IsDraftFailure(r) == r.status = "skipped" /\ r.reason = "draft error"

FailedItems == {item \in Items : \E i \in Siblings(item, 0) : outbox[i].status = Failed}

LeadState(d, r, failed) ==
    CASE d.stage \in Closed \/ r.status = "dismissed"   -> "closed"
      [] OTHER ->
    CASE GuestIsWaiting(d)                              -> "guest_replied"
      [] OTHER ->
    CASE failed \/ IsDraftFailure(r)                    -> "needs_you"
      [] OTHER ->
    CASE r.status \in {"draft", Null}                   -> "needs_you"
      [] r.status = "skipped"                           -> "closed"
      [] r.status = "sent" /\ d.next # Null             -> "scheduled"
      [] r.status = "sent" /\ d.next = Null             -> "awaiting_guest"

\* SQL's three truth values: a comparison with NULL is neither true nor false,
\* and a WHEN is taken only if it is true.
Is(b)       == IF b THEN "true" ELSE "false"
Eq(a, b)    == IF Null \in {a, b} THEN "unknown" ELSE Is(a = b)
Greater(a, b) == IF Null \in {a, b} THEN "unknown" ELSE Is(a > b)
And(p, q)   == CASE "false" \in {p, q}   -> "false"
                 [] {p, q} = {"true"}    -> "true"
                 [] OTHER                -> "unknown"
Or(p, q)    == CASE "true" \in {p, q}    -> "true"
                 [] {p, q} = {"false"}   -> "false"
                 [] OTHER                -> "unknown"
Coalesce(a, b) == IF a = Null THEN b ELSE a

\* Slip: a deal nobody has answered has no status to compare.
Unanswered_Compared(r) == Eq(r.status, "draft")
Unanswered(r)          == Or(Eq(r.status, "draft"), Is(r.status = Null))

\* Slip: the guest's stamp is compared with a NULL.
Replied_NoCoalesce(d) == And(Is(d.reply # Null), Greater(d.reply, d.contact))
Replied(d)            == And(Is(d.reply # Null), Greater(d.reply, Coalesce(d.contact, 0)))

\* _state_sql, branch for branch.
StateSql(d, r, failed) ==
    CASE Is(d.stage \in Closed) = "true"                        -> "closed"
      [] OTHER ->
    CASE Eq(r.status, "dismissed") = "true"                     -> "closed"
      [] OTHER ->
    CASE Replied(d) = "true"                                    -> "guest_replied"
      [] OTHER ->
    CASE Is(failed) = "true"                                    -> "needs_you"
      [] OTHER ->
    CASE And(Eq(r.status, "skipped"),
             Eq(Coalesce(r.reason, ""), "draft error")) = "true" -> "needs_you"
      [] OTHER ->
    CASE Unanswered(r) = "true"                                 -> "needs_you"
      [] OTHER ->
    CASE Eq(r.status, "skipped") = "true"                       -> "closed"
      [] OTHER ->
    CASE d.next # Null                                          -> "scheduled"
      [] OTHER                                                  -> "awaiting_guest"

\* Slip: a list of the deals nobody has sent to.
NeedsAction_NotSent(d, r) == d.stage \in Open /\ r.status # "sent" /\ d.fresh

\* The dashboard's lists.
NeedsAction(d, r) ==
    /\ d.stage \in Open /\ d.fresh
    /\ r.status \notin {"sent", "dismissed"}
    /\ r.status = "skipped" => IsDraftFailure(r)

Reviewable(d, r) ==
    d.stage \in Open /\ r.status = "skipped" /\ ~ IsDraftFailure(r)

-----------------------------------------------------------------------------
(* outbox.py: what an item's delivery is doing.                            *)

OnItsWay(item, self) == {i \in Siblings(item, self) : outbox[i].status \in InFlight}

\* Slip: the oldest row in flight.
Outranks_ById(i, j) ==
    IF (outbox[i].status = Sending) # (outbox[j].status = Sending)
    THEN outbox[i].status = Sending ELSE i < j

\* _governing_rank, and the ORDER BY of in_flight_for_item.
Outranks(i, j) ==
    IF (outbox[i].status = Sending) # (outbox[j].status = Sending)
    THEN outbox[i].status = Sending
    ELSE Before(i, j)

First(rows) == CHOOSE i \in rows : \A j \in rows \ {i} : Outranks(i, j)

\* Slip: the newest row speaks for the item.
Governing_Newest(item) == Max(Siblings(item, 0))

\* send_state: the row that speaks for an item that has one.
Governing(item) ==
    IF OnItsWay(item, 0) # {} THEN First(OnItsWay(item, 0)) ELSE Max(Siblings(item, 0))

Deferred(i) == outbox[i].status = Queued /\ outbox[i].scheduledAt > now

RowLabel(i) == IF Deferred(i) THEN "scheduled to send" ELSE outbox[i].status

-----------------------------------------------------------------------------
(* dashboard.py: may this be sent, and why not.                            *)

Delivered(item) == {outbox[i].body : i \in {j \in Siblings(item, 0) : outbox[j].status = Sent}}

\* _sent_state: "" offers to send `text`, or the stored draft if that is Null.
SentState(item, r, text) ==
    LET words == Coalesce(text, r.draft)
    IN CASE Siblings(item, 0) # {} /\ outbox[Governing(item)].status \in InFlight
                                                -> RowLabel(Governing(item))
         [] OTHER ->
       CASE r.status = "sent"                   -> "sent"
         [] OTHER ->
       CASE words \in Delivered(item)           -> "already received"
         [] words = Null /\ Delivered(item) # {} -> "sent"
         [] OTHER                               -> ""

\* The guards of add, and of release_to_send.
MayAdd(item, body) == ~ SiblingInFlight(item, 0) /\ ~ AlreadySent(item, body, 0)

MayRelease(i, from, body) ==
    /\ outbox[i].status \in from
    /\ ~ SiblingInFlight(outbox[i].item, i)
    /\ ~ AlreadySent(outbox[i].item, body, i)

\* What _sent_state reads of a response.
Answers == {r \in Responses : r.reason = Null /\ r.status \in {"draft", "sent"}}

-----------------------------------------------------------------------------
(* A request that releases a message: a look, the guarded write, and, if   *)
(* it is refused, the statements that find out why.                        *)

\* row is 0 for the send button; text is Null where the row keeps its own.
NoRequest == [at |-> "idle", row |-> 0, item |-> Null, from |-> {}, text |-> Null,
              wasUnderWay |-> FALSE, says |-> ""]

Steps(r, request) == asked' = [asked EXCEPT ![r] = request]

Answered(r, label) ==
    Steps(r, [NoRequest EXCEPT !.says = label, !.wasUnderWay = asked[r].wasUnderWay])

\* Whether a send to a guest is really under way: a row is on its way, or a
\* drainer is at one, whatever has become of its status.
UnderWay(item) ==
    \/ OnItsWay(item, 0) # {}
    \/ \E d \in Drainers : drives[d] # 0 /\ outbox[drives[d]].item = item

\* A refused request remembers whether there was one, when it was refused or
\* since (no code: what the explanation is held against).
Explaining(a) == a.at \in {"rereading", "blockers", "duplicates"}

Watched(a) ==
    IF Explaining(a) /\ \E item \in Items : item = a.item /\ UnderWay(item)'
    THEN [a EXCEPT !.wasUnderWay = TRUE] ELSE a

Watch == asked' = [r \in Requests |-> Watched(asked[r])]

\* What the write would deliver (COALESCE in its guard).
Words(a) == IF a.row = 0 THEN a.text ELSE Coalesce(a.text, outbox[a.row].body)

Grants(a) ==
    IF a.row = 0 THEN Len(outbox) < MaxRows /\ AddGuarded(a.item, a.text)
                 ELSE Release(a.row, a.from, Words(a))

Refuses(a) ==
    IF a.row = 0 THEN ~ MayAdd(a.item, a.text) ELSE ~ MayRelease(a.row, a.from, Words(a))

\* responder_send: the card's pre-read, about the posted text.
SendButton(r, item, text) ==
    /\ asked[r].at = "idle"
    /\ \E answer \in Answers : SentState(item, answer, text) = ""
    /\ Steps(r, [NoRequest EXCEPT !.at = "writing", !.item = item, !.text = text])
    /\ UNCHANGED <<outbox, now, drives>>

\* outbox_approve: of the row, nothing is read before the write but whose it is.
Approves(r, i, text) ==
    /\ asked[r].at = "idle"
    /\ Steps(r, [NoRequest EXCEPT !.at = "writing", !.row = i, !.item = outbox[i].item,
                                  !.from = Approvable, !.text = text])
    /\ UNCHANGED <<outbox, now, drives>>

\* outbox_retry: only a message that is read as failed.
Retries(r, i) ==
    /\ asked[r].at = "idle" /\ outbox[i].status = Failed
    /\ Steps(r, [NoRequest EXCEPT !.at = "writing", !.row = i, !.item = outbox[i].item,
                                  !.from = {Failed}])
    /\ UNCHANGED <<outbox, now, drives>>

\* The write, granted.
Releases(r) ==
    /\ asked[r].at = "writing" /\ Grants(asked[r])
    /\ UNCHANGED <<now, drives>>
    /\ asked' = [q \in Requests |-> IF q = r THEN NoRequest ELSE Watched(asked[q])]

\* The write, refused: only a release reads its row again.
IsRefused(r) ==
    /\ asked[r].at = "writing" /\ Refuses(asked[r])
    /\ Steps(r, [asked[r] EXCEPT !.at = IF asked[r].row = 0 THEN "blockers" ELSE "rereading",
                                 !.wasUnderWay = UnderWay(asked[r].item)])
    /\ UNCHANGED <<outbox, now, drives>>

\* Slip: the row's stored text stands for what was to be sent.
Comparand_Stored(a) == outbox[a.row].body

\* _release_refusal: the posted text, or that of the row as it is read again.
Comparand(a) == Coalesce(a.text, outbox[a.row].body)

\* release_to_send returns the row as it now is; its status may be the answer.
Rereads(r) ==
    LET i == asked[r].row
    IN  /\ asked[r].at = "rereading"
        /\ IF outbox[i].status \notin asked[r].from THEN Answered(r, RowLabel(i))
           ELSE Steps(r, [asked[r] EXCEPT !.at = "blockers", !.text = Comparand(asked[r])])
        /\ UNCHANGED <<outbox, now, drives>>

\* _send_refusal, in_flight_for_item: a row on its way is named first.
ReadsBlocker(r) ==
    LET rows == OnItsWay(asked[r].item, asked[r].row)
    IN  /\ asked[r].at = "blockers"
        /\ IF rows # {} THEN Answered(r, RowLabel(First(rows)))
                        ELSE Steps(r, [asked[r] EXCEPT !.at = "duplicates"])
        /\ UNCHANGED <<outbox, now, drives>>

\* _send_refusal, body_already_sent.
ReadsDuplicate(r) ==
    /\ asked[r].at = "duplicates"
    /\ Answered(r, IF AlreadySent(asked[r].item, asked[r].text, asked[r].row)
                   THEN "already received" ELSE "another send")
    /\ UNCHANGED <<outbox, now, drives>>

-----------------------------------------------------------------------------
(* The table's life.                                                       *)

Drafts(item, body) ==
    /\ Len(outbox) < MaxRows
    /\ \E auto \in BOOLEAN, at \in {now, now + 1} : Add(item, body, auto, at)
    /\ UNCHANGED <<now, drives>>
    /\ Watch

\* send_next: the claim.
Dispatches(d, i) ==
    /\ drives[d] = 0
    /\ outbox[i].attempts < MaxClaims
    /\ IsNextQueued(i)
    /\ ClaimRow(i)
    /\ drives' = [drives EXCEPT ![d] = i]
    /\ UNCHANGED now
    /\ Watch

\* send_next: the outcome is written whatever the row's status has become.
Ends(d) ==
    /\ drives[d] # 0
    /\ \/ \E status \in {Sent, Failed} : SettleRow(drives[d], status)
       \/ ReleaseUnattempted(drives[d])
    /\ drives' = [drives EXCEPT ![d] = 0]
    /\ UNCHANGED now
    /\ Watch

\* The process is gone before it writes.
Dies(d) ==
    /\ drives[d] # 0
    /\ drives' = [drives EXCEPT ![d] = 0]
    /\ UNCHANGED <<outbox, now>>
    /\ Watch

Reclaims ==
    /\ \E stuck \in StuckSending : ReclaimRow(stuck[1], stuck[2])
    /\ UNCHANGED <<now, drives>>
    /\ Watch

CallsOff(i) ==
    /\ CancelRow(i)
    /\ UNCHANGED <<now, drives>>
    /\ Watch

Tick == now < MaxTime /\ now' = now + 1 /\ UNCHANGED <<outbox, asked, drives>>

Init ==
    /\ OutboxInit
    /\ asked = [r \in Requests |-> NoRequest]
    /\ drives = [d \in Drainers |-> 0]

RequestStep(r) ==
    \/ \E item \in Items, text \in Bodies : SendButton(r, item, text)
    \/ \E i \in Ids, text \in Bodies \cup {Null} : Approves(r, i, text)
    \/ \E i \in Ids : Retries(r, i)
    \/ Releases(r) \/ IsRefused(r) \/ Rereads(r) \/ ReadsBlocker(r) \/ ReadsDuplicate(r)

Next ==
    \/ \E r \in Requests : RequestStep(r)
    \/ \E item \in Items, body \in Bodies : Drafts(item, body)
    \/ \E d \in Drainers : Ends(d) \/ Dies(d) \/ \E i \in Ids : Dispatches(d, i)
    \/ \E i \in Ids : CallsOff(i)
    \/ Reclaims
    \/ Tick

Spec == Init /\ [][Next]_vars

-----------------------------------------------------------------------------
(* Properties.                                                             *)

FiledAlike(failed) ==
    \A d \in Deals, r \in Responses : LeadState(d, r, failed) = StateSql(d, r, failed)

\* Named, for TLC to evaluate them once.
FiledAlikeFailed   == FiledAlike(TRUE)
FiledAlikeUnfailed == FiledAlike(FALSE)

\* "Two implementations of one rule" (pipeline.py, _state_sql): the inbox files
\* every deal under the state its own page shows, NULLs included.
InboxAgrees ==
    \A item \in Items :
        IF item \in FailedItems THEN FiledAlikeFailed ELSE FiledAlikeUnfailed

\* Work by lead_state, but settled by its response alone: the guest is waiting
\* or a send has failed, and needs_action looks at neither.
Overlooked(d, r, failed) ==
    /\ d.stage \in Open
    /\ GuestIsWaiting(d) \/ failed
    /\ r.status = "sent" \/ (r.status = "skipped" /\ ~ IsDraftFailure(r))

ListedAlike(failed) ==
    \A d \in Deals, r \in Responses :
        LET state == LeadState(d, r, failed)
            overlooked == Overlooked(d, r, failed)
        IN /\ NeedsAction(d, r) <=>
                  state \in {"needs_you", "guest_replied"} /\ d.fresh /\ ~ overlooked
           /\ Reviewable(d, r) <=>
                  \/ d.stage \in Open /\ state = "closed" /\ r.status # "dismissed"
                  \/ overlooked /\ r.status # "sent"

ListedAlikeFailed   == ListedAlike(TRUE)
ListedAlikeUnfailed == ListedAlike(FALSE)

\* needs_action and reviewable (pipeline.py) derive "what still needs me" anew.
\* This is all they differ from lead_state in: the fresh deals it calls work are
\* listed as work save the overlooked, and those agreed to be closed are listed
\* for oversight along with the skipped ones among the overlooked.
ListsMissOverlooked ==
    \A item \in Items :
        IF item \in FailedItems THEN ListedAlikeFailed ELSE ListedAlikeUnfailed

\* send_state (outbox.py): "Scheduled to send" says there is still time to stop
\* it: no message of that guest is being sent, or can be taken by a drainer.
CaptionIsHonest ==
    \A item \in Items :
        /\ Siblings(item, 0) # {}
        /\ RowLabel(Governing(item)) = "scheduled to send"
        => \A i \in Siblings(item, 0) : outbox[i].status # Sending /\ ~ Due(i)

\* _sent_state (dashboard.py): what the page offers to send, the guarded write
\* accepts, whatever the item's other rows are.
OfferIsAccepted ==
    \A item \in Items, r \in Answers, text \in Bodies \cup {Null} :
        SentState(item, r, text) = "" =>
            \/ Coalesce(text, r.draft) = Null
            \/ MayAdd(item, Coalesce(text, r.draft))

\* _send_refusal (dashboard.py): "when nothing was under way at all" it does not
\* say that another send was: one was, when the write was refused or since.
RefusalIsTrue ==
    \A r \in Requests : asked[r].says = "another send" => asked[r].wasUnderWay

\* _governing_rank (outbox.py): the row the card speaks of is the one the
\* drainer takes next for that guest.
CardNamesNext ==
    [][\A i \in Ids :
           /\ outbox[i].status = Queued /\ outbox'[i].status = Sending
           /\ \A j \in Siblings(outbox[i].item, i) : outbox[j].status # Sending
           => Governing(outbox[i].item) = i]_vars
=============================================================================
