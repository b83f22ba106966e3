------------------------------ MODULE Inbound ------------------------------
(***************************************************************************)
(* E-mail in.  The provider posts a notification to dashboard.py's         *)
(* webhook; inbound.accept reads it, inbound.store deduplicates it through *)
(* storage.py, puts it on the board (a deal of its own, or a stamp on the  *)
(* deal of its conversation) and has a reply drafted.  What cannot be read *)
(* or comes from an unknown sender is held in inbound_rejects.py until the *)
(* operator dismisses it or tries again (inbound.recover); every load of   *)
(* the dashboard backfills the board from what is stored.                  *)
(*                                                                         *)
(* A mail is a record: `id` the strict and `alt` the loose key ff_email.py *)
(* derives, `fwd` whether it was forwarded, `says` the guest's message it  *)
(* carries a copy of, `known` whether its sender is allowed, `readable`    *)
(* whether today's parser can read it.                                     *)
(***************************************************************************)
EXTENDS Integers, Sequences, FiniteSets, FiniteSetsExt

CONSTANTS
    Mails,          \* records as above, with kind, guest and unit
    Requests,       \* request threads; a draft goes on in the thread it came from
    MaxRows,        \* inbound_rejects.MAX_ROWS_PER_TENANT
    MaxUnreviewed,  \* inbound_rejects.MAX_UNREVIEWED
    MaxTime,        \* seconds the model can tell apart
    MaxMails,       \* webhook calls
    MaxRetries,     \* "Try again" clicks
    MaxClosed,      \* deals the landlord gives up
    MaxFaults       \* database errors and crashes of the web process

NoKey  == "none"    \* a lead has no loose key
NoUnit == "none"    \* the mail names no property
Never  == 0
NoDeal == 0

ASSUME MailsAssumption ==
    /\ \A m, n \in Mails : m.id = n.id => m = n
    /\ \A m \in Mails : m.kind \in {"lead", "message"}
    /\ \A m \in Mails : (m.kind = "lead") <=> (m.alt = NoKey)
    /\ MaxTime \in Nat \ {0}

VARIABLES
    seen,        \* table seen: first_seen of every mail, or Never
    deals,       \* table deals, the columns that matter here; the index is the id
    held,        \* table inbound_rejects
    responses,   \* table responses: the items that have a row
    proc,        \* what every request thread is doing
    board,       \* the dashboard load that backfills, and what it has left to do
    fixed,       \* the parser has been extended
    now,         \* the clock, in seconds
    landed,      \* messages that have reached the board
    answers,     \* how often a message was drafted for
    excused,     \* messages that met a window the code accepts
    torn,        \* mails whose retry died half-way
    left         \* what is left of every bound

tables == <<seen, deals, held, responses>>
ghosts == <<landed, answers, excused, torn>>
vars   == <<tables, ghosts, proc, board, fixed, now, left>>

Messages == {m.says : m \in Mails}

Spend(what) ==
    /\ left[what] > 0
    /\ left' = [left EXCEPT ![what] = @ - 1]

-----------------------------------------------------------------------------
(* storage.py: two keys.                                                   *)

\* Slip: only the strict key, which every relay rewrites.
SameMessage_Strictly(m, n) == m.id = n.id

\* _already_ingested: m against the stored n.  A loose match is a copy if
\* either side was forwarded or has no key finer than the loose one.
SameMessage(m, n) ==
    \/ m.id = n.id
    \/ /\ m.alt # NoKey /\ m.alt = n.alt
       /\ (m.fwd \/ n.fwd \/ m.id = m.alt \/ n.id = n.alt)

Stored == {m \in Mails : seen[m] # Never}

AlreadySeen(m) == \E n \in Stored : SameMessage(m, n)

-----------------------------------------------------------------------------
(* pipeline.py: conversations.                                             *)

DealIds == DOMAIN deals

DealOf(m) == {d \in DealIds : deals[d].item = m}

Newest(S) == IF S = {} THEN NoDeal ELSE Max(S)

\* find_thread: closed deals are out; the property may be missing on one side.
\* Every mail names its guest here: without a name there is no thread.
FindThread(m) ==
    LET open  == {d \in DealIds : ~ deals[d].closed /\ deals[d].item # m
                                  /\ deals[d].item.guest = m.guest}
        exact == {d \in open : deals[d].item.unit = m.unit}
        loose == {d \in open : m.unit = NoUnit \/ deals[d].item.unit = NoUnit}
    IN  Newest(IF exact # {} THEN exact ELSE loose)

\* A lead starts its own conversation.
ThreadParent(m) == IF m.kind = "message" THEN FindThread(m) ELSE NoDeal

\* record_guest_reply on deal d, or ensure for m itself.  Another request may
\* have opened m's deal since: then ensure's INSERT meets the unique index,
\* or its read finds the deal and refreshes it.
RecordsReply(d, at) == deals' = [deals EXCEPT ![d].replied = at]

\* Slip: the unique index is missing.
Ensures_Again(m) == deals' = Append(deals, [item |-> m, closed |-> FALSE, replied |-> Never])

Ensures(m) ==
    deals' = IF DealOf(m) # {} THEN deals
             ELSE Append(deals, [item |-> m, closed |-> FALSE, replied |-> Never])

Lands(m, d) ==
    /\ IF d = NoDeal THEN Ensures(m) ELSE RecordsReply(d, now)
    /\ landed' = landed \cup {m.says}

-----------------------------------------------------------------------------
(* inbound_rejects.py.                                                     *)

Open      == "open"
Recovered == "recovered"
Dismissed == "dismissed"
NoRow == [status |-> "none", code |-> "none", rid |-> 0]

\* A deleted row leaves its id behind: the next row of that mail has another.
Absent(row) == [row EXCEPT !.status = "none", !.code = "none"]

Rows(h)     == {m \in Mails : h[m].status # "none"}
Evidence(h) == {m \in Mails : h[m].status = Open /\ h[m].code = "unparsed"}

\* Slip: the cap counts every row alike.
Sheddable_All(h) == Rows(h)
Sheddable(h)     == Rows(h) \ Evidence(h)

\* _prune: which rows may go.  Open rows outlive resolved ones; which of two
\* equals goes depends on when they were received, and is left open.
Shed(h) ==
    LET room == Max({MaxRows - Cardinality(Evidence(h)), 0})
        kept(S) == Sheddable(h) \ S
    IN  IF Cardinality(Rows(h)) <= MaxRows THEN {{}}
        ELSE {S \in SUBSET Sheddable(h) :
                 /\ Cardinality(kept(S)) = Min({room, Cardinality(Sheddable(h))})
                 /\ \A m \in S, n \in kept(S) :
                        h[m].status = Open => h[n].status = Open}

\* A replay keeps the status.
Upsert(m, code) ==
    [held EXCEPT ![m] = IF @.status = "none"
                        THEN [status |-> Open, code |-> code, rid |-> @.rid + 1]
                        ELSE [@ EXCEPT !.code = code]]

Refused(m, code) ==
    /\ code = "unparsed" /\ held[m].status = "none"
    /\ Cardinality(Evidence(held)) >= MaxUnreviewed

-----------------------------------------------------------------------------
(* A request thread.  `by` is the route that reached the board.            *)

Idle == [at |-> "rest", by |-> "none", mail |-> CHOOSE m \in Mails : TRUE,
         row |-> 0, target |-> NoDeal, remember |-> FALSE]

At(p, place)   == proc[p].at = place
Goes(p, place) == proc' = [proc EXCEPT ![p].at = place]
Mail(p)        == proc[p].mail
Rests(p)       == proc' = [proc EXCEPT ![p] = Idle]

\* Somebody is at work on a copy of this message.
Busy(m) == \E p \in Requests : ~ At(p, "rest") /\ Mail(p).says = m.says

\* Two requests at once for one message: the race recover's comment accepts.
Starts(p, m, by, place) ==
    /\ At(p, "rest")
    /\ proc' = [proc EXCEPT ![p] = [Idle EXCEPT !.at = place, !.by = by, !.mail = m,
                                                !.row = held[m].rid]]
    /\ excused' = IF Busy(m) THEN excused \cup {m.says} ELSE excused

Parses(m) == m.readable \/ fixed

\* inbound_email up to what inbound.accept makes of the mail.
Arrives(p, m) ==
    /\ Spend("mails")
    /\ Starts(p, m, "webhook", IF m.known /\ Parses(m) THEN "claiming" ELSE "recording")
    /\ UNCHANGED <<tables, landed, answers, torn, board, fixed, now>>

\* record: one transaction.
Records(p) ==
    LET m    == Mail(p)
        code == IF m.known THEN "unparsed" ELSE "sender_not_allowed"
    IN  /\ At(p, "recording")
        /\ \/ Refused(m, code) /\ UNCHANGED held
           \/ /\ ~ Refused(m, code)
              /\ \E S \in Shed(Upsert(m, code)) :
                     held' = [n \in Mails |-> IF n \in S THEN Absent(Upsert(m, code)[n])
                                              ELSE Upsert(m, code)[n]]
        /\ Rests(p)
        /\ UNCHANGED <<seen, deals, responses, ghosts, board, fixed, now, left>>

\* store: filter_new claims the mail.
Claims(p) ==
    /\ At(p, "claiming")
    /\ IF AlreadySeen(Mail(p))
       THEN Rests(p) /\ UNCHANGED seen
       ELSE Goes(p, "finding") /\ seen' = [seen EXCEPT ![Mail(p)] = now]
    /\ UNCHANGED <<deals, held, responses, ghosts, board, fixed, now, left>>

\* open_deal, in two steps.
Finds(p) ==
    /\ At(p, "finding")
    /\ proc' = [proc EXCEPT ![p].at = "landing", ![p].target = ThreadParent(Mail(p))]
    /\ UNCHANGED <<tables, ghosts, board, fixed, now, left>>

OnBoard(p) ==
    /\ At(p, "landing")
    /\ Lands(Mail(p), proc[p].target)
    /\ Goes(p, IF proc[p].remember THEN "remembering" ELSE "drafting")
    /\ UNCHANGED <<seen, held, responses, answers, excused, torn, board, fixed, now, left>>

\* recover marks the mail as seen once it has landed.
Remembers(p) ==
    /\ At(p, "remembering")
    /\ seen' = IF AlreadySeen(Mail(p)) THEN seen ELSE [seen EXCEPT ![Mail(p)] = now]
    /\ Goes(p, "drafting")
    /\ UNCHANGED <<deals, held, responses, ghosts, board, fixed, now, left>>

\* _draft_new_items: the thread is looked up, the model writes, its answer is
\* stored under the deal of the conversation, and the deal is told.
Resolves(p) ==
    /\ At(p, "drafting")
    /\ proc' = [proc EXCEPT ![p].at = "answering", ![p].target = ThreadParent(Mail(p))]
    /\ UNCHANGED <<tables, ghosts, board, fixed, now, left>>

Answers(p) ==
    LET d == proc[p].target
    IN  /\ At(p, "answering")
        /\ responses' = responses \cup {IF d = NoDeal THEN Mail(p) ELSE deals[d].item}
        /\ answers' = [answers EXCEPT ![Mail(p).says] = @ + 1]
        /\ Goes(p, "applying")
        /\ UNCHANGED <<seen, deals, held, landed, excused, torn, board, fixed, now, left>>

Applies(p) ==
    /\ At(p, "applying")
    /\ Lands(Mail(p), proc[p].target)
    /\ Rests(p)
    /\ UNCHANGED <<seen, held, responses, answers, excused, torn, board, fixed, now, left>>

-----------------------------------------------------------------------------
(* The operator's list.                                                    *)

\* inbound_rejected_retry: the row is open and the parser can read it now.
Retries(p, m) ==
    /\ held[m].status = Open /\ Parses(m)
    /\ Spend("retries")
    /\ Starts(p, m, "retry", "marking")
    /\ UNCHANGED <<tables, landed, answers, torn, board, fixed, now>>

\* The row this retry was clicked on is still there.
RowIs(p) == Mail(p) \in Rows(held) /\ held[Mail(p)].rid = proc[p].row

\* Slip: the row is claimed whatever its state.
Marks_Blind(p) ==
    /\ At(p, "marking")
    /\ held' = [held EXCEPT ![Mail(p)].status = Recovered]
    /\ Goes(p, "looking")
    /\ UNCHANGED <<seen, deals, responses, ghosts, board, fixed, now, left>>

\* mark_recovered: a compare-and-set.
Marks(p) ==
    /\ At(p, "marking")
    /\ \/ /\ RowIs(p) /\ held[Mail(p)].status = Open
          /\ held' = [held EXCEPT ![Mail(p)].status = Recovered]
          /\ Goes(p, "looking")
       \/ /\ ~ (RowIs(p) /\ held[Mail(p)].status = Open)
          /\ Rests(p) /\ UNCHANGED held
    /\ UNCHANGED <<seen, deals, responses, ghosts, board, fixed, now, left>>

\* _applied: a stored message counts as applied by policy.
Applied(m) == m.kind = "message" \/ DealOf(m) # {}

AlreadyAnswered(m) == m.kind = "message" \/ m \in responses

\* recover, up to the board write; a mail applied earlier is only drafted for
\* when nobody has.  What is read here never becomes false again.
Looks(p) ==
    LET m == Mail(p)
    IN  /\ At(p, "looking")
        /\ \/ /\ AlreadySeen(m) /\ Applied(m)
              /\ IF AlreadyAnswered(m) THEN Rests(p) ELSE Goes(p, "drafting")
           \/ /\ ~ (AlreadySeen(m) /\ Applied(m))
              /\ proc' = [proc EXCEPT ![p].at = "finding",
                                      ![p].remember = ~ AlreadySeen(m)]
        /\ UNCHANGED <<tables, ghosts, board, fixed, now, left>>

Reopens(p) ==
    /\ At(p, "reopening")
    /\ held' = [held EXCEPT ![Mail(p)].status = IF RowIs(p) THEN Open ELSE @]
    /\ Rests(p)
    /\ UNCHANGED <<seen, deals, responses, ghosts, board, fixed, now, left>>

Dismisses(m) ==
    /\ held[m].status = Open
    /\ held' = [held EXCEPT ![m].status = Dismissed]
    /\ UNCHANGED <<seen, deals, responses, ghosts, proc, board, fixed, now, left>>

RequestStep(p) ==
    \/ Records(p) \/ Claims(p) \/ Finds(p) \/ OnBoard(p) \/ Remembers(p)
    \/ Resolves(p) \/ Answers(p) \/ Applies(p)
    \/ Marks(p) \/ Looks(p) \/ Reopens(p)

-----------------------------------------------------------------------------
(* Backfill, item by item over what was stored when the board was loaded.  *)

BoardIdle == [at |-> "rest", todo |-> {}, target |-> NoDeal, fresh |-> FALSE,
              mail |-> CHOOSE m \in Mails : TRUE]

\* Slip: a message has no deal to open.
BoardLoads_Leads ==
    LET todo == {m \in Stored : DealOf(m) = {} /\ m.kind = "lead"}
    IN  /\ board.at = "rest" /\ todo # {}
        /\ board' = [BoardIdle EXCEPT !.at = "picking", !.todo = todo]
        /\ UNCHANGED <<tables, ghosts, proc, fixed, now, left>>

BoardLoads ==
    LET todo == {m \in Stored : DealOf(m) = {}}
    IN  /\ board.at = "rest" /\ todo # {}
        /\ board' = [BoardIdle EXCEPT !.at = "picking", !.todo = todo]
        /\ UNCHANGED <<tables, ghosts, proc, fixed, now, left>>

\* Only a reply newer than the one recorded is stamped.
BoardPicks(m) ==
    LET d == ThreadParent(m)
    IN  /\ board.at = "picking" /\ m \in board.todo
        /\ board' = [board EXCEPT
               !.at = "landing", !.todo = @ \ {m}, !.mail = m, !.target = d,
               !.fresh = d = NoDeal \/ seen[m] > deals[d].replied]
        /\ UNCHANGED <<tables, ghosts, proc, fixed, now, left>>

Continue == IF board.todo = {} THEN BoardIdle ELSE [board EXCEPT !.at = "picking"]

BoardLands ==
    /\ board.at = "landing"
    /\ IF ~ board.fresh THEN UNCHANGED deals
       ELSE IF board.target = NoDeal THEN Ensures(board.mail)
       ELSE RecordsReply(board.target, seen[board.mail])
    /\ landed' = landed \cup {board.mail.says}
    /\ board' = Continue
    /\ UNCHANGED <<seen, held, responses, answers, excused, torn, proc, fixed, now, left>>

BoardStep == BoardLoads \/ BoardLands \/ \E m \in Mails : BoardPicks(m)

-----------------------------------------------------------------------------
(* Failures and the rest of the world.                                     *)

\* Slip: the row is not handed back.
AfterFailure_Done(p) == IF At(p, "remembering") THEN "drafting" ELSE "rest"

\* Where a request goes when its next statement raises.  What was read from
\* the database or written before stays.
AfterFailure(p) ==
    IF At(p, "remembering") THEN "drafting"
    ELSE IF proc[p].by = "retry" /\ proc[p].at \in {"looking", "finding", "landing"}
         THEN "reopening"
    ELSE "rest"

Fails(p) ==
    /\ proc[p].at \in {"recording", "claiming", "looking", "finding", "landing",
                       "remembering", "applying"}
    /\ Spend("faults")
    /\ IF AfterFailure(p) = "rest" THEN Rests(p) ELSE Goes(p, AfterFailure(p))
    /\ excused' = IF At(p, "remembering") THEN excused \cup {Mail(p).says} ELSE excused
    /\ UNCHANGED <<tables, landed, answers, torn, board, fixed, now>>

BoardFails ==
    /\ board.at = "landing"
    /\ Spend("faults")
    /\ board' = Continue
    /\ UNCHANGED <<tables, ghosts, proc, fixed, now>>

\* A retry is half-way from its claim of the row until it has landed or handed
\* the row back.
HalfWay(p) == proc[p].by = "retry"
              /\ proc[p].at \in {"looking", "finding", "landing", "reopening"}

Crash ==
    /\ Spend("faults")
    /\ torn' = torn \cup {Mail(p) : p \in {q \in Requests : HalfWay(q)}}
    /\ excused' = excused \cup {Mail(p).says : p \in {q \in Requests : At(q, "remembering")}}
    /\ proc' = [p \in Requests |-> Idle]
    /\ board' = BoardIdle
    /\ UNCHANGED <<tables, landed, answers, fixed, now>>

Closes(d) ==
    /\ ~ deals[d].closed
    /\ Spend("closed")
    /\ deals' = [deals EXCEPT ![d].closed = TRUE]
    /\ UNCHANGED <<seen, held, responses, ghosts, proc, board, fixed, now>>

Deploys ==
    /\ ~ fixed
    /\ fixed' = TRUE
    /\ UNCHANGED <<tables, ghosts, proc, board, now, left>>

Tick ==
    /\ now < MaxTime
    /\ now' = now + 1
    /\ UNCHANGED <<tables, ghosts, proc, board, fixed, left>>

-----------------------------------------------------------------------------
Init ==
    /\ seen = [m \in Mails |-> Never]
    /\ deals = << >>
    /\ held = [m \in Mails |-> NoRow]
    /\ responses = {}
    /\ proc = [p \in Requests |-> Idle]
    /\ board = BoardIdle
    /\ fixed = FALSE
    /\ now = 1
    /\ landed = {} /\ excused = {} /\ torn = {}
    /\ answers = [s \in Messages |-> 0]
    /\ left = [mails |-> MaxMails, retries |-> MaxRetries, closed |-> MaxClosed,
               faults |-> MaxFaults]

Next ==
    \/ \E p \in Requests : RequestStep(p) \/ Fails(p)
    \/ \E p \in Requests, m \in Mails : Arrives(p, m) \/ Retries(p, m)
    \/ \E m \in Mails : Dismisses(m)
    \/ \E d \in DealIds : Closes(d)
    \/ BoardStep \/ BoardFails \/ Crash \/ Deploys \/ Tick

Spec == Init /\ [][Next]_vars

\* A request once begun goes on, and an open dashboard is loaded again.
Fairness == (\A p \in Requests : WF_vars(RequestStep(p))) /\ WF_vars(BoardStep)

FairSpec == Spec /\ Fairness

-----------------------------------------------------------------------------
(* Properties.                                                             *)

TypeOK ==
    /\ seen \in [Mails -> 0 .. MaxTime]
    /\ \A d \in DealIds : deals[d].item \in Mails /\ deals[d].replied \in 0 .. MaxTime
    /\ \A d, e \in DealIds : deals[d].item = deals[e].item => d = e
    /\ \A m \in Mails : held[m].status \in {"none", Open, Recovered, Dismissed}
    /\ responses \subseteq Mails
    /\ \A p \in Requests : proc[p].target \in DealIds \cup {NoDeal}

\* The reject queue never says `recovered` of a mail that is nowhere: unless
\* the process died in the retry, it has landed or is stored for the backfill.
RecoveredIsKept ==
    \A m \in Mails :
        /\ held[m].status = Recovered
        /\ m \notin torn
        /\ \A p \in Requests : ~ (HalfWay(p) /\ Mail(p) = m)
        => m.says \in landed \/ AlreadySeen(m)

\* However often it is delivered, replayed, forwarded and retried, a message
\* is drafted for once, outside the windows recover's comment accepts: two
\* requests at work on it at once, and a seen row that could not be written.
AnsweredOnce ==
    \A s \in Messages : answers[s] > 1 => s \in excused

\* _prune: a mail nobody could read is not shed before it was dismissed or put
\* where it belongs, save for one whose retry holds the row at that moment.
UnreadIsKept ==
    [][\A m \in Rows(held) \ Rows(held)' :
           \/ held[m].code # "unparsed"
           \/ held[m].status = Dismissed
           \/ m \in torn \/ \E p \in Requests : HalfWay(p) /\ Mail(p) = m
           \/ m.says \in landed \/ AlreadySeen(m)]_vars

\* A replay, a retry and a reopening leave a dismissed mail dismissed.
DismissedStays ==
    [][\A m \in Mails : held[m].status = Dismissed
           => held'[m].status \in {"none", Dismissed}]_vars

\* inbound_rejects.py:14 and :662: a row is claimed by one retry, which brings
\* the mail somewhere or gives it back; only a mail that was read, dismissed or
\* recovered leaves.
Tray      == [m \in Mails |-> held[m].status]
HalfWays  == {p \in Requests : HalfWay(p)}
AtWork    == {<<p, Mail(p)>> : p \in HalfWays}
Holding   == {<<p, Mail(p)>> : p \in {q \in HalfWays : RowIs(q)}}
Safe      == {m \in Mails : m.says \in landed \/ AlreadySeen(m)}

Life == INSTANCE RejectLife WITH
    Unread <- {m \in Mails : m.known},
    tray <- Tray, work <- AtWork, holds <- Holding, safe <- Safe, torn <- torn

RejectLifeSpec == Life!Spec

\* store keeps what the board refused, and backfill puts it there.
StoredReachesBoard ==
    \A m \in Mails : seen[m] # Never ~> m.says \in landed
=============================================================================
