----------------------------- MODULE Background -----------------------------
(***************************************************************************)
(* What runs without anybody asking.  Every host that can drive a browser  *)
(* has one runner slot, a drain thread behind the latch `_draining`, and a *)
(* loop that starts the scheduled checks and mails the daily digest: the   *)
(* scheduler thread of the dashboard, or the agent pass of worker.py, which*)
(* also delivers.  A scrape may queue a message and wake the drain thread  *)
(* of its host, so a worker may deliver by thread and by pass at once.     *)
(* The hosts share the settings (scheduler.py's stamps) and the outbox.    *)
(*                                                                         *)
(* A day has the business hours 0 .. LastHour, outside which no check is   *)
(* due; a stamp is <<day, hour>>.  What a send or a scrape does in the     *)
(* browser is Delivery's and Jobs' matter.                                 *)
(***************************************************************************)
EXTENDS Integers, FiniteSets, FiniteSetsExt

CONSTANTS
    Dashboards, WorkerHosts,  \* the two kinds of host
    Tenants,                  \* with browser ingestion, autopilot and digest on
    Messages, TenantOf,       \* whose each message is
    CheckTimes, DigestTime,   \* hours; parse_times has dropped unsociable ones
    LastHour, LastDay,        \* the model starts late on day 1, and ends early on LastDay
    IdleRounds,               \* automation._IDLE_ROUNDS
    MaxFaults,                \* crashes, and errors of the database or the mail server
    Observed                  \* the hosts whose checks and mails are counted

Hosts == Dashboards \cup WorkerHosts

ASSUME BackgroundAssumption ==
    /\ Dashboards \cap WorkerHosts = {}
    /\ CheckTimes \subseteq 0 .. LastHour /\ DigestTime \in 0 .. LastHour
    /\ TenantOf \in [Messages -> Tenants]
    /\ IdleRounds \in Nat \ {0} /\ MaxFaults \in Nat
    /\ Observed \subseteq Hosts
    /\ LastHour \in Nat /\ LastDay \in Nat \ {0, 1}

VARIABLES
    time,        \* <<day, hour>>
    checked,     \* settings.last_check_at of every tenant
    digested,    \* settings.last_digest_at
    outbox,      \* status of every message
    due,         \* the messages whose scheduled_at has passed
    slot,        \* of every host: what its browser is doing
    draining,    \* of every host: the latch
    loop,        \* of every host: the drain thread
    pass,        \* of every host: the scheduler thread or agent pass
    request,     \* of every dashboard: the route that queued a message
    starts,      \* how often an observed host has started the check of a slot
    mails,       \* how often an observed host has mailed the digest of a day
    faults

settings == <<checked, digested>>
counts   == <<starts, mails>>
vars == <<time, settings, outbox, due, slot, draining, loop, pass, request,
          counts, faults>>

Never == <<0, 0>>
Day   == time[1]
Hour  == time[2]
Free  == <<"free", "">>
Days  == 1 .. LastDay
Hours == 0 .. LastHour

-----------------------------------------------------------------------------
(* scheduler.py.                                                           *)

\* Slip: a stamp of the slot's own hour does not cover it.
Covers_Later(stamp, s) == stamp[1] = Day /\ stamp[2] > s
Covers(stamp, s)       == stamp[1] = Day /\ stamp[2] >= s

\* due_slot and digest_due.
Passed      == {s \in CheckTimes : s <= Hour}
CheckDue(t)  == Passed # {} /\ ~ Covers(checked[t], Max(Passed))
DigestDue(t) == DigestTime <= Hour /\ ~ Covers(digested[t], DigestTime)

-----------------------------------------------------------------------------
(* The drain thread.                                                       *)

Queued == {m \in Messages : outbox[m] = "queued"}

NoLoop == [at |-> "off", idle |-> 0]

\* start_drainer.
StartDrainer(h) ==
    IF draining[h] THEN UNCHANGED <<draining, loop>>
    ELSE /\ draining' = [draining EXCEPT ![h] = TRUE]
         /\ loop' = [loop EXCEPT ![h] = [at |-> "looking", idle |-> 0]]

\* An idle round; after IdleRounds of them the thread leaves the loop.
Idles(h) ==
    loop' = [loop EXCEPT ![h] = IF @.idle + 1 < IdleRounds
                                THEN [at |-> "looking", idle |-> @.idle + 1]
                                ELSE [at |-> "leaving", idle |-> 0]]

\* send_next: a queued message that is due takes the browser if it is free.
Sendable(h) == IF slot[h] = Free THEN Queued \cap due ELSE {}

\* Slip: the row is not claimed.
Dispatches_Unclaimed(h, m) ==
    /\ m \in Sendable(h)
    /\ slot' = [slot EXCEPT ![h] = <<"send", m>>]
    /\ UNCHANGED outbox

Dispatches(h, m) ==
    /\ m \in Sendable(h)
    /\ outbox' = [outbox EXCEPT ![m] = "sending"]
    /\ slot' = [slot EXCEPT ![h] = <<"send", m>>]

\* A round of the loop: queued_tenants, then send_next for each.  An empty
\* queue and a queue the browser is too busy for are both idle rounds.
LoopRound(h) ==
    /\ loop[h].at = "looking"
    /\ \/ /\ \E m \in Messages : Dispatches(h, m)
          /\ loop' = [loop EXCEPT ![h].at = "delivering"]
       \/ Sendable(h) = {} /\ Idles(h) /\ UNCHANGED <<outbox, slot>>
    /\ UNCHANGED <<time, settings, due, draining, pass, request, counts, faults>>

Settles(h) ==
    /\ slot[h][1] = "send"
    /\ outbox' = [outbox EXCEPT ![slot[h][2]] = "settled"]
    /\ slot' = [slot EXCEPT ![h] = Free]

\* A send that has ended is progress.
LoopSettles(h) ==
    /\ loop[h].at = "delivering"
    /\ Settles(h)
    /\ loop' = [loop EXCEPT ![h] = [at |-> "looking", idle |-> 0]]
    /\ UNCHANGED <<time, settings, due, draining, pass, request, counts, faults>>

LoopEnds(h) ==
    /\ loop[h].at = "leaving"
    /\ loop' = [loop EXCEPT ![h] = NoLoop]
    /\ draining' = [draining EXCEPT ![h] = FALSE]
    /\ UNCHANGED <<time, settings, outbox, due, slot, pass, request, counts, faults>>

\* Slip: an error leaves the latch set.
LoopRaises_Latched(h) ==
    /\ loop[h].at = "looking" /\ faults > 0
    /\ faults' = faults - 1
    /\ loop' = [loop EXCEPT ![h] = NoLoop]
    /\ UNCHANGED <<time, settings, outbox, due, slot, draining, pass, request, counts>>

\* queued_tenants raises; the `finally` runs.
LoopRaises(h) ==
    /\ loop[h].at = "looking" /\ faults > 0
    /\ faults' = faults - 1
    /\ loop' = [loop EXCEPT ![h] = [at |-> "leaving", idle |-> 0]]
    /\ UNCHANGED <<time, settings, outbox, due, slot, draining, pass, request, counts>>

LoopStep(h) == LoopRound(h) \/ LoopSettles(h) \/ LoopEnds(h)

-----------------------------------------------------------------------------
(* Whoever queues a message wakes the drain thread of its host: a route of *)
(* the dashboard, the thread of a scrape (autopilot's answer, armed by the *)
(* tenant), and the job that a worker's main thread drives.                *)

Enqueues(m) ==
    /\ outbox[m] = "none"
    /\ outbox' = [outbox EXCEPT ![m] = "queued"]
    /\ due' \in {due, due \cup {m}}

Queues(h, m) ==
    /\ request[h] = "rest"
    /\ Enqueues(m)
    /\ request' = [request EXCEPT ![h] = "waking"]
    /\ UNCHANGED <<time, settings, slot, draining, loop, pass, counts, faults>>

Wakes(h) ==
    /\ request[h] = "waking"
    /\ StartDrainer(h)
    /\ request' = [request EXCEPT ![h] = "rest"]
    /\ UNCHANGED <<time, settings, outbox, due, slot, pass, counts, faults>>

\* _draft_new_items, in the thread that holds the browser.
ScrapeQueues(h, m) ==
    /\ slot[h] = <<"scrape", TenantOf[m]>>
    /\ Enqueues(m)
    /\ slot' = [slot EXCEPT ![h] = <<"drafted", TenantOf[m]>>]
    /\ UNCHANGED <<time, settings, draining, loop, pass, request, counts, faults>>

ScrapeWakes(h) ==
    /\ slot[h][1] = "drafted"
    /\ StartDrainer(h)
    /\ slot' = [slot EXCEPT ![h] = <<"scrape", slot[h][2]>>]
    /\ UNCHANGED <<time, settings, outbox, due, pass, request, counts, faults>>

\* Every load and poll of the board.
BoardPolls(h) ==
    /\ Queued # {}
    /\ StartDrainer(h)
    /\ UNCHANGED <<time, settings, outbox, due, slot, pass, request, counts, faults>>

-----------------------------------------------------------------------------
(* The pass: scheduled checks, digests and, in worker.py, deliveries.      *)

\* `for` is the slot, or the day, that `todo` is owed.
NoPass == [at |-> "rest", todo |-> {}, for |-> <<0, 0>>, any |-> FALSE]

AtPass(h, place) == pass[h].at = place

\* worker.py's `process`, between two passes: the scrape of a job, which takes
\* no runner slot.
JobQueues(h, m) ==
    /\ AtPass(h, "rest")
    /\ Enqueues(m)
    /\ pass' = [pass EXCEPT ![h].at = "job"]
    /\ UNCHANGED <<time, settings, slot, draining, loop, request, counts, faults>>

JobWakes(h) ==
    /\ AtPass(h, "job")
    /\ StartDrainer(h)
    /\ pass' = [pass EXCEPT ![h] = NoPass]
    /\ UNCHANGED <<time, settings, outbox, due, slot, request, counts, faults>>

\* run_scheduled_checks lists who is due, and then goes down the list.  A pass
\* that finds nothing to do is a stutter and left out.
PassBegins(h) ==
    /\ AtPass(h, "rest")
    /\ \/ \E t \in Tenants : CheckDue(t) \/ DigestDue(t)
       \/ h \in WorkerHosts /\ Queued # {}
    /\ pass' = [pass EXCEPT ![h] = [NoPass EXCEPT !.at = "checks",
                                       !.for = <<Day, Max(Passed \cup {0})>>,
                                       !.todo = {t \in Tenants : CheckDue(t)}]]
    /\ UNCHANGED <<time, settings, outbox, due, slot, draining, loop, request, counts, faults>>

\* start_scrape calls itself busy only when another tenant holds the browser.
Holder(h) == IF slot[h][1] = "send" THEN TenantOf[slot[h][2]] ELSE slot[h][2]

Counts(count, h, t, s) ==
    IF h \in Observed THEN [count EXCEPT ![h][t][s] = @ + 1] ELSE count

StartsScrape(h, t) ==
    IF slot[h] = Free
    THEN /\ slot' = [slot EXCEPT ![h] = <<"scrape", t>>]
         /\ starts' = Counts(starts, h, t, pass[h].for)
    ELSE UNCHANGED <<slot, starts>>

\* mark_checked, then start_scrape: a slot is covered before its check is
\* started, so a busy browser, an error or a crash in between costs the slot
\* its check.  An error before the mark leaves it owed.
Checks(h, t) ==
    /\ AtPass(h, "checks") /\ t \in pass[h].todo
    /\ \/ /\ checked' = [checked EXCEPT ![t] = time]
          /\ StartsScrape(h, t)
          /\ pass' = [pass EXCEPT ![h].todo = @ \ {t},
                                  ![h].any = @ \/ slot[h] = Free \/ Holder(h) = t]
          /\ UNCHANGED faults
       \/ /\ faults > 0 /\ faults' = faults - 1
          /\ checked' \in {checked, [checked EXCEPT ![t] = time]}
          /\ pass' = [pass EXCEPT ![h].todo = @ \ {t}]
          /\ UNCHANGED <<slot, starts>>
    /\ UNCHANGED <<time, digested, outbox, due, draining, loop, request, mails>>

\* _scheduler_loop wakes the drain thread if a check was started, the pass of
\* worker.py leaves that to the scrape; both go on to digest.run_due.
ChecksEnd(h) ==
    /\ AtPass(h, "checks") /\ pass[h].todo = {}
    /\ IF h \in Dashboards /\ pass[h].any THEN StartDrainer(h)
       ELSE UNCHANGED <<draining, loop>>
    /\ pass' = [pass EXCEPT ![h] = [NoPass EXCEPT !.at = "digests", !.for = <<Day, DigestTime>>,
                                       !.todo = {t \in Tenants : DigestDue(t)}]]
    /\ UNCHANGED <<time, settings, outbox, due, slot, request, counts, faults>>

\* Slip: an error of the mail server ends the thread.
Digests_Uncaught(h, t) ==
    /\ AtPass(h, "digests") /\ t \in pass[h].todo
    /\ digested' = [digested EXCEPT ![t] = time]
    /\ \/ /\ mails' = Counts(mails, h, t, pass[h].for[1])
          /\ pass' = [pass EXCEPT ![h].todo = @ \ {t}]
          /\ UNCHANGED faults
       \/ /\ faults > 0 /\ faults' = faults - 1
          /\ pass' = [pass EXCEPT ![h].at = "dead"]
          /\ UNCHANGED mails
    /\ UNCHANGED <<time, checked, outbox, due, slot, draining, loop, request, starts>>

\* digest.run_due marks first: an error of the mail server is not retried.
Digests(h, t) ==
    /\ AtPass(h, "digests") /\ t \in pass[h].todo
    /\ digested' = [digested EXCEPT ![t] = time]
    /\ \/ /\ mails' = Counts(mails, h, t, pass[h].for[1])
          /\ UNCHANGED faults
       \/ /\ faults > 0 /\ faults' = faults - 1
          /\ UNCHANGED mails
    /\ pass' = [pass EXCEPT ![h].todo = @ \ {t}]
    /\ UNCHANGED <<time, checked, outbox, due, slot, draining, loop, request, starts>>

\* What is left of the pass when `tenants` have messages to deliver.
Delivering(tenants) ==
    IF tenants = {} THEN NoPass ELSE [NoPass EXCEPT !.at = "delivering", !.todo = tenants]

DigestsEnd(h) ==
    /\ AtPass(h, "digests") /\ pass[h].todo = {}
    /\ pass' = [pass EXCEPT ![h] = IF h \in Dashboards THEN NoPass
                                   ELSE Delivering({TenantOf[m] : m \in Queued})]
    /\ UNCHANGED <<time, settings, outbox, due, slot, draining, loop, request, counts, faults>>

\* run_agent_pass: send_next for a tenant until it has nothing left to do, or
\* finds the browser busy: with a scrape, or with a send of the drain thread.
PassSends(h, t) ==
    /\ AtPass(h, "delivering") /\ t \in pass[h].todo
    /\ \/ /\ \E m \in Messages : TenantOf[m] = t /\ Dispatches(h, m)
          /\ pass' = [pass EXCEPT ![h].at = "sending"]
       \/ /\ \A m \in Sendable(h) : TenantOf[m] # t
          /\ pass' = [pass EXCEPT ![h] = Delivering(pass[h].todo \ {t})]
          /\ UNCHANGED <<outbox, slot>>
    /\ UNCHANGED <<time, settings, due, draining, loop, request, counts, faults>>

\* Slip: the pass takes the end of whatever send its host runs for its own.
PassSettles_AnySend(h) ==
    /\ pass[h].at \in {"delivering", "sending"}
    /\ Settles(h)
    /\ pass' = [pass EXCEPT ![h].at = "delivering"]
    /\ UNCHANGED <<time, settings, due, draining, loop, request, counts, faults>>

\* send_next waits for its own run.
PassSettles(h) ==
    /\ AtPass(h, "sending")
    /\ Settles(h)
    /\ pass' = [pass EXCEPT ![h].at = "delivering"]
    /\ UNCHANGED <<time, settings, due, draining, loop, request, counts, faults>>

PassStep(h) ==
    \/ PassBegins(h) \/ ChecksEnd(h) \/ DigestsEnd(h)
    \/ PassSettles(h)
    \/ \E t \in Tenants : Checks(h, t) \/ Digests(h, t) \/ PassSends(h, t)

-----------------------------------------------------------------------------
(* The browser, the clock and crashes.                                     *)

ScrapeEnds(h) ==
    /\ slot[h][1] = "scrape"
    /\ slot' = [slot EXCEPT ![h] = Free]
    /\ UNCHANGED <<time, settings, outbox, due, draining, loop, pass, request, counts, faults>>

ComesDue(m) ==
    /\ outbox[m] = "queued" /\ m \notin due
    /\ due' = due \cup {m}
    /\ UNCHANGED <<time, settings, outbox, slot, draining, loop, pass, request, counts, faults>>

Tick ==
    /\ time # <<LastDay, 0>>
    /\ time' = IF Hour < LastHour THEN <<Day, Hour + 1>> ELSE <<Day + 1, 0>>
    /\ UNCHANGED <<settings, outbox, due, slot, draining, loop, pass, request, counts, faults>>

\* A message the host was sending is put back by a later reclaim pass, which
\* Delivery describes.
Crash(h) ==
    /\ faults > 0 /\ faults' = faults - 1
    /\ outbox' = [m \in Messages |-> IF slot[h] = <<"send", m>> THEN "queued" ELSE outbox[m]]
    /\ slot' = [slot EXCEPT ![h] = Free]
    /\ draining' = [draining EXCEPT ![h] = FALSE]
    /\ loop' = [loop EXCEPT ![h] = NoLoop]
    /\ pass' = [pass EXCEPT ![h] = NoPass]
    /\ request' = [request EXCEPT ![h] = "rest"]
    /\ UNCHANGED <<time, settings, due, counts>>

-----------------------------------------------------------------------------
Init ==
    /\ time = <<1, LastHour>>
    /\ checked = [t \in Tenants |-> Never]
    /\ digested = [t \in Tenants |-> Never]
    /\ outbox = [m \in Messages |-> "none"]
    /\ due = {}
    /\ slot = [h \in Hosts |-> Free]
    /\ draining = [h \in Hosts |-> FALSE]
    /\ loop = [h \in Hosts |-> NoLoop]
    /\ pass = [h \in Hosts |-> NoPass]
    /\ request = [h \in Hosts |-> "rest"]
    /\ starts = [h \in Observed |-> [t \in Tenants |-> [s \in Days \X Hours |-> 0]]]
    /\ mails = [h \in Observed |-> [t \in Tenants |-> [d \in Days |-> 0]]]
    /\ faults = MaxFaults

Next ==
    \/ \E h \in Hosts : \/ LoopStep(h) \/ LoopRaises(h) \/ PassStep(h) \/ Crash(h)
                        \/ ScrapeWakes(h) \/ ScrapeEnds(h)
                        \/ \E m \in Messages : ScrapeQueues(h, m)
    \/ \E h \in Dashboards : Wakes(h) \/ BoardPolls(h) \/ \E m \in Messages : Queues(h, m)
    \/ \E h \in WorkerHosts : JobWakes(h) \/ \E m \in Messages : JobQueues(h, m)
    \/ \E m \in Messages : ComesDue(m)
    \/ Tick

Spec == Init /\ [][Next]_vars

\* The browser of a host is with one of these at a time.
BrowserReturns(h) ==
    LoopSettles(h) \/ PassSettles(h) \/ ScrapeWakes(h) \/ ScrapeEnds(h)

\* The dashboard's threads run, browsers return, and an open board polls.
\* Nothing says that a worker is running, nor that a slot's day ever ends.
Fairness ==
    /\ \A h \in Hosts : WF_vars(BrowserReturns(h))
    /\ \A h \in Dashboards : /\ WF_vars(LoopStep(h)) /\ WF_vars(PassStep(h))
                            /\ WF_vars(BoardPolls(h))
    /\ \A m \in Messages : WF_vars(ComesDue(m))

FairSpec == Spec /\ Fairness

-----------------------------------------------------------------------------
(* Properties.                                                             *)

TypeOK ==
    /\ time \in Days \X Hours
    /\ due \subseteq Messages
    /\ \A h \in Hosts :
           /\ loop[h].at # "off" => draining[h]
           /\ slot[h][1] = "send" => outbox[slot[h][2]] = "sending"

\* start_drainer and send_next: nothing waits for a thread that is not there,
\* however threads end, raise or die.  A latch that is set has its thread (or
\* no other would ever start); where drain thread and pass deliver side by
\* side, a host's send has one of them waiting for it, and not both, and
\* whoever waits has the browser; a message that is `sending` is in one browser.
NothingIsStranded ==
    /\ \A h \in Hosts :
           /\ draining[h] => loop[h].at # "off"
           /\ slot[h][1] = "send" <=> (loop[h].at = "delivering") # AtPass(h, "sending")
           /\ ~ (loop[h].at = "delivering" /\ AtPass(h, "sending"))
    /\ \A m \in Messages : outbox[m] = "sending" =>
           \E h \in Hosts : {g \in Hosts : slot[g] = <<"send", m>>} = {h}

\* due_slot and digest_due (scheduler.py): restarts included, a host does not
\* check a tenant twice for one slot, nor mail two digests of one day.
OncePerSlot ==
    \A h \in Observed, t \in Tenants :
        /\ \A s \in Days \X Hours : starts[h][t][s] <= 1
        /\ \A d \in Days : mails[h][t][d] <= 1

\* start_drainer, _drain_loop and the board's poll: a message that is queued
\* is delivered, though its drain thread was parking when it was woken, gave up
\* on a busy browser, raised, or died with its host.
QueuedIsSent == \A m \in Messages : outbox[m] = "queued" ~> outbox[m] = "settled"

\* run_scheduled_checks: nobody is owed a check for ever.
SlotIsCovered == \A t \in Tenants : CheckDue(t) ~> ~ CheckDue(t)
=============================================================================
