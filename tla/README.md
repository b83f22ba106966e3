# Formal model of shorterm_agent

shorterm_agent answers the inquiries a landlord receives on FurnishedFinder,
follows them up, and sees a booked guest through to check-out. Python processes
(a dashboard with background threads, a worker, a browser server) share one SQL
database and drive real browsers. This directory holds TLA+ modules translated
from its source, TLC runs over small instances, and TLAPS proofs.

    tlc -config MCDelivery_two_hosts.cfg MCDelivery    one run
    tlapm Delivery_proofs.tla                          a component's theorems

`PROJECT.json` lists the runs, which source lines each definition stands for,
the hazards and the findings.

## 1. The system

| Part | State it keeps | Operations | Talks to |
|---|---|---|---|
| Outbox (`outbox.py`) | table `outbox`: one row per message, status pending_approval, queued, sending, sent, failed, canceled | add, release_to_send, set_status, release_unattempted, cancel, reclaim_stuck_sending, next_queued | every process |
| Drainers (`automation.py`, `worker.py`) | `_draining` latch; locals of `send_next` | start_drainer, _drain_loop, send_next | outbox, runner |
| Runner (`runner.py`) | per process: `_state` (the one run slot), `_outcomes` (ends of sends by token), OTP waiters | start_scrape, send_reply, _send_worker, submit_otp, take_send_outcome | browser, storage, automation.after_contact |
| Cadence (`automation.py`, `sequences.py`, `pipeline.py`) | table `deals`: stage, sequence, step_index, next_action | run_due, after_contact, reschedule, record_guest_reply, mark_booked, mark_lost, advance_lifecycle | outbox, the model |
| Jobs and worker (`jobs.py`, `worker.py`) | tables `ff_jobs` (one-time codes included) and `ff_worker` (heartbeat) | enqueue, claim_next, set_status, reap_stale, submit_otp, consume_otp, cancel_active, heartbeat | browser, FF account |
| FF account (`ff_account.py`) | table `ff_accounts`: connection state | mark_state, connect, disconnect | jobs |
| Schedule and digest (`scheduler.py`, `digest.py`) | last check and last digest per tenant | due_slot, mark_checked, digest_due, run_due | runner, mail |
| Inbound mail (`inbound.py`, `inbound_rejects.py`, `storage.py`) | tables `seen`, `responses`, `inbound_rejects` | accept, store, open_deal, recover, record, mark_recovered, reopen, dismiss, _prune | deals, the model |
| Views (`pipeline.py`, `outbox.py`, `dashboard.py`) | none of their own | lead_state, _state_sql, needs_action, reviewable, send_state, _sent_state, _send_refusal, blocking_sends | outbox, deals, responses |
| Billing (`billing.py`) | table `subscriptions` | checkout, success, webhook, set_subscription | Stripe |
| Accounts (`models.py`, `sig_auth.py`, `crypto.py`) | users, failed log-ins | log-in, throttle, signatures | dashboard |

What makes it hard: two processes and several threads write the same rows, most
writes are preceded by a read in another statement, one browser per process is
shared by scrapes and sends, a process may die between any two statements, a
send has a deadline and may still end after it, providers deliver twice and late,
and a language model call of many seconds sits between a check and the insert it
justifies.

What makes it correct, per part:

- **Outbox and delivery.** A message is given to one browser at a time; what is
  recorded about it is how its own send ended; what is final stays final; a
  guest does not get two messages at once or the same words twice; a message
  whose send keeps dying is given up.
- **Cadence.** A deal is always on a step of its playbook; a step is drafted
  once; nobody is chased before first contact, or after having answered; a deal
  or stay that is over is closed.
- **Jobs.** A job is driven by one live run; what is called off in time is never
  driven; a code is used once; neither a job nor an account is left hanging by a
  dead worker.
- **Schedule, digest, drain thread.** A slot is checked once per host and owed to
  nobody for ever; a queued message is sent whatever became of its thread.
- **Inbound.** A mail is answered once, whichever of delivery, replay, retry and
  backfill gets it; one that nobody could read is not lost.
- **Views.** The rule written twice gives one answer; what a page offers, the
  guard of the write accepts.
- **Billing.** The stored subscription is the one Stripe last spoke of.

## 2. Modules

| Module | Models | State | Actions |
|---|---|---|---|
| `Outbox` | the table of `outbox.py` and each of its writes | `outbox`, `now` | operators used by Delivery and Board |
| `Lifecycle` | what a message's status promises (abstract) | `phase`, `handed`, `written` | Draft, Approve, CallOff, Claim, Requeue, Fail, Succeed, HandOver, Reach |
| `Delivery` | `send_next`, the runner, operator routes, reclaim, crashes | `drainer`, `slot`, `outcomes`, `runs`, `reclaim`, `retries` | one per statement or critical section |
| `Background` | drain thread and latch, scheduler thread, worker's pass, digest | `loop`, `draining`, `pass`, `slot`, `checked`, `digested`, `outbox` | one per step of each loop |
| `Cadence` | one deal under the agent, deliveries, guest, landlord and calendar | `deal`, `messages`, `actor`, `left` | one per statement |
| `Jobs` | job queue, worker, code rendezvous, reap, account state | `jobs`, `fresh`, `account`, `proc`, `reap` | one per statement |
| `JobLife` | what the job queue promises about a job (abstract) | `phase`, `drives` | Ask, CallOff, Take, Tell, LetGo |
| `Inbound` | webhook, reject queue, retry, drafting, backfill | `seen`, `deals`, `held`, `responses`, `proc`, `board` | one per statement |
| `RejectLife` | what the reject queue promises about the mails it holds (abstract) | `tray`, `work`, `holds`, `safe`, `torn` | Hold, Claim, HandBack, Dismiss, Bring, Tear |
| `Board` | what the operator is shown and offered, beside `Outbox` | that of `Outbox` | the outbox's operations in any order |
| `Billing` | the subscription row, Stripe's sessions and events | `row`, `stripe`, `events`, `request` | reads, merges and writes |
| `MC...` | instances for TLC | | |
| `Delivery_proofs`, `Delivery_refinement` | theorems about Delivery; Delivery implements Lifecycle | | |
| `Jobs_proofs`, `Cadence_proofs`, `Inbound_proofs`, `Background_proofs`, `Board_proofs` | theorems about one component each | | |
| `Greatest` | lemmas about least and greatest numbers, for the last three | | |

**Outbox and Delivery.** A row is a record, the table a sequence whose index is
the AUTOINCREMENT id. One action is one SQL statement, one critical section of
`runner._lock`, or one effect of the browser on the guest's thread. `send_next`
is six places: `idle`, `picked` (row and text read), `claimed` (its
compare-and-set won), `refused` (slot busy, the claim still to be given back),
`waiting` (polling for its run), `settling` (the outcome known, not yet stored).
`runs` is the list of `_send_worker` threads, indexed by run token; a run is
`browsing`, `replied`, `recorded` (outcome stored, slot still held), `ended` or
`killed`. `_publish_terminal` is two actions, Record and Publish, because it is
two critical sections. A reclaim pass is a read (`reclaim[p]` holds what it will
write) and one guarded write per row. On SQLite those writes share a
transaction; on Postgres under READ COMMITTED each sees the newest row, which
is what separate actions describe. Hosts have a slot and an outcome record of
their own, and lose both in Crash.

**Lifecycle** has no drainers, clocks or tables. Delivery implements it under
the mapping of `Delivery!Promise` (property `LifecycleSpec`).

**Background** is what runs without a click. A host has a browser slot, a drain
thread (`loop`: looking, delivering, leaving, off) with the latch `draining` it
clears last, and a `pass`: the dashboard's scheduler thread or the agent pass of
`worker.py`, which goes on to deliver. `mark_checked` comes before
`start_scrape`, as in the code, so `Checks` can mark a slot whose check never
starts. A send is a slot taken and given back; what may go wrong in between is
Delivery's matter, and here a crash puts the message back at once, where the
program waits for a reclaim pass.

**Cadence** keeps one row of `deals`. Every function that reads the row and
writes it later is a process in `actor`: its place, and the columns it has read
(`seen`). `pipeline.update` writes only the columns it is given, so a stale
read costs exactly those columns, and the model keeps that. `reschedule` is two
actions shared by its four callers. Dates are relative to today
(`far`, `near`, `past`), "every stamp is 21 days old" is the flag `quiet`, and a
scheduled step may come due at any time, which is more than the offsets of
`sequences.py` allow. Of the outbox Cadence keeps which step a message is for,
its author, and whether it waits, is queued (which includes sending), was sent
or called off. Bodies, failed sends and their retries are Delivery's. The click
that queues a manual reply reads the label of its step and inserts in one
action: the label is only a name.

**Jobs.** A request is a reap pass followed by its own statements; so is the
start of a worker. Hence every process has two program counters, `proc` and
`reap`, and the second goes first. `enqueue` is three actions (look, throttle,
insert), `submit_otp`, `claim_next` and `consume_otp` are a read and a write
each, `_fail_stale_job` a write to the job and one to the account. `set_status`
(`Put`) writes whatever the job's state is, as the code does. Ages are flags the
environment sets: `old` (MAX_ACTIVE_JOB_SECONDS), `cooling` (_cooldown_remaining),
`fresh` (WORKER_TTL_SECONDS). A worker that starts may get the id of one that
died, because the id is host and pid. Crash is not announced to anybody.

**JobLife** has no requests, heartbeats, codes or clocks: a job is queued, going
or over, and some worker's browser may be at work on it. Jobs implements it under
`Phases` and `Drives` (property `JobLifeSpec`).

**Inbound.** A mail carries both keys of `storage.py` and what it `says`, so
that a forwarded copy is another mail with the same message. A request thread
walks through claim, thread lookup, board write, drafting; a retry enters the
same path behind its compare-and-set on the reject row. Every statement may
raise (`Fails`): the code swallows some errors and hands the row back after
others, which `AfterFailure` tells. The dashboard's backfill is a process of its
own (`board`) over the list it read. What the parser makes of a mail is a field;
`Deploys` is the release that lets it read more.

**RejectLife** has no parser, clock, keys or row ids: a mail's row is open,
recovered, dismissed or gone, and a retry at work ends by bringing the mail to
safety or by handing the row back, or dies. Inbound implements it (property
`RejectLifeSpec`).

**Board** has no program counter: views are functions of the rows, so the runs
only have to reach every table the outbox's writes can produce, and properties
quantify over deals and responses. SQL's three truth values are written out,
since `_state_sql` compares columns that may be NULL.

**Billing.** `set_subscription` reads a row, merges, and writes it whole: the
three callers (form, success page, webhook) are a read and a write each. Stripe
is external.

## 3. Runs

| Run | Module | Question |
|---|---|---|
| `two_hosts` | Delivery | Dashboard and worker, a slot each, unattended messages armed, retries, timeouts, crashes, one reclaim pass, and a cap of one attempt: is a message ever claimed twice, told somebody else's outcome, or resent past its cap; does Delivery implement Lifecycle? |
| `attended` | Delivery | Nothing armed, two messages and two texts for one guest: one on its way at a time, no text twice. |
| `two_reclaimers` | Delivery | finding |
| `playbook` | Cadence | The agent's pass, killed or failing anywhere and run again, against deliveries, approvals and stages set by hand: no step drafted twice. |
| `ends` | Cadence | Bookings, closings, replies, a stay: no follow-up before contact, a stay on the playbook of its booking; and, under fairness, an untouched open deal and a stay past its check-out are closed. |
| `skipped` | Cadence | finding |
| `queue` | Jobs | Two request threads and a worker, every statement interleaved, jobs growing old under way: no more active jobs than threads, and a code used once. |
| `stranded` | Jobs | Two workers race, crash and restart while the dashboard polls and disconnects: no job driven twice, what is called off in time not driven, Jobs implements JobLife, an account that says `verifying` has somebody to answer it; under fairness no job stays in a browser state and no account in `verifying`. |
| `mail` | Inbound | An inquiry, a reply, and a forwarded copy of the reply, delivered, held, retried, dismissed and backfilled by two request threads, with one database error or crash: what is answered, kept, recovered; and Inbound implements RejectLife. |
| `days` | Background | A dashboard and a worker over two midnights, one fault: one check and one digest per slot and host, no message waits for a thread that is gone; under fairness every queued message is sent and no slot stays owed. |
| `views` | Board | Every table of three rows and two texts of one guest against every deal and response. |
| `source_of_truth` | Billing | finding |

All runs say CHECK_DEADLOCK FALSE: when the bounds are used up the model stops,
and so may the program.

### Bounds

Delivery: MaxRows, MaxRuns, MaxRetries, MaxTime bound rows, dispatches, human
releases from `failed`, and the clock. One item is enough because every guard
between rows is about the same item; two rows and two texts are what those
guards distinguish. Two dispatches let a second send meet the leftovers of the
first: its row, slot and record. OutcomesMax = 1 makes evictions happen (64 in
the code). MaxSendAttempts is 1 in `two_hosts`, so that the cap is reached and
passed. SendTimeout and ReclaimAge are one tick; only their order (300 s before
900 s) matters. There is no run with two drainers in one process: behind the
latch a process has one drain thread.

Cadence: MaxMessages rows, Clicks, StageClicks, Replies and Failures bound the
environment; what one stale write can reach takes one of each. `ShortPlaybook`
has one step of each kind (first, middle, last); `skipped` uses the real one.
When no row is left the agent's model declines instead, so a pass never hangs on
a bound, and a bound never hides a step. In `ends` only the end of the stay is
known (`EndKnown`), the case in which the calendar has least to go by.

Jobs: `queue` has two threads and three checks, so that a third active job could
appear beside those of two threads; it leaves out disconnects and crashes, which
add no job, and `stranded` has them. There two workers race for one job, as a
second could only keep one of them busy, and one crash and one disconnect are
what everything else follows.

Inbound: the three mails are the ones that share keys (strict and loose), a
guest and a conversation. MaxRows = MaxUnreviewed = 1 makes the table full at
its first row, two threads and one retry make every pair of routes meet, time 2
tells an old reply from a new one.

Background: a check hour, a digest hour, and the midnights around them; IdleRounds
= 1 (6 in the code) makes the drain thread give up at once.

Board: two rows can be in flight and one settled, two texts are equal or not,
the clock tells due from deferred. Billing: two sessions are an old and a new
subscription; events come in order and once, which makes its finding stronger.

### Timing and fairness

Delivery assumes of time only this (action Tick): a live process acts within a
tick. A claim is dispatched or given back, and a verdict stored, in the tick it
was made, and a drainer waiting for its run wakes at its deadline. A drainer
between reading a row and claiming it may take as long as it likes. So a claim
is held for at most SendTimeout, and reclaimed only after ReclaimAge. Passing
runs have one reclaim pass at a time; what two overlapping passes do is the run
`two_reclaimers`. Delivery states safety only and assumes no fairness.

Every fairness condition is weak fairness of a thread the code keeps running:

- Cadence: the agent's pass (`worker.py` loops for ever), a started delivery
  hook, reply, landlord's request and calendar pass (a thread once started runs
  to its end), and the days going by. Clicks, approvals, sends and replies are
  not fair. Failures are finite: a model that never answers keeps its deal open.
- Jobs: a request and a live worker go on, an open dashboard polls /api/status,
  jobs age, and the beacon of dead workers fades. Nothing says that a dead
  worker is started again.
- Inbound: a request once begun goes on, and an open dashboard is loaded again.
- Background: the dashboard's drain thread and scheduler, the return of a
  browser, the board's poll, due times and the clock. Nothing says that a worker
  is running: QueuedIsSent holds without one.

## 4. Mutants

Definitions marked "Slip" stand next to the one they would replace: a dropped
guard, a wrong stamp, a missing case. They belong to no specification. Every
property of a passing run is violated when its slip takes the definition's
place, which shows that it depends on that code.

## 5. Proofs

Every safety property that a passing run checks is also a theorem: TLC shows it
on the instance, the proof for every value of the constants that satisfies the
module's assumption (`DeliveryAssumption`, `JobsAssumption` and so on). A theorem
that needs more says so as a premise, and the premise is named below.

| Theorem | Property | Premise |
|---|---|---|
| `Delivery_proofs!TypeCorrect` | TypeOK | |
| `Delivery_proofs!ClaimExclusive` | ClaimIsExclusive | SoleReclaimer |
| `Delivery_proofs!OneInFlight` | OneInFlightPerGuest | |
| `Delivery_proofs!SentWordsAreDistinct` | SentWordsDistinct | SoleReclaimer |
| `Delivery_refinement!VerdictsAreOwn` | VerdictIsOwn | |
| `Delivery_refinement!ClaimInvariantHolds` | ClaimInvariant | SoleReclaimer |
| `Delivery_refinement!ResendsAreBounded` | ResendsBounded | SoleReclaimer, room for a row |
| `Delivery_refinement!ImplementsLifecycle` | LifecycleSpec | SoleReclaimer, PlatformOn |
| `Jobs_proofs!TypeCorrect`, `RunsExclusive`, `CalledOff`, `CodesOnce` | TypeOK, RunsAreExclusive, CalledOffInTime, CodesAreUsedOnce | |
| `Jobs_proofs!ActiveBounded` | ActiveAreBounded | |
| `Jobs_proofs!OneActive` | one ongoing job per tenant | one request thread |
| `Jobs_proofs!VerifyingAnswered` | VerifyingIsAnswered | ConnectsAfterDisconnect |
| `Jobs_proofs!VerifyingAnsweredAlone` | VerifyingIsAnswered | one request thread |
| `Jobs_proofs!ImplementsJobLife` | JobLifeSpec | |
| `Jobs_proofs!PromiseIsExclusive` | RunsAreExclusive | JobLifeSpec instead of Spec |
| `Cadence_proofs!TypeCorrect` | TypeOK | LaterBookIsLonger |
| `Cadence_proofs!FollowupsAfterContact` | FollowupsNeedContact | LaterBookIsLonger, StageClicks = 0 |
| `Cadence_proofs!StaysHaveTheirPlaybook` | StayHasItsPlaybook | LaterBookIsLonger, StageClicks = 0 |
| `Cadence_proofs!DraftsAreWrittenOnce` | AgentDraftsOnce | LaterBookIsLonger, SoleAgent |
| `Inbound_proofs!TypeCorrect`, `RecoveredMailIsKept`, `DismissalsStay`, `UnreadMailIsKept` | TypeOK, RecoveredIsKept, DismissedStays (checked as part of RejectLifeSpec), UnreadIsKept | |
| `Inbound_proofs!MessagesAnsweredOnce` | AnsweredOnce | CopiesAreAlike |
| `Inbound_proofs!ImplementsRejectLife` | RejectLifeSpec | |
| `Inbound_proofs!PromiseKeepsDismissals` | DismissedStays | RejectLifeSpec instead of Spec |
| `Background_proofs!TypeCorrect`, `SlotsAreOnce`, `NothingStranded` | TypeOK, OncePerSlot, NothingIsStranded | |
| `Board_proofs` (six) | InboxAgrees, ListsAgree, CaptionIsHonest, OfferIsAccepted, RefusalIsExplained, CardNamesNext | |

**Exclusive claims** (`Delivery_proofs`). `ClaimIsExclusive` is not inductive:
nothing in it says why a reclaim pass leaves a held row alone. The strengthening
`ClaimInvariant` does: a held row carries the stamp of its claim, the drainer
gives up before the stamp is ReclaimAge old (`HeldIsFresh`), and what a pass has
read is still old when the pass writes (`SnapshotIsStuck`). The run `two_hosts`
checks it first. `SafeInv` conjoins it with TypeOK and ClaimIsExclusive.
`SentWordsAreDistinct` needs that the text of a row about to be sent has not been
sent already (`WordsAreFresh`), which in turn needs exclusive claims: a row may
become `sent` only while its holder still holds it. Steps are sorted once, by
`StepsOfTheTable`, into the few ways a row can change; the invariants about rows
are proved over those ways instead of over every action. SoleReclaimer is
necessary: the run `two_reclaimers` is what happens without it.

**Verdicts, resends, refinement** (`Delivery_refinement`). A verdict is a
drainer's own because from dispatch on its run is (`RunIsOwn`), and because both
places it may learn an end from are truthful: the record under its token
(`RecordsTell`) and the slot for as long as it shows that token (`SlotTells`). A
crash or an eviction only removes such places. `ResendsBounded` counts runs, the
table counts attempts: `ChargeInv` says that the attempts of a row cover its
runs, with one to spare while somebody holds the claim and has not dispatched
yet, and that a pass requeues only what is below the cap. The refinement maps a
message's phase to its row's status, `handed` to the messages of all runs, and
`written` to those whose run reached the guest; each step of Delivery is one
action of Lifecycle or none. The step that needs an invariant is Succeed, which
asks that the guest has the message: with the platform channel on, a run that is
done has landed (`DoneHasLanded`).

**Jobs.** The types, exclusive runs and called-off jobs follow from one fact
about the table (`TableStep`): no statement removes a job, makes one `queued` that
was not, or changes the worker of one that is not queued. It holds because only
the claim writes `worker`, and only under its compare-and-set. RunsAreExclusive
becomes inductive with `DrivenIsClaimed` (a job somebody drives is not queued, so
nobody else can claim it) and `Refs` (whoever works on a job works on a row that
is there); the reap pass fails jobs and never queues one. Two workers may even
carry one id: the proof does not use ids. A code is used once because it is in
one hand at a time (a row's, or that of the worker driving the row), apart from
the worker between the two statements of consume_otp, and since only the driver
reads the row nobody sees both.

For the bound on active jobs call a job *live* until it has been final once. Live
rows only fade, whatever set_status revives, and a request inserts only where it
has seen none. So the live jobs of a tenant, and the requests on their way to an
insert for it, together never outnumber the threads (`RoomIsLeft`): a request
joins the second set only when the first is empty, and moves from the second to
the first. With one thread that is the one active job `enqueue` promises.

An account that says `verifying` is answered for by the run at work, by the pass
that has failed its job, or by a job in a browser state, which the next pass
finds. Each of the three hands over to the next or tells the account
(`RunsEnd`, `PassesEnd`, `BrowsingEnds`), a dying worker included: if its job is
not over, `DrivenIsClaimed` leaves it in a browser state. The exception is
`cancel_active`, which takes the job and tells nobody, because the account has no
row by then. ConnectsAfterDisconnect says that it still has none when the
statement runs; one request thread implies it, and with two TLC refutes the
property without it (section 6). VerifyingIsAnswered is the safety core of
VerifyingEnds.

The refinement (`ImplementsJobLife`) maps a status to its phase and the workers
with an InRun place to `Drives`; a step of Jobs is one action of JobLife or none.
That a Take finds nobody driving, and the worker nothing to drive, is
DrivenIsClaimed and the place `claiming`. `PromiseIsExclusive` shows that JobLife
says enough: exclusive runs follow from it alone.

**Cadence.** The position a function has read in one playbook may be written
after another function has moved the deal to the other, so the types need
LaterBookIsLonger (4 steps and 6 in the code) and `BookingIsForGood`, that nobody
holds the later playbook while the deal is in the first. Before first contact and
booking nobody has a way to move the deal (`Untouched`); StageClicks = 0 excludes
the one way round it, a stage set by hand. The same premise keeps a stay on its
playbook (`StayInv`): a booking writes stage and playbook in one statement, only
it and the calendar put a deal among the stays, and nobody takes the playbook of
a stay away. What the calendar is about to write counts as well, since it writes
the stage it has computed over whatever has happened since it looked. A step is
drafted once because what the check found in the outbox still holds while the
model is asked (`CheckHolds`). TLC refutes each of the last three without its
premise on clicks or agents.

**Inbound.** A retry is half-way from its compare-and-set until it has put the
mail somewhere or handed the row back. `ClaimInv`: only one retry is half-way on a
row, which says `recovered`; row ids are not used twice, so a row shed and
recorded anew is not mistaken for the old one. With it `RecoveredInv` follows by
sorting the steps into claims, dismissals, hand-backs and the rest (`Ordinary`).
Shedding is safe because `_prune` never takes an open row with the code
`unparsed` (`CodeInv` says what the code of a row tells), and one that is not open
is recovered or dismissed. One answer (`AnswerInv`): an answered message leaves a
seen row, and for an inquiry a deal and a response, behind; these only grow; and a
request that is on its way to answer has found them missing, while no other
request has the message in hand. CopiesAreAlike says that the two-key lookup of
`storage.py` cannot tell copies of one message apart: a mail matches one of them
exactly when it matches the others. The mails of `mail` satisfy it. Copies of
which a third mail matches only one would be answered in turn, as the loose key
is not transitive with the strict one. For the refinement (`ImplementsRejectLife`)
every Ordinary step is one Bring, which may bring nothing; claims, hand-backs,
dismissals, recordings and crashes are the abstract action of that name. It
says what RecoveredInv alone does not: a retry whose row was shed in the meantime
hands back nothing, even when its mail has come in again. That a dismissal
outlives every retry follows from RejectLife alone (`PromiseKeepsDismissals`).

**Background.** The mark is written before the check and never runs ahead of the
clock, and covers every check started and digest mailed so far; what a pass still
owes it has not done (`OwedIsUndone`), though the clock may have moved since it
looked. NothingIsStranded is the safety core of QueuedIsSent: it becomes inductive
with `Serves`, that a dashboard delivers by its drain thread and a worker in its
pass, never both. A host then has one place a send can be in, and the thread in
that place has the browser. **Board.** The two rules for a deal's state are compared case by case, the
three truth values of SQL included. The captions, offers and refusals rest on the
row next_queued would take: it exists because a finite set of ids has a least one
(`Greatest`), and every queued row of the guest comes after it.

Only model-checked: liveness (OpenDealsEnd, StaysEnd, StrandedJobsEnd,
VerifyingEnds, StoredReachesBoard, QueuedIsSent, SlotIsCovered), which is out of
the prover's reach, and Billing, whose one property is a finding. TLC's
counterexamples of section 6 need no proof.

## 6. Findings

Where the code does not do what one of its sentences says; PROJECT.json quotes
both sides.

- Overlapping reclaim passes can requeue a live send (`two_reclaimers`).
- A drafted step advances its deal twice; every other follow-up is skipped (`skipped`).
- The success page writes a subscription active again that the webhook has
  recorded as canceled (`source_of_truth`).

Seen in the models, without a run of their own.

Delivery and Cadence: a text edited and re-approved between read and claim is not
the one sent (`DispatchesApprovedText` fails); a guest's reply leaves queued
follow-ups queued (`ReplySupersedesQueue`), and written from a stale read undoes
a booking (`ReplyKeepsBooking`); two passes (Agents = {"worker", "web"}) draft
one step; a stage set by hand (StageClicks = 1) starts the follow-ups of an
uncontacted deal; the delivery of autopilot's answer to a guest moves the deal's
position; the calendar closes a deal whose guest has just written; with the
e-mail as the only channel (PlatformOn = FALSE) a failed e-mail counts as sent; a
send that ends between the last poll and the deadline is recorded as timed out.

Jobs: two overlapping requests insert two active jobs, though `jobs.py` speaks of
at most one (never more than there are threads, `ActiveBounded`); a canceled or reaped job is revived by the next status callback of
the run that still works on it; a job queued for half an hour is reaped right
after its claim, since its age counts from the request; a code typed between the
two statements of consume_otp is lost; a run begun before a disconnect and a new
connect marks the new account connected; a crash between the end of a job and
the account's update, in the run or in `_fail_stale_job`, leaves the account
`verifying` (the flag `torn`); so does a disconnect that overlaps a new connect,
when the worker dies before the disconnect calls off its job.

Inbound: the backfill re-opens, as a new deal, a reply whose conversation has been
closed since, and gives scraped items deals that `runner.py:235` says they never
get; a row whose retry is under way can be shed and its mail lost; so is a mail
whose retry dies between claiming the row and the board; a retry while the
webhook's draft is being written drafts twice; two first messages of one guest
both find no thread and open a deal each; a reopened row can push evidence past
the hard ceiling; `_draft_new_items` stamps the guest's reply a second time,
later than it came.

Background: two hosts both check one slot (OncePerSlot is per host), which the
head of `scheduler.py` rules out; a slot marked while the browser is busy loses
its check; the drain thread gives up after 30 s while a scrape takes minutes, and
only the next poll, or a worker, wakes it.

Board: `_failed_item_ids` says "last send failed" and returns items any send of
which ever failed; needs_action leaves out a deal with status `sent` whose guest
has written again, though lead_state calls it guest_replied.

Billing: an `updated` event that arrives after `deleted` re-activates the row;
`deleted` before `completed` is answered with 200 and forgotten; the end of a
customer's old subscription cancels the row of the new one.

## 7. Plan

What is left, in this order:

1. The refresh of a deal's dates and value (`pipeline.ensure`) in Cadence.
2. The furnishedfinder module's per-run context beside the runner's slot.
3. An abstract playbook (a position that only moves forward, a stay that only
   ends) for Cadence to implement, as JobLife is for Jobs.

## 8. Not modelled

HTML and browser driving (`check_leads.py`, `sites/furnishedfinder.py`), mail
parsing (`sites/ff_email.py`: regular expressions over wording), prompts, page
rendering, mail transport, deployment files: pure functions of one text, or I/O
without protocol state. Log-in, sessions, signatures and encryption: their
subject is security, which this project leaves out. Time zones and frames
(`timeframe.py`): every model has one clock. Metrics and date parsing in
`pipeline.py`.
