------------------------------ MODULE Cadence ------------------------------
(***************************************************************************)
(* One deal's way through the playbooks of sequences.py: the agent's pass  *)
(* automation.run_due, the hook automation.after_contact that runs when a  *)
(* message reaches the guest, a guest's reply, the landlord's clicks and   *)
(* the calendar (pipeline.advance_lifecycle), all writing the same row of  *)
(* `deals` with no lock.                                                   *)
(*                                                                         *)
(* One action is one database statement (pipeline.get, pipeline.update,    *)
(* outbox.add).  Every function that reads the row and writes it later     *)
(* keeps what it read in `actor`, and pipeline.update writes only the      *)
(* columns it is given: a stale read costs exactly those columns.          *)
(*                                                                         *)
(* Of the outbox only what the deal depends on is kept: which step a       *)
(* message is for, who wrote it, and whether it waits, is on its way, was  *)
(* sent or was called off.  How it is sent is module Delivery's.  Dates    *)
(* are kept relative to today, and a step that is scheduled may come due   *)
(* at any time.  run_due's branch for a position outside the playbook is   *)
(* absent: TypeOK says no deal is ever there.                              *)
(***************************************************************************)
EXTENDS Integers, Sequences, FiniteSets

CONSTANTS
    Playbook,       \* sequences.SEQUENCES: the steps of each sequence
    Agents,         \* callers of run_due: the worker, the dashboard's button
    Senders,        \* hosts that deliver, each with a run slot of its own
    ModelDeclines,  \* the model may find that a step needs no message
    Dates,          \* stay dates a deal may get: <<checkIn, checkOut>>
    MaxMessages,    \* bound: rows of the outbox
    Clicks,         \* bound: landlord's clicks on the deal
    StageClicks,    \* bound: uses of POST /deal/<id>/stage ...
    StagesSet,      \* bound: ... and the stages that are set with it
    Replies,        \* bound: messages from the guest
    Failures,       \* bound: failed drafts, and processes killed
    Surprises       \* bound: all of the last four together

Others == {"guest", "owner", "calendar"}
Actors == Agents \cup Senders \cup Others
Hands  == {"autopilot", "owner"}    \* writers of messages that are no agents

VARIABLES
    deal,       \* the row of `deals`
    messages,   \* the deal's rows of `outbox`, in order of their ids
    actor,      \* each actor's place in its function, and what it has read
    left        \* what is left of every bound

vars == <<deal, messages, actor, left>>

-----------------------------------------------------------------------------
(* Playbooks and stages.                                                   *)

Step(id, anchor) == [id |-> id, anchor |-> anchor]

Sequence == {"presale", "prearrival"}
Anchors  == {"inquiry", "contact", "check_in", "check_out"}

FullPlaybook ==
    [presale    |-> << Step("intro",             "inquiry"),
                       Step("followup_1",        "contact"),
                       Step("followup_2",        "contact"),
                       Step("last_call",         "contact") >>,
     prearrival |-> << Step("booking_confirmed", "contact"),
                       Step("pre_arrival_week",  "check_in"),
                       Step("check_in_details",  "check_in"),
                       Step("welcome",           "check_in"),
                       Step("mid_stay",          "check_in"),
                       Step("checkout_info",     "check_out") >>]

OpenStages   == {"new", "contacted", "nurturing"}
BookedStages == {"booked", "pre_arrival", "staying"}
Over         == {"lost", "completed"}
Stages       == OpenStages \cup BookedStages \cup Over

ASSUME CadenceAssumption ==
    /\ Agents \cap (Senders \cup Others \cup Hands) = {}
    /\ Senders \cap Others = {}
    /\ DOMAIN Playbook = Sequence
    /\ \A q \in Sequence :
           /\ Playbook[q] \in Seq([id : STRING, anchor : Anchors])
           /\ Playbook[q] # <<>>
    /\ Playbook.presale[1].id = "intro"
    /\ ModelDeclines \in BOOLEAN
    /\ Dates \subseteq {"unknown", "far", "near", "past"} \X {"unknown", "ahead", "past"}
    /\ MaxMessages \in Nat /\ Clicks \in Nat /\ StageClicks \in Nat
    /\ StagesSet \subseteq Stages
    /\ Replies \in Nat /\ Failures \in Nat /\ Surprises \in Nat

PlaybookSteps == UNION {{Playbook[q][k].id : k \in DOMAIN Playbook[q]} :
                           q \in Sequence}
GuestReply == "guest_reply"
NoStep     == "no step"
NeverAuto  == {"check_in_details"}

Deal == [stage     : Stages,
         sequence  : Sequence,
         step      : Nat,                    \* step_index, from 0
         nextAt    : BOOLEAN,                \* next_action_at is set
         nextStep  : PlaybookSteps \cup {NoStep},
         contacted : BOOLEAN,                \* first_reply_at is set
         lastWord  : {"none", "us", "guest"},
         quiet     : BOOLEAN,                \* every stamp is 21 days old
         checkIn   : {"unknown", "far", "near", "past"},
         checkOut  : {"unknown", "ahead", "past"}]

CurrentStep(d)  == Playbook[d.sequence][d.step + 1]

\* is_last_step: positions count from 0.
IsLastStep(d) == d.step >= Len(Playbook[d.sequence]) - 1

GuestIsWaiting(d) == d.lastWord = "guest"

\* due_at: a step whose anchor is unknown has no time yet.
Schedulable(d) ==
    CASE CurrentStep(d).anchor = "check_in"  -> d.checkIn # "unknown"
      [] CurrentStep(d).anchor = "check_out" -> d.checkOut # "unknown"
      [] OTHER                               -> TRUE

-----------------------------------------------------------------------------
(* The two tables' writes.                                                 *)

Waiting  == "pending_approval"
Queued   == "queued"
Sent     == "sent"
Canceled == "canceled"

Message == [step   : PlaybookSteps \cup {GuestReply},
            by     : Agents \cup Hands,
            status : {Waiting, Queued, Sent, Canceled},
            known  : Nat]                   \* ghost: rows its writer had seen

AddMessage(step, by, status, known) ==
    /\ Len(messages) < MaxMessages
    /\ messages' = Append(messages, [step |-> step, by |-> by,
                                     status |-> status, known |-> known])

\* may_auto: the tenant's settings may arm any step but the never_auto ones.
Routes(step) == IF step \in NeverAuto THEN {Waiting} ELSE {Waiting, Queued}

NothingInFlight == \A i \in DOMAIN messages : messages[i].status # Queued

\* Slip: a draft nobody has approved yet does not count.
HasOpenStep_Approved(step) ==
    \E i \in DOMAIN messages :
        messages[i].step = step /\ messages[i].status \in {Queued, Sent}

HasOpenStep(step) ==
    \E i \in DOMAIN messages :
        messages[i].step = step /\ messages[i].status # Canceled

Unscheduled(d) == [d EXCEPT !.nextAt = FALSE, !.nextStep = NoStep]

\* What reschedule writes over the row, from the row it has read.
Rescheduled(d, seen) ==
    IF seen.stage \in Over THEN Unscheduled(d)
    ELSE [d EXCEPT !.nextAt   = seen.dated,
                   !.nextStep = CurrentStep(seen).id]

Spend(what) ==
    /\ left[what] > 0 /\ left.all > 0
    /\ left' = [left EXCEPT ![what] = @ - 1, !.all = @ - 1]

\* The columns some function reads and uses later: `dated` stands for the
\* dates, of which reschedule only wants to know whether they suffice.
Columns == [stage : Stages, sequence : Sequence, step : Nat, dated : BOOLEAN]

View == [stage |-> deal.stage, sequence |-> deal.sequence, step |-> deal.step,
         dated |-> Schedulable(deal)]

At(a, place) == actor[a].at = place
Seen(a)      == actor[a].seen

-----------------------------------------------------------------------------
(* A deal as pipeline.ensure opens it, with or without autopilot's intro.  *)

\* Slip: a new deal is put on the agent's schedule at once.
OpenedDeal_Scheduled(in, out) ==
    [stage |-> "new", sequence |-> "presale", step |-> 0,
     nextAt |-> TRUE, nextStep |-> "intro", contacted |-> FALSE,
     lastWord |-> "none", quiet |-> FALSE, checkIn |-> in, checkOut |-> out]

OpenedDeal(in, out) ==
    [stage |-> "new", sequence |-> "presale", step |-> 0,
     nextAt |-> FALSE, nextStep |-> NoStep, contacted |-> FALSE,
     lastWord |-> "none", quiet |-> FALSE, checkIn |-> in, checkOut |-> out]

Nothing == [stage |-> "new", sequence |-> "presale", step |-> 0, dated |-> FALSE]
Resting == [at |-> "rest", seen |-> Nothing, isNew |-> FALSE, row |-> 0]

Init ==
    /\ \E dates \in Dates : deal = OpenedDeal(dates[1], dates[2])
    /\ \/ messages = <<>>
       \/ \E status \in Routes("intro") :
              messages = <<[step |-> "intro", by |-> "autopilot",
                            status |-> status, known |-> 0]>>
    /\ actor = [a \in Actors |-> Resting]
    /\ left = [clicks |-> Clicks, stages |-> StageClicks,
               replies |-> Replies, failures |-> Failures, all |-> Surprises]

Goes(a, place)  == actor' = [actor EXCEPT ![a].at = place]
Reads(a, place) == actor' = [actor EXCEPT ![a].at = place, ![a].seen = View]
Turns(a, place) == actor' = [actor EXCEPT ![a] = [Resting EXCEPT !.at = place,
                                                       !.row = actor[a].row]]
Rests(a)        == actor' = [actor EXCEPT ![a] = Resting]

-----------------------------------------------------------------------------
(* reschedule, as run_due, after_contact and two routes call it.           *)

ReschedReads(a) ==
    /\ At(a, "reschedule")
    /\ Reads(a, "scheduling")
    /\ UNCHANGED <<deal, messages, left>>

ReschedWrites(a) ==
    /\ At(a, "scheduling")
    /\ deal' = Rescheduled(deal, Seen(a))
    /\ Rests(a)
    /\ UNCHANGED <<messages, left>>

-----------------------------------------------------------------------------
(* run_due.                                                                *)

\* The pass reads every deal first; this one had come due by then.  Of the row
\* it goes on to use the position alone.
AgentPicks(a) ==
    /\ At(a, "rest")
    /\ deal.nextAt
    /\ actor' = [actor EXCEPT ![a].at = "picked",
                     ![a].seen = [Nothing EXCEPT !.sequence = deal.sequence,
                                                 !.step = deal.step]]
    /\ UNCHANGED <<deal, messages, left>>

\* `row` is a ghost here: how much of the outbox the look has covered.
AgentChecks(a) ==
    /\ At(a, "picked")
    /\ IF HasOpenStep(CurrentStep(Seen(a)).id)
       THEN Goes(a, "advancing")
       ELSE actor' = [actor EXCEPT ![a].at = "drafting", ![a].row = Len(messages)]
    /\ UNCHANGED <<deal, messages, left>>

Drafted(a) == actor' = [actor EXCEPT ![a].at = "advancing", ![a].row = 0]

\* The model wrote a message: it waits for approval or goes straight out.
AgentDrafts(a) ==
    LET step == CurrentStep(Seen(a)).id
    IN  /\ At(a, "drafting")
        /\ \E status \in Routes(step) : AddMessage(step, a, status, actor[a].row)
        /\ Drafted(a)
        /\ UNCHANGED <<deal, left>>

\* The model had nothing to say.
AgentSkips(a) ==
    /\ At(a, "drafting")
    /\ ModelDeclines
    /\ Drafted(a)
    /\ UNCHANGED <<deal, messages, left>>

\* The model could not be reached: try again in an hour.
AgentErrs(a) ==
    /\ At(a, "drafting")
    /\ Spend("failures")
    /\ deal' = [deal EXCEPT !.nextAt = TRUE]
    /\ Rests(a)
    /\ UNCHANGED messages

\* Slip: at the end of the playbook the schedule is left as it was.
AgentAdvances_KeepsSchedule(a) ==
    /\ At(a, "advancing")
    /\ IF IsLastStep(Seen(a))
       THEN deal' = deal /\ Rests(a)
       ELSE deal' = [deal EXCEPT !.step = Seen(a).step + 1] /\ Turns(a, "reschedule")
    /\ UNCHANGED <<messages, left>>

\* Slip: the position is written with the playbook it was read in.
AgentAdvances_InItsPlaybook(a) ==
    /\ At(a, "advancing")
    /\ IF IsLastStep(Seen(a))
       THEN deal' = Unscheduled(deal) /\ Rests(a)
       ELSE /\ deal' = [deal EXCEPT !.sequence = Seen(a).sequence, !.step = Seen(a).step + 1]
            /\ Turns(a, "reschedule")
    /\ UNCHANGED <<messages, left>>

\* _advance: from the position the pass has read, on a draft.
AgentAdvances(a) ==
    /\ At(a, "advancing")
    /\ IF IsLastStep(Seen(a))
       THEN deal' = Unscheduled(deal) /\ Rests(a)
       ELSE deal' = [deal EXCEPT !.step = Seen(a).step + 1] /\ Turns(a, "reschedule")
    /\ UNCHANGED <<messages, left>>

\* The process is killed, or the database fails, anywhere in the pass.
AgentDies(a) ==
    /\ ~ At(a, "rest")
    /\ Spend("failures")
    /\ Rests(a)
    /\ UNCHANGED <<deal, messages>>

AgentStep(a) ==
    \/ AgentPicks(a) \/ AgentChecks(a) \/ AgentDrafts(a) \/ AgentSkips(a)
    \/ AgentErrs(a) \/ AgentAdvances(a) \/ ReschedReads(a) \/ ReschedWrites(a)

-----------------------------------------------------------------------------
(* _send_worker, from the moment the reply is in the guest's thread:       *)
(* after_contact.  The run slot serializes the sends of one host.          *)

Lands(s, i) ==
    /\ At(s, "rest")
    /\ messages[i].status = Queued
    /\ messages' = [messages EXCEPT ![i].status = Sent]
    /\ actor' = [actor EXCEPT ![s].at = "landed", ![s].row = i]
    /\ UNCHANGED <<deal, left>>

\* after_contact reads the row ...
ContactReads(s) ==
    /\ At(s, "landed")
    /\ Reads(s, "recording")
    /\ UNCHANGED <<deal, messages, left>>

\* ... record_contact reads it again, to see whether it is still `new` ...
ContactLooks(s) ==
    /\ At(s, "recording")
    /\ actor' = [actor EXCEPT ![s].at = "stamping", ![s].isNew = (deal.stage = "new")]
    /\ UNCHANGED <<deal, messages, left>>

\* ... and stamps it.
ContactStamps(s) ==
    /\ At(s, "stamping")
    /\ deal' = [deal EXCEPT !.contacted = TRUE, !.lastWord = "us", !.quiet = FALSE,
                    !.stage = IF actor[s].isNew THEN "contacted" ELSE @]
    /\ Goes(s, "advancing")
    /\ UNCHANGED <<messages, left>>

\* Slip: the step after the last one.
ContactAdvances_PastEnd(s) ==
    /\ At(s, "advancing")
    /\ deal' = [deal EXCEPT !.step = Seen(s).step + 1]
    /\ Turns(s, "reschedule")
    /\ UNCHANGED <<messages, left>>

\* The position moves on from where it was read first.
ContactAdvances(s) ==
    LET seen == Seen(s)
        nurturing == /\ seen.sequence = "presale"
                     /\ seen.step >= 1
                     /\ seen.stage = "contacted"
    IN  /\ At(s, "advancing")
        /\ IF IsLastStep(seen)
           THEN deal' = Unscheduled(deal) /\ Rests(s)
           ELSE /\ deal' = [deal EXCEPT !.step = seen.step + 1,
                               !.stage = IF nurturing THEN "nurturing" ELSE @]
                /\ Turns(s, "reschedule")
        /\ UNCHANGED <<messages, left>>

\* The host is killed inside the hook, before the outcome of the send is
\* stored: a reclaim pass gives the message another delivery, or gives it up.
SenderDies(s) ==
    /\ ~ At(s, "rest")
    /\ Spend("failures")
    /\ messages[actor[s].row].status = Sent
    /\ \E status \in {Queued, Sent} :
           messages' = [messages EXCEPT ![actor[s].row].status = status]
    /\ Rests(s)
    /\ UNCHANGED deal

SenderStep(s) ==
    \/ ContactReads(s) \/ ContactLooks(s) \/ ContactStamps(s) \/ ContactAdvances(s)
    \/ ReschedReads(s) \/ ReschedWrites(s)

-----------------------------------------------------------------------------
(* The guest writes: record_guest_reply, then autopilot's answer.          *)

ReplyReads ==
    /\ At("guest", "rest")
    /\ Spend("replies")
    /\ Reads("guest", "stamping")
    /\ UNCHANGED <<deal, messages>>

ReplyStamps ==
    /\ At("guest", "stamping")
    /\ deal' = [Unscheduled(deal) EXCEPT !.lastWord = "guest", !.quiet = FALSE,
                    !.stage = IF Seen("guest").stage \in OpenStages
                              THEN "contacted" ELSE @]
    /\ Turns("guest", "answering")
    /\ UNCHANGED <<messages, left>>

\* enqueue_autopilot_reply: unlike run_due it asks nothing of the outbox.
ReplyAnswered ==
    /\ At("guest", "answering")
    /\ \/ \E status \in Routes(GuestReply) :
              AddMessage(GuestReply, "autopilot", status, 0)
       \/ UNCHANGED messages
    /\ Rests("guest")
    /\ UNCHANGED <<deal, left>>

-----------------------------------------------------------------------------
(* The landlord.                                                           *)

\* The two loops' locals are apart from the landlord's: a click on the deal
\* is a request of its own, a click on a message a single statement.
Books ==
    /\ At("owner", "rest")
    /\ Spend("clicks")
    /\ \E dates \in Dates \cup {<<deal.checkIn, deal.checkOut>>} :
           deal' = [Unscheduled(deal) EXCEPT
                        !.stage = "booked", !.sequence = "prearrival", !.step = 0,
                        !.checkIn = dates[1], !.checkOut = dates[2]]
    /\ Turns("owner", "reschedule")
    /\ UNCHANGED messages

Loses ==
    /\ At("owner", "rest")
    /\ Spend("clicks")
    /\ deal' = [Unscheduled(deal) EXCEPT !.stage = "lost"]
    /\ UNCHANGED <<messages, actor>>

Reopens ==
    /\ At("owner", "rest")
    /\ Spend("clicks")
    /\ deal' = [deal EXCEPT !.stage = "contacted"]
    /\ UNCHANGED <<messages, actor>>

SetsStage(stage) ==
    /\ At("owner", "rest")
    /\ Spend("stages")
    /\ deal' = [deal EXCEPT !.stage = stage]
    /\ Turns("owner", "reschedule")
    /\ UNCHANGED messages

\* enqueue_send: filed under the step that is scheduled, or as the intro.
Sends ==
    /\ NothingInFlight
    /\ AddMessage(IF deal.nextStep = NoStep THEN "intro" ELSE deal.nextStep,
                  "owner", Queued, 0)
    /\ UNCHANGED <<deal, actor, left>>

Approves(i) ==
    /\ messages[i].status = Waiting
    /\ NothingInFlight
    /\ messages' = [messages EXCEPT ![i].status = Queued]
    /\ UNCHANGED <<deal, actor, left>>

CallsOff(i) ==
    /\ messages[i].status \in {Waiting, Queued}
    /\ messages' = [messages EXCEPT ![i].status = Canceled]
    /\ UNCHANGED <<deal, actor, left>>

-----------------------------------------------------------------------------
(* advance_lifecycle, and the days going by.                               *)

IsAbandoned(d) == d.quiet /\ ~ GuestIsWaiting(d) /\ ~ d.nextAt

\* Slip: completing a stay takes a check-in date, too.
CalendarStage_NeedsCheckIn(d) ==
    CASE d.stage \in BookedStages /\ d.checkIn = "past" /\ d.checkOut = "past"
            -> "completed"
      [] d.stage \in {"booked", "pre_arrival"} /\ d.checkIn = "past" -> "staying"
      [] d.stage = "booked" /\ d.checkIn = "near"                    -> "pre_arrival"
      [] d.stage \in OpenStages /\ IsAbandoned(d)                    -> "lost"
      [] OTHER                                                       -> d.stage

\* The stage the calendar wants the deal it has read to be in.
CalendarStage(d) ==
    CASE d.stage \in BookedStages /\ d.checkOut = "past"             -> "completed"
      [] d.stage \in {"booked", "pre_arrival"} /\ d.checkIn = "past" -> "staying"
      [] d.stage = "booked" /\ d.checkIn = "near"                    -> "pre_arrival"
      [] d.stage \in OpenStages /\ IsAbandoned(d)                    -> "lost"
      [] OTHER                                                       -> d.stage

CalendarReads ==
    /\ At("calendar", "rest")
    /\ CalendarStage(deal) # deal.stage
    /\ actor' = [actor EXCEPT !["calendar"].at = "moving",
                              !["calendar"].seen.stage = CalendarStage(deal)]
    /\ UNCHANGED <<deal, messages, left>>

CalendarMoves ==
    LET stage == Seen("calendar").stage
    IN  /\ At("calendar", "moving")
        /\ deal' = [(IF stage \in Over THEN Unscheduled(deal) ELSE deal)
                        EXCEPT !.stage = stage]
        /\ Rests("calendar")
        /\ UNCHANGED <<messages, left>>

DaysGoBy ==
    /\ \/ /\ deal.checkIn = "far"
          /\ deal' = [deal EXCEPT !.checkIn = "near"]
       \/ /\ deal.checkIn = "near"
          /\ deal' = [deal EXCEPT !.checkIn = "past"]
       \/ /\ deal.checkOut = "ahead" /\ deal.checkIn \in {"unknown", "past"}
          /\ deal' = [deal EXCEPT !.checkOut = "past"]
       \/ /\ ~ deal.quiet
          /\ deal' = [deal EXCEPT !.quiet = TRUE]
    /\ UNCHANGED <<messages, actor, left>>

-----------------------------------------------------------------------------
Next ==
    \/ \E a \in Agents : AgentStep(a) \/ AgentDies(a)
    \/ \E s \in Senders : SenderStep(s) \/ SenderDies(s)
    \/ \E i \in DOMAIN messages : \/ Approves(i) \/ CallsOff(i)
                                 \/ \E s \in Senders : Lands(s, i)
    \/ ReplyReads \/ ReplyStamps \/ ReplyAnswered
    \/ Books \/ Loses \/ Reopens \/ Sends
    \/ \E stage \in StagesSet : SetsStage(stage)
    \/ ReschedReads("owner") \/ ReschedWrites("owner")
    \/ CalendarReads \/ CalendarMoves
    \/ DaysGoBy

Spec == Init /\ [][Next]_vars

\* worker.py polls for ever, a request or thread once started runs to its
\* end, and days go by.  Nobody need click, approve, send or write.
Fairness ==
    /\ \A a \in Agents : WF_vars(AgentStep(a))
    /\ \A s \in Senders : WF_vars(SenderStep(s))
    /\ WF_vars(ReplyStamps \/ ReplyAnswered)
    /\ WF_vars(ReschedReads("owner") \/ ReschedWrites("owner"))
    /\ WF_vars(CalendarReads \/ CalendarMoves)
    /\ WF_vars(DaysGoBy)

FairSpec == Spec /\ Fairness

-----------------------------------------------------------------------------
(* Properties.                                                             *)

Places == {"rest", "reschedule", "scheduling", "picked", "drafting", "advancing",
           "landed", "recording", "stamping", "answering", "moving"}

OnPlaybook(d) == d.step < Len(Playbook[d.sequence])

\* The shape of every variable; and whatever stale position is written over
\* whichever playbook, the deal stands on a step that exists.
TypeOK ==
    /\ deal \in Deal /\ OnPlaybook(deal)
    /\ messages \in Seq(Message)
    /\ actor \in [Actors -> [at : Places, seen : Columns, isNew : BOOLEAN, row : Nat]]
    /\ \A a \in Actors : OnPlaybook(Seen(a))
    /\ left \in [{"clicks", "stages", "replies", "failures", "all"} -> Nat]

\* automation.py:10 lets a worker's loop, a cron job and a request call run_due
\* and has has_open_step keep them from writing one follow-up twice.  A caller
\* killed anywhere and run again never does.  Two callers may, but only while
\* they overlap: the later draft's look came before the earlier draft.
AgentDraftsOnce ==
    \A i, j \in DOMAIN messages :
        /\ i < j
        /\ messages[i].by \in Agents /\ messages[i].status # Canceled
        /\ messages[j].by \in Agents /\ messages[j].status # Canceled
        /\ messages[i].step = messages[j].step
        => messages[i].by # messages[j].by /\ messages[j].known < i

\* after_contact (automation.py:67): a deal gets to its follow-ups only once
\* real contact has been made, so a draft nobody approved never triggers them.
FollowupsNeedContact ==
    deal.sequence = "presale" /\ deal.step > 0 => deal.contacted

\* mark_booked (pipeline.py:989) starts the pre-arrival agent.  Stages and
\* positions read before a booking may be written after it, and yet no deal
\* counts as a stay while the agent chases it as a lead.
StayHasItsPlaybook ==
    deal.stage \in BookedStages => deal.sequence = "prearrival"

\* advance_lifecycle (pipeline.py:1025): nothing stays open because nobody
\* pressed a button.  Left alone, an open deal is closed, unless the guest
\* has the last word and waits for us.
OpenDealsEnd ==
    deal.stage \in OpenStages ~>
        (deal.stage \notin OpenStages \/ GuestIsWaiting(deal))

\* The same for stays: past its check-out date a booking is closed, whether
\* or not its check-in date was ever known.
StaysEnd ==
    deal.stage \in BookedStages /\ deal.checkOut = "past" ~>
        deal.stage \notin BookedStages \/ deal.checkOut # "past"

-----------------------------------------------------------------------------
(* Statements of the code's comments that the code does not keep.          *)

\* runner.py:504: the guest is not skipped a step.  As long as the model has
\* something to say and the landlord leaves the writing to it, every step the
\* deal has left behind has a message, whatever became of it.
NoStepSkipped ==
    ~ ModelDeclines /\ (\A i \in DOMAIN messages : messages[i].by # "owner") =>
        \A k \in 1..deal.step :
            \E i \in DOMAIN messages :
                messages[i].step = Playbook[deal.sequence][k].id

\* pipeline.py:636: the guest's message supersedes whatever was queued.
ReplySupersedesQueue ==
    [][ReplyStamps =>
         \A i \in DOMAIN messages' :
             messages'[i].by \in Agents => messages'[i].status # Queued]_vars

\* pipeline.py:645: a guest's reply does not touch a booked deal's stage.
ReplyKeepsBooking ==
    [][ReplyStamps /\ deal.stage \in BookedStages => deal'.stage = deal.stage]_vars
=============================================================================
