---------------------------- MODULE Cadence_proofs ----------------------------
(***************************************************************************)
(* Theorems about Cadence, for every playbook, every set of agents and     *)
(* every bound.                                                            *)
(***************************************************************************)
EXTENDS Cadence, TLAPS

\* The later playbook is not the shorter one: 4 steps and 6 in the code.  A
\* position read in the first may be written into the second.
LaterBookIsLonger == Len(Playbook["presale"]) <= Len(Playbook["prearrival"])

\* Booking is for good: no actor works with the second playbook in hand while
\* the deal is in the first.
BookingIsForGood ==
    \A a \in Actors : Seen(a).sequence = "prearrival" => deal.sequence = "prearrival"

TypeInv == TypeOK /\ BookingIsForGood

-----------------------------------------------------------------------------
(* Lemmas about the parts.                                                 *)

ActorType == [at : Places, seen : Columns, isNew : BOOLEAN, row : Nat]
LeftType  == [{"clicks", "stages", "replies", "failures", "all"} -> Nat]

\* A deal on its playbook has a current step.
LEMMA CurrentStepExists ==
    ASSUME NEW d, d.sequence \in Sequence, d.step \in Nat, OnPlaybook(d)
    PROVE  CurrentStep(d).id \in PlaybookSteps
<1>1. /\ Len(Playbook[d.sequence]) \in Nat
      /\ DOMAIN Playbook[d.sequence] = 1..Len(Playbook[d.sequence])
  BY CadenceAssumption
<1>2. d.step + 1 \in DOMAIN Playbook[d.sequence]
  BY <1>1 DEF OnPlaybook
<1> QED BY <1>2, CadenceAssumption DEF CurrentStep, PlaybookSteps

\* The first step of the first playbook is the intro.
LEMMA IntroExists == "intro" \in PlaybookSteps
<1>1. Playbook["presale"] \in Seq([id : STRING, anchor : Anchors]) /\ Playbook["presale"] # <<>>
  BY CadenceAssumption DEF Sequence
<1>2. 1 \in DOMAIN Playbook["presale"] /\ Playbook["presale"][1].id = "intro"
  BY <1>1, CadenceAssumption
<1>3. "presale" \in DOMAIN Playbook /\ "presale" \in Sequence
  BY CadenceAssumption DEF Sequence
<1> QED BY <1>2, <1>3 DEF PlaybookSteps

\* A position is on its playbook from the start.
LEMMA StartIsOnPlaybook ==
    \A q \in Sequence : Len(Playbook[q]) \in Nat /\ 0 < Len(Playbook[q])
BY CadenceAssumption

\* What an actor can read of a deal.
LEMMA ViewIsTyped ==
    ASSUME TypeOK
    PROVE  View \in Columns /\ OnPlaybook(View) /\ View.sequence = deal.sequence
BY DEF TypeOK, View, Columns, Deal, Schedulable, OnPlaybook

\* An actor goes on, and what it holds of the deal may have been read of it.
GoesOn(a) ==
    \E r \in ActorType :
        /\ actor' = [actor EXCEPT ![a] = r]
        /\ OnPlaybook(r.seen)
        /\ r.seen.sequence = "prearrival" => deal.sequence = "prearrival"

LEMMA ActorGoesOn ==
    ASSUME TypeInv, NEW a \in Actors, GoesOn(a)
    PROVE  /\ actor' \in [Actors -> ActorType]
           /\ \A b \in Actors : OnPlaybook(Seen(b))'
           /\ deal'.sequence \in {deal.sequence, "prearrival"} => BookingIsForGood'
<1>1. /\ actor \in [Actors -> ActorType]
      /\ \A b \in Actors : OnPlaybook(Seen(b))
  BY DEF TypeInv, TypeOK, ActorType
<1>2. PICK r \in ActorType :
          /\ actor' = [actor EXCEPT ![a] = r]
          /\ OnPlaybook(r.seen)
          /\ r.seen.sequence = "prearrival" => deal.sequence = "prearrival"
  BY DEF GoesOn
<1>3. \A b \in Actors : Seen(b)' = IF b = a THEN r.seen ELSE Seen(b)
  BY <1>1, <1>2 DEF Seen
<1>4. \A b \in Actors : OnPlaybook(Seen(b))'
  BY <1>1, <1>2, <1>3 DEF OnPlaybook
<1> QED BY <1>1, <1>2, <1>3, <1>4 DEF TypeInv, BookingIsForGood

\* The usual ways.
LEMMA ActorGoes ==
    ASSUME TypeInv, NEW a \in Actors, NEW place \in Places,
           \/ Goes(a, place) \/ Reads(a, place) \/ Turns(a, place) \/ Rests(a)
    PROVE  GoesOn(a)
<1>1. /\ actor \in [Actors -> ActorType] /\ actor[a] \in ActorType
      /\ \A b \in Actors : OnPlaybook(Seen(b))
      /\ Resting \in ActorType /\ OnPlaybook(Nothing) /\ Nothing.sequence = "presale"
      /\ [Resting EXCEPT !.at = place, !.row = actor[a].row] \in ActorType
      /\ [Resting EXCEPT !.at = place, !.row = actor[a].row].seen = Nothing
      /\ Resting.seen = Nothing
  BY StartIsOnPlaybook
     DEF TypeInv, TypeOK, ActorType, Resting, Nothing, Places, Columns, Stages,
         OpenStages, OnPlaybook, Sequence
<1>2. \E r \in ActorType :
          /\ actor' = [actor EXCEPT ![a] = r]
          /\ OnPlaybook(r.seen)
          /\ r.seen.sequence = "prearrival" => deal.sequence = "prearrival"
  <2>1. CASE Goes(a, place)
    <3> DEFINE r == [actor[a] EXCEPT !.at = place]
    <3>1. r \in ActorType /\ r.seen = Seen(a)
      BY <1>1 DEF ActorType, Seen
    <3> QED BY <1>1, <2>1, <3>1 DEF Goes, TypeInv, BookingIsForGood
  <2>2. CASE Reads(a, place)
    <3> DEFINE r == [actor[a] EXCEPT !.at = place, !.seen = View]
    <3>1. r \in ActorType /\ r.seen = View
      BY <1>1, ViewIsTyped DEF ActorType, TypeInv
    <3> QED BY <1>1, <2>2, <3>1, ViewIsTyped DEF Reads, TypeInv
  <2>3. CASE Turns(a, place)
    BY <1>1, <2>3 DEF Turns
  <2>4. CASE Rests(a)
    BY <1>1, <2>4 DEF Rests
  <2> QED BY <2>1, <2>2, <2>3, <2>4
<1> QED BY <1>2 DEF GoesOn

\* A step that touches nothing of an actor but its place, row or stage.
LEMMA ActorKeepsPosition ==
    ASSUME TypeInv, actor' \in [Actors -> ActorType],
           \A b \in Actors : /\ Seen(b)'.sequence = Seen(b).sequence
                             /\ Seen(b)'.step = Seen(b).step
    PROVE  /\ \A b \in Actors : OnPlaybook(Seen(b))'
           /\ deal'.sequence \in {deal.sequence, "prearrival"} => BookingIsForGood'
BY DEF TypeInv, TypeOK, OnPlaybook, BookingIsForGood

LEMMA AddMessageIsTyped ==
    ASSUME messages \in Seq(Message),
           NEW step \in PlaybookSteps \cup {GuestReply},
           NEW by \in Agents \cup Hands,
           NEW status \in {Waiting, Queued, Sent, Canceled}, NEW known \in Nat,
           AddMessage(step, by, status, known)
    PROVE  messages' \in Seq(Message)
BY DEF AddMessage, Message

LEMMA StatusIsTyped ==
    ASSUME messages \in Seq(Message), NEW i \in DOMAIN messages,
           NEW status \in {Waiting, Queued, Sent, Canceled},
           messages' = [messages EXCEPT ![i].status = status]
    PROVE  messages' \in Seq(Message)
<1> DEFINE m == [messages[i] EXCEPT !.status = status]
<1>1. messages[i] \in Message
  OBVIOUS
<1>2. m \in Message
  BY <1>1 DEF Message
<1>3. messages' = [messages EXCEPT ![i] = m]
  OBVIOUS
<1> HIDE DEF m
<1> QED BY <1>2, <1>3

LEMMA RowIsTyped ==
    ASSUME messages \in Seq(Message), NEW i, NEW status \in {Queued, Sent},
           messages' = [messages EXCEPT ![i].status = status]
    PROVE  messages' \in Seq(Message)
<1>1. CASE i \in DOMAIN messages
  BY <1>1, StatusIsTyped
<1>2. CASE i \notin DOMAIN messages
  <2>1. messages' = messages
    BY <1>2
  <2> QED BY <2>1
<1> QED BY <1>1, <1>2

LEMMA SpendIsTyped ==
    ASSUME left \in LeftType, NEW what \in {"clicks", "stages", "replies", "failures"},
           Spend(what)
    PROVE  left' \in LeftType
<1>1. left' = [[left EXCEPT ![what] = @ - 1] EXCEPT !.all = @ - 1]
  BY DEF Spend
<1>2. left[what] \in Nat /\ left[what] > 0
  BY DEF Spend, LeftType
<1> DEFINE l == [left EXCEPT ![what] = @ - 1]
<1>3. l \in LeftType /\ l["all"] = left["all"]
  BY <1>2 DEF LeftType
<1>4. left["all"] \in Nat /\ left["all"] > 0
  BY DEF Spend, LeftType
<1> HIDE DEF l
<1>5. [l EXCEPT !["all"] = @ - 1] \in LeftType
  BY <1>3, <1>4 DEF LeftType
<1> QED BY <1>1, <1>5 DEF l

\* What a write of the row has to keep.
DealIsKept == /\ deal' \in Deal /\ OnPlaybook(deal)'
              /\ deal'.sequence \in {deal.sequence, "prearrival"}

LEMMA UnchangedDealIsKept == ASSUME TypeOK, UNCHANGED deal PROVE DealIsKept
BY DEF TypeOK, DealIsKept, OnPlaybook

LEMMA UnscheduledIsDeal ==
    ASSUME NEW d \in Deal
    PROVE  /\ Unscheduled(d) \in Deal
           /\ Unscheduled(d).sequence = d.sequence /\ Unscheduled(d).step = d.step
BY DEF Unscheduled, Deal

\* The three-way case on which the type invariant turns: a position read in
\* either playbook, moved on by one, still exists in the deal's playbook.
LEMMA AdvanceIsOnPlaybook ==
    ASSUME LaterBookIsLonger, TypeInv, NEW a \in Actors, ~ IsLastStep(Seen(a))
    PROVE  /\ Seen(a).step + 1 \in Nat
           /\ Seen(a).step + 1 < Len(Playbook[deal.sequence])
<1>1. /\ Seen(a).sequence \in Sequence /\ Seen(a).step \in Nat
      /\ deal.sequence \in Sequence
      /\ Seen(a).sequence = "prearrival" => deal.sequence = "prearrival"
  BY DEF TypeInv, TypeOK, Columns, Deal, Seen, BookingIsForGood
<1>2. Seen(a).step + 1 < Len(Playbook[Seen(a).sequence])
  BY <1>1, StartIsOnPlaybook DEF IsLastStep
<1> QED BY <1>1, <1>2, StartIsOnPlaybook DEF LaterBookIsLonger, Sequence

\* reschedule's write.
LEMMA RescheduleKeepsDeal ==
    ASSUME TypeInv, NEW a \in Actors, deal' = Rescheduled(deal, Seen(a))
    PROVE  DealIsKept
<1>1. /\ Seen(a) \in Columns /\ OnPlaybook(Seen(a)) /\ deal \in Deal /\ OnPlaybook(deal)
  BY DEF TypeInv, TypeOK, Seen
<1>2. CurrentStep(Seen(a)).id \in PlaybookSteps /\ Seen(a).dated \in BOOLEAN
  BY <1>1, CurrentStepExists DEF Columns
<1>3. CASE Seen(a).stage \in Over
  BY <1>1, <1>3, UnscheduledIsDeal DEF Rescheduled, DealIsKept, OnPlaybook
<1>4. CASE Seen(a).stage \notin Over
  <2>1. deal' = [deal EXCEPT !.nextAt = Seen(a).dated, !.nextStep = CurrentStep(Seen(a)).id]
    BY <1>4 DEF Rescheduled
  <2> QED BY <1>1, <1>2, <2>1 DEF DealIsKept, OnPlaybook, Deal
<1> QED BY <1>3, <1>4

-----------------------------------------------------------------------------
(* Type correctness, actor by actor.                                       *)

\* A step in which at most one actor goes on, and the row, the messages and
\* the bounds keep their shape.
LEMMA StepIsTyped ==
    ASSUME TypeInv, DealIsKept, messages' \in Seq(Message), left' \in LeftType,
           NEW a \in Actors, NEW place \in Places,
           \/ Goes(a, place) \/ Reads(a, place) \/ Turns(a, place) \/ Rests(a)
           \/ GoesOn(a) \/ UNCHANGED actor
    PROVE  TypeInv'
<1>1. /\ actor' \in [Actors -> ActorType]
      /\ \A b \in Actors : OnPlaybook(Seen(b))'
      /\ BookingIsForGood'
  <2>1. CASE UNCHANGED actor
    <3>1. /\ actor' \in [Actors -> ActorType]
          /\ \A b \in Actors : Seen(b)' = Seen(b)
      BY <2>1 DEF TypeInv, TypeOK, ActorType, Seen
    <3> QED BY <3>1, ActorKeepsPosition DEF DealIsKept
  <2>2. CASE Goes(a, place) \/ Reads(a, place) \/ Turns(a, place) \/ Rests(a) \/ GoesOn(a)
    BY <2>2, ActorGoes, ActorGoesOn DEF DealIsKept
  <2> QED BY <2>1, <2>2
<1> QED BY <1>1 DEF TypeInv, TypeOK, DealIsKept, ActorType, LeftType

LEMMA DraftedGoesOn ==
    ASSUME TypeInv, NEW a \in Agents, NEW place \in Places, NEW row \in Nat,
           actor' = [actor EXCEPT ![a].at = place, ![a].row = row]
    PROVE  GoesOn(a)
<1> DEFINE r == [actor[a] EXCEPT !.at = place, !.row = row]
<1>1. a \in Actors /\ actor \in [Actors -> ActorType] /\ actor[a] \in ActorType
  BY DEF TypeInv, TypeOK, ActorType, Actors
<1>2. r \in ActorType /\ r.seen = Seen(a)
  BY <1>1 DEF ActorType, Seen
<1>3. actor' = [actor EXCEPT ![a] = r]
  BY <1>1
<1>4. /\ OnPlaybook(Seen(a))
      /\ Seen(a).sequence = "prearrival" => deal.sequence = "prearrival"
  BY <1>1 DEF TypeInv, TypeOK, BookingIsForGood
<1> HIDE DEF r
<1> QED BY <1>2, <1>3, <1>4 DEF GoesOn

LEMMA ReschedKeepsType ==
    ASSUME TypeInv, NEW a \in Actors, ReschedReads(a) \/ ReschedWrites(a)
    PROVE  TypeInv'
<1> USE DEF Places
<1>1. messages \in Seq(Message) /\ left \in LeftType
  BY DEF TypeInv, TypeOK, LeftType
<1>2. CASE ReschedReads(a)
  BY <1>1, <1>2, UnchangedDealIsKept, StepIsTyped DEF ReschedReads, TypeInv
<1>3. CASE ReschedWrites(a)
  BY <1>1, <1>3, RescheduleKeepsDeal, StepIsTyped DEF ReschedWrites
<1> QED BY <1>2, <1>3

LEMMA AgentKeepsType ==
    ASSUME LaterBookIsLonger, TypeInv, NEW a \in Agents, AgentStep(a) \/ AgentDies(a)
    PROVE  TypeInv'
<1> USE DEF Places
<1>1. /\ messages \in Seq(Message) /\ left \in LeftType /\ a \in Actors
      /\ deal \in Deal /\ OnPlaybook(deal)
      /\ Seen(a) \in Columns /\ OnPlaybook(Seen(a))
  BY DEF TypeInv, TypeOK, LeftType, Actors, Seen
<1>2. CASE AgentPicks(a)
  <2> DEFINE seen == [Nothing EXCEPT !.sequence = deal.sequence, !.step = deal.step]
             r    == [actor[a] EXCEPT !.at = "picked", !.seen = seen]
  <2>1. seen \in Columns /\ seen.sequence = deal.sequence /\ seen.step = deal.step
    BY <1>1 DEF Nothing, Columns, Deal, Stages, OpenStages
  <2>2. OnPlaybook(seen)
    BY <1>1, <2>1 DEF OnPlaybook
  <2>3. actor \in [Actors -> ActorType] /\ actor[a] \in ActorType
    BY <1>1 DEF TypeInv, TypeOK, ActorType
  <2>4. actor' = [actor EXCEPT ![a] = r]
    BY <1>1, <1>2, <2>3 DEF AgentPicks
  <2> HIDE DEF seen
  <2>5. r \in ActorType /\ r.seen = seen
    BY <2>1, <2>3 DEF ActorType
  <2> HIDE DEF r
  <2>6. GoesOn(a)
    BY <2>1, <2>2, <2>4, <2>5 DEF GoesOn
  <2> QED BY <1>1, <1>2, <2>6, UnchangedDealIsKept, StepIsTyped DEF AgentPicks, TypeInv
<1>3. CASE AgentChecks(a)
  <2>1. CASE Goes(a, "advancing")
    BY <1>1, <1>3, <2>1, UnchangedDealIsKept, StepIsTyped DEF AgentChecks, TypeInv
  <2>2. CASE ~ Goes(a, "advancing")
    <3>1. Len(messages) \in Nat
      BY <1>1
    <3>2. actor' = [actor EXCEPT ![a].at = "drafting", ![a].row = Len(messages)]
      BY <1>3, <2>2 DEF AgentChecks
    <3>3. GoesOn(a)
      BY <3>1, <3>2, DraftedGoesOn
    <3> QED BY <1>1, <1>3, <3>3, UnchangedDealIsKept, StepIsTyped DEF AgentChecks, TypeInv
  <2> QED BY <2>1, <2>2
<1>4. CASE AgentDrafts(a)
  <2>1. CurrentStep(Seen(a)).id \in PlaybookSteps
    BY <1>1, CurrentStepExists DEF Columns
  <2>2. actor[a].row \in Nat
    BY <1>1 DEF TypeInv, TypeOK
  <2>3. messages' \in Seq(Message)
    BY <1>1, <1>4, <2>1, <2>2, AddMessageIsTyped DEF AgentDrafts, Routes
  <2>4. GoesOn(a)
    BY <1>4, DraftedGoesOn DEF AgentDrafts, Drafted
  <2> QED BY <1>1, <1>4, <2>3, <2>4, UnchangedDealIsKept, StepIsTyped DEF AgentDrafts, TypeInv
<1>5. CASE AgentSkips(a)
  <2>1. GoesOn(a)
    BY <1>5, DraftedGoesOn DEF AgentSkips, Drafted
  <2> QED BY <1>1, <1>5, <2>1, UnchangedDealIsKept, StepIsTyped DEF AgentSkips, TypeInv
<1>6. CASE AgentErrs(a)
  <2>1. DealIsKept
    BY <1>1, <1>6 DEF AgentErrs, DealIsKept, Deal, OnPlaybook
  <2>2. left' \in LeftType
    BY <1>1, <1>6, SpendIsTyped DEF AgentErrs
  <2> QED BY <1>1, <1>6, <2>1, <2>2, StepIsTyped DEF AgentErrs
<1>7. CASE AgentAdvances(a)
  <2>1. CASE IsLastStep(Seen(a))
    <3>1. DealIsKept
      BY <1>1, <1>7, <2>1, UnscheduledIsDeal DEF AgentAdvances, DealIsKept, OnPlaybook
    <3> QED BY <1>1, <1>7, <2>1, <3>1, StepIsTyped DEF AgentAdvances
  <2>2. CASE ~ IsLastStep(Seen(a))
    <3>1. deal' = [deal EXCEPT !.step = Seen(a).step + 1]
      BY <1>7, <2>2 DEF AgentAdvances
    <3>2. DealIsKept
      BY <1>1, <2>2, <3>1, AdvanceIsOnPlaybook DEF DealIsKept, OnPlaybook, Deal
    <3> QED BY <1>1, <1>7, <2>2, <3>2, StepIsTyped DEF AgentAdvances
  <2> QED BY <2>1, <2>2
<1>8. CASE AgentDies(a)
  <2>1. left' \in LeftType
    BY <1>1, <1>8, SpendIsTyped DEF AgentDies
  <2> QED BY <1>1, <1>8, <2>1, UnchangedDealIsKept, StepIsTyped DEF AgentDies, TypeInv
<1>9. CASE ReschedReads(a) \/ ReschedWrites(a)
  BY <1>1, <1>9, ReschedKeepsType
<1> QED BY <1>2, <1>3, <1>4, <1>5, <1>6, <1>7, <1>8, <1>9 DEF AgentStep

LEMMA SenderKeepsType ==
    ASSUME LaterBookIsLonger, TypeInv, NEW s \in Senders,
           SenderStep(s) \/ SenderDies(s) \/ \E i \in DOMAIN messages : Lands(s, i)
    PROVE  TypeInv'
<1> USE DEF Places
<1>1. /\ messages \in Seq(Message) /\ left \in LeftType /\ s \in Actors
      /\ deal \in Deal /\ OnPlaybook(deal)
      /\ actor \in [Actors -> ActorType]
  BY DEF TypeInv, TypeOK, LeftType, Actors, Others, ActorType
<1>2. ASSUME NEW i \in DOMAIN messages, Lands(s, i) PROVE TypeInv'
  <2>1. messages' \in Seq(Message)
    BY <1>1, <1>2, StatusIsTyped DEF Lands
  <2>2. i \in Nat
    BY <1>1
  <2>3. /\ actor' \in [Actors -> ActorType]
        /\ \A b \in Actors : Seen(b)' = Seen(b)
    <3> DEFINE r == [actor[s] EXCEPT !.at = "landed", !.row = i]
    <3>1. r \in ActorType /\ r.seen = Seen(s)
      BY <1>1, <2>2 DEF ActorType, Seen
    <3>2. actor' = [actor EXCEPT ![s] = r]
      BY <1>1, <1>2 DEF Lands
    <3> HIDE DEF r
    <3> QED BY <1>1, <3>1, <3>2 DEF Seen
  <2>4. DealIsKept
    BY <1>2, UnchangedDealIsKept DEF Lands, TypeInv
  <2>5. BookingIsForGood' /\ \A b \in Actors : OnPlaybook(Seen(b))'
    BY <2>3, <2>4, ActorKeepsPosition DEF DealIsKept
  <2> QED BY <1>1, <1>2, <2>1, <2>3, <2>4, <2>5
          DEF Lands, TypeInv, TypeOK, DealIsKept, ActorType, LeftType
<1>3. CASE ContactReads(s)
  BY <1>1, <1>3, UnchangedDealIsKept, StepIsTyped DEF ContactReads, TypeInv
<1>4. CASE ContactLooks(s)
  <2>1. /\ actor' \in [Actors -> ActorType]
        /\ \A b \in Actors : Seen(b)' = Seen(b)
    <3> DEFINE r == [actor[s] EXCEPT !.at = "stamping",
                                            !.isNew = (deal.stage = "new")]
    <3>1. r \in ActorType /\ r.seen = Seen(s)
      BY <1>1 DEF ActorType, Seen
    <3>2. actor' = [actor EXCEPT ![s] = r]
      BY <1>1, <1>4 DEF ContactLooks
    <3> HIDE DEF r
    <3> QED BY <1>1, <3>1, <3>2 DEF Seen
  <2>2. DealIsKept
    BY <1>4, UnchangedDealIsKept DEF ContactLooks, TypeInv
  <2>3. BookingIsForGood' /\ \A b \in Actors : OnPlaybook(Seen(b))'
    BY <2>1, <2>2, ActorKeepsPosition DEF DealIsKept
  <2> QED BY <1>1, <1>4, <2>1, <2>2, <2>3
          DEF ContactLooks, TypeInv, TypeOK, DealIsKept, ActorType, LeftType
<1>5. CASE ContactStamps(s)
  <2>1. DealIsKept
    BY <1>1, <1>5 DEF ContactStamps, DealIsKept, Deal, OnPlaybook, Stages, OpenStages
  <2> QED BY <1>1, <1>5, <2>1, StepIsTyped DEF ContactStamps
<1>6. CASE ContactAdvances(s)
  <2>1. CASE IsLastStep(Seen(s))
    <3>1. DealIsKept
      BY <1>1, <1>6, <2>1, UnscheduledIsDeal DEF ContactAdvances, DealIsKept, OnPlaybook
    <3> QED BY <1>1, <1>6, <2>1, <3>1, StepIsTyped DEF ContactAdvances
  <2>2. CASE ~ IsLastStep(Seen(s))
    <3>1. \E stage \in {deal.stage, "nurturing"} :
              deal' = [deal EXCEPT !.step = Seen(s).step + 1, !.stage = stage]
      BY <1>6, <2>2 DEF ContactAdvances
    <3>2. DealIsKept
      BY <1>1, <2>2, <3>1, AdvanceIsOnPlaybook
         DEF DealIsKept, OnPlaybook, Deal, Stages, OpenStages
    <3> QED BY <1>1, <1>6, <2>2, <3>2, StepIsTyped DEF ContactAdvances
  <2> QED BY <2>1, <2>2
<1>7. CASE ReschedReads(s) \/ ReschedWrites(s)
  BY <1>1, <1>7, ReschedKeepsType
<1>8. CASE SenderDies(s)
  <2>1. left' \in LeftType
    BY <1>1, <1>8, SpendIsTyped DEF SenderDies
  <2>2. messages' \in Seq(Message)
    BY <1>1, <1>8, RowIsTyped DEF SenderDies
  <2> QED BY <1>1, <1>8, <2>1, <2>2, UnchangedDealIsKept, StepIsTyped DEF SenderDies, TypeInv
<1> QED BY <1>2, <1>3, <1>4, <1>5, <1>6, <1>7, <1>8 DEF SenderStep

LEMMA GuestKeepsType ==
    ASSUME TypeInv, ReplyReads \/ ReplyStamps \/ ReplyAnswered
    PROVE  TypeInv'
<1> USE DEF Places
<1>1. /\ messages \in Seq(Message) /\ left \in LeftType /\ "guest" \in Actors
      /\ deal \in Deal /\ OnPlaybook(deal)
  BY DEF TypeInv, TypeOK, LeftType, Actors, Others
<1>2. CASE ReplyReads
  <2>1. left' \in LeftType
    BY <1>1, <1>2, SpendIsTyped DEF ReplyReads
  <2> QED BY <1>1, <1>2, <2>1, UnchangedDealIsKept, StepIsTyped DEF ReplyReads, TypeInv
<1>3. CASE ReplyStamps
  <2>1. \E stage \in {deal.stage, "contacted"} :
            deal' = [Unscheduled(deal) EXCEPT !.lastWord = "guest", !.quiet = FALSE,
                                              !.stage = stage]
    BY <1>1, <1>3 DEF ReplyStamps, Unscheduled, Deal
  <2>2. DealIsKept
    BY <1>1, <2>1, UnscheduledIsDeal DEF DealIsKept, OnPlaybook, Deal, Stages, OpenStages
  <2> QED BY <1>1, <1>3, <2>2, StepIsTyped DEF ReplyStamps
<1>4. CASE ReplyAnswered
  <2>1. messages' \in Seq(Message)
    BY <1>1, <1>4, AddMessageIsTyped DEF ReplyAnswered, Routes, Hands
  <2> QED BY <1>1, <1>4, <2>1, UnchangedDealIsKept, StepIsTyped DEF ReplyAnswered, TypeInv
<1> QED BY <1>2, <1>3, <1>4

LEMMA OwnerKeepsType ==
    ASSUME TypeInv,
           \/ Books \/ Loses \/ Reopens \/ Sends
           \/ \E stage \in StagesSet : SetsStage(stage)
           \/ \E i \in DOMAIN messages : Approves(i) \/ CallsOff(i)
           \/ ReschedReads("owner") \/ ReschedWrites("owner")
    PROVE  TypeInv'
<1> USE DEF Places
<1>1. /\ messages \in Seq(Message) /\ left \in LeftType /\ "owner" \in Actors
      /\ deal \in Deal /\ OnPlaybook(deal)
      /\ Unscheduled(deal) \in Deal
  BY UnscheduledIsDeal DEF TypeInv, TypeOK, LeftType, Actors, Others
<1>2. CASE Books
  <2>1. PICK dates \in Dates \cup {<<deal.checkIn, deal.checkOut>>} :
            deal' = [Unscheduled(deal) EXCEPT
                         !.stage = "booked", !.sequence = "prearrival", !.step = 0,
                         !.checkIn = dates[1], !.checkOut = dates[2]]
    BY <1>2 DEF Books
  <2>2. /\ dates[1] \in {"unknown", "far", "near", "past"}
        /\ dates[2] \in {"unknown", "ahead", "past"}
    BY <1>1, CadenceAssumption DEF Deal
  <2>3. DealIsKept
    BY <1>1, <2>1, <2>2, StartIsOnPlaybook
       DEF DealIsKept, OnPlaybook, Deal, Stages, BookedStages, Sequence
  <2>4. left' \in LeftType
    BY <1>1, <1>2, SpendIsTyped DEF Books
  <2> QED BY <1>1, <1>2, <2>3, <2>4, StepIsTyped DEF Books
<1>3. CASE Loses \/ Reopens
  <2>1. DealIsKept
    BY <1>1, <1>3, UnscheduledIsDeal
       DEF Loses, Reopens, DealIsKept, OnPlaybook, Deal, Stages, OpenStages, Over
  <2>2. left' \in LeftType
    BY <1>1, <1>3, SpendIsTyped DEF Loses, Reopens
  <2> QED BY <1>1, <1>3, <2>1, <2>2, StepIsTyped DEF Loses, Reopens
<1>4. ASSUME NEW stage \in StagesSet, SetsStage(stage) PROVE TypeInv'
  <2>1. DealIsKept
    BY <1>1, <1>4, CadenceAssumption DEF SetsStage, DealIsKept, OnPlaybook, Deal
  <2>2. left' \in LeftType
    BY <1>1, <1>4, SpendIsTyped DEF SetsStage
  <2> QED BY <1>1, <1>4, <2>1, <2>2, StepIsTyped DEF SetsStage
<1>5. CASE Sends
  <2>1. deal.nextStep = NoStep \/ deal.nextStep \in PlaybookSteps
    BY <1>1 DEF Deal
  <2>2. messages' \in Seq(Message)
    BY <1>1, <1>5, <2>1, IntroExists, AddMessageIsTyped DEF Sends, Hands
  <2> QED BY <1>1, <1>5, <2>2, UnchangedDealIsKept, StepIsTyped DEF Sends, TypeInv
<1>6. ASSUME NEW i \in DOMAIN messages, Approves(i) \/ CallsOff(i) PROVE TypeInv'
  <2>1. messages' \in Seq(Message)
    BY <1>1, <1>6, StatusIsTyped DEF Approves, CallsOff
  <2> QED BY <1>1, <1>6, <2>1, UnchangedDealIsKept, StepIsTyped DEF Approves, CallsOff, TypeInv
<1>7. CASE ReschedReads("owner") \/ ReschedWrites("owner")
  BY <1>1, <1>7, ReschedKeepsType
<1> QED BY <1>2, <1>3, <1>4, <1>5, <1>6, <1>7

LEMMA CalendarKeepsType ==
    ASSUME TypeInv, CalendarReads \/ CalendarMoves \/ DaysGoBy
    PROVE  TypeInv'
<1> USE DEF Places
<1>1. /\ messages \in Seq(Message) /\ left \in LeftType /\ "calendar" \in Actors
      /\ deal \in Deal /\ OnPlaybook(deal) /\ Unscheduled(deal) \in Deal
      /\ actor \in [Actors -> ActorType] /\ Seen("calendar") \in Columns
  BY UnscheduledIsDeal DEF TypeInv, TypeOK, LeftType, Actors, Others, ActorType, Seen
<1>2. CASE CalendarReads
  <2>1. CalendarStage(deal) \in Stages
    BY <1>1 DEF CalendarStage, Deal, Stages, OpenStages, BookedStages, Over
  <2>2. /\ actor' \in [Actors -> ActorType]
        /\ \A b \in Actors : /\ Seen(b)'.sequence = Seen(b).sequence
                              /\ Seen(b)'.step = Seen(b).step
    <3> DEFINE s == [Seen("calendar") EXCEPT !.stage = CalendarStage(deal)]
               r == [actor["calendar"] EXCEPT !.at = "moving", !.seen = s]
    <3>1. /\ s \in Columns /\ s.sequence = Seen("calendar").sequence
          /\ s.step = Seen("calendar").step
      BY <1>1, <2>1 DEF Columns
    <3>2. actor["calendar"] \in ActorType
      BY <1>1
    <3>3. actor' = [actor EXCEPT !["calendar"] = r]
      BY <1>1, <1>2, <3>2 DEF CalendarReads, Seen, ActorType
    <3> HIDE DEF s
    <3>4. r \in ActorType /\ r.seen = s
      BY <3>1, <3>2 DEF ActorType
    <3> HIDE DEF r
    <3> QED BY <1>1, <3>1, <3>3, <3>4 DEF Seen
  <2>3. DealIsKept
    BY <1>2, UnchangedDealIsKept DEF CalendarReads, TypeInv
  <2>4. BookingIsForGood' /\ \A b \in Actors : OnPlaybook(Seen(b))'
    BY <2>2, <2>3, ActorKeepsPosition DEF DealIsKept
  <2> QED BY <1>1, <1>2, <2>2, <2>3, <2>4
          DEF CalendarReads, TypeInv, TypeOK, DealIsKept, ActorType, LeftType
<1>3. CASE CalendarMoves
  <2>1. Seen("calendar").stage \in Stages
    BY <1>1 DEF Columns
  <2>2. DealIsKept
    BY <1>1, <1>3, <2>1, UnscheduledIsDeal DEF CalendarMoves, DealIsKept, OnPlaybook, Deal
  <2> QED BY <1>1, <1>3, <2>2, StepIsTyped DEF CalendarMoves
<1>4. CASE DaysGoBy
  <2>1. DealIsKept
    BY <1>1, <1>4 DEF DaysGoBy, DealIsKept, OnPlaybook, Deal
  <2> QED BY <1>1, <1>4, <2>1, StepIsTyped DEF DaysGoBy
<1> QED BY <1>2, <1>3, <1>4

-----------------------------------------------------------------------------
LEMMA TypeInvHolds ==
    ASSUME LaterBookIsLonger
    PROVE  Spec => []TypeInv
<1>1. Init => TypeInv
  <2> SUFFICES ASSUME Init PROVE TypeInv
    OBVIOUS
  <2>1. PICK dates \in Dates : deal = OpenedDeal(dates[1], dates[2])
    BY DEF Init
  <2>2. /\ dates[1] \in {"unknown", "far", "near", "past"}
        /\ dates[2] \in {"unknown", "ahead", "past"}
    BY CadenceAssumption
  <2>3. deal \in Deal /\ OnPlaybook(deal)
    BY <2>1, <2>2, StartIsOnPlaybook
       DEF OpenedDeal, Deal, OnPlaybook, Stages, OpenStages, Sequence
  <2>4. messages \in Seq(Message)
    <3>1. CASE messages = <<>>
      BY <3>1
    <3>2. ASSUME NEW status \in Routes("intro"),
                 messages = <<[step |-> "intro", by |-> "autopilot", status |-> status,
                               known |-> 0]>>
          PROVE  messages \in Seq(Message)
      <4>1. [step |-> "intro", by |-> "autopilot", status |-> status,
             known |-> 0] \in Message
        BY IntroExists DEF Message, Routes, Hands
      <4> QED BY <3>2, <4>1
    <3> QED BY <3>1, <3>2 DEF Init
  <2>5. left \in LeftType
    BY CadenceAssumption DEF Init, LeftType
  <2>6. /\ actor \in [Actors -> ActorType]
        /\ \A a \in Actors : Seen(a) = Nothing
    BY DEF Init, Resting, Nothing, ActorType, Columns, Places, Stages, OpenStages,
           Sequence, Seen
  <2>7. \A a \in Actors : OnPlaybook(Seen(a)) /\ Seen(a).sequence = "presale"
    BY <2>6, StartIsOnPlaybook DEF Nothing, OnPlaybook, Sequence
  <2> QED BY <2>3, <2>4, <2>5, <2>6, <2>7
          DEF TypeInv, TypeOK, ActorType, LeftType, BookingIsForGood
<1>2. TypeInv /\ [Next]_vars => TypeInv'
  <2> SUFFICES ASSUME TypeInv, [Next]_vars PROVE TypeInv'
    OBVIOUS
  <2>1. CASE UNCHANGED vars
    BY <2>1 DEF vars, TypeInv, TypeOK, OnPlaybook, Seen, BookingIsForGood
  <2>2. CASE Next
    BY <2>2, AgentKeepsType, SenderKeepsType, GuestKeepsType, OwnerKeepsType,
       CalendarKeepsType DEF Next
  <2> QED BY <2>1, <2>2
<1> QED BY <1>1, <1>2, PTL DEF Spec

\* However the passes, the sender, the replies, the clicks and the calendar
\* interleave, and however stale what each has read, the deal stands on a
\* step that exists: run_due's guard against a position outside the playbook
\* (automation.py) has nothing to catch.
THEOREM TypeCorrect ==
    ASSUME LaterBookIsLonger
    PROVE  Spec => []TypeOK
<1>1. TypeInv => TypeOK
  BY DEF TypeInv
<1> QED BY <1>1, TypeInvHolds, PTL

-----------------------------------------------------------------------------
(* Follow-ups need contact.                                                *)

\* Until somebody books or a message reaches the guest, the deal stands on
\* its first step, unscheduled, and nobody holds a way to move it: no pass
\* can pick it, no sender has a contact to advance from, no request runs.
Untouched ==
    /\ deal.step = 0 /\ ~ deal.nextAt
    /\ \A a \in Agents : At(a, "rest")
    /\ At("owner", "rest")
    /\ \A s \in Senders :
           \E place \in {"rest", "landed", "recording", "stamping"} : At(s, place)

ContactInv ==
    /\ left.stages = 0
    /\ deal.contacted \/ deal.sequence = "prearrival" \/ Untouched

\* First contact and booking are never undone.
LEMMA ContactIsForGood ==
    ASSUME TypeOK, Next, deal.contacted \/ deal.sequence = "prearrival"
    PROVE  deal'.contacted \/ deal'.sequence = "prearrival"
<1> USE DEF Unscheduled, Rescheduled
<1>1. deal \in Deal
  BY DEF TypeOK
<1>2. CASE UNCHANGED deal
  BY <1>2
<1>3. ASSUME NEW a \in Agents, AgentErrs(a) \/ AgentAdvances(a)
      PROVE  deal'.contacted \/ deal'.sequence = "prearrival"
  BY <1>1, <1>3 DEF AgentErrs, AgentAdvances, Deal
<1>4. ASSUME NEW a \in Actors, ReschedWrites(a)
      PROVE  deal'.contacted \/ deal'.sequence = "prearrival"
  BY <1>1, <1>4 DEF ReschedWrites, Deal
<1>5. ASSUME NEW s \in Senders, ContactStamps(s) \/ ContactAdvances(s)
      PROVE  deal'.contacted \/ deal'.sequence = "prearrival"
  BY <1>1, <1>5 DEF ContactStamps, ContactAdvances, Deal
<1>6. CASE ReplyStamps
  BY <1>1, <1>6 DEF ReplyStamps, Deal
<1>7. CASE Books \/ Loses \/ Reopens \/ \E stage \in StagesSet : SetsStage(stage)
  BY <1>1, <1>7 DEF Books, Loses, Reopens, SetsStage, Deal
<1>8. CASE CalendarMoves \/ DaysGoBy
  BY <1>1, <1>8 DEF CalendarMoves, DaysGoBy, Deal
<1> QED
  <2>1. Agents \subseteq Actors /\ Senders \subseteq Actors /\ "owner" \in Actors
    BY DEF Actors, Others
  <2> QED BY <1>2, <1>3, <1>4, <1>5, <1>6, <1>7, <1>8, <2>1
          DEF Next, AgentStep, AgentPicks, AgentChecks, AgentDrafts, AgentSkips,
              AgentDies, ReschedReads, Lands, SenderDies, SenderStep, ContactReads, ContactLooks,
              ReplyReads, ReplyAnswered, Sends, Approves, CallsOff, CalendarReads

\* The landlord's free hand over the stage stays spent.
LEMMA StagesStaySpent ==
    ASSUME TypeOK, left.stages = 0, Next
    PROVE  left'.stages = 0 /\ ~ \E stage \in StagesSet : SetsStage(stage)
<1>1. left \in LeftType
  BY DEF TypeOK, LeftType
<1>2. ASSUME NEW stage \in StagesSet, SetsStage(stage) PROVE FALSE
  <2>1. left["stages"] > 0
    BY <1>2, Zenon DEF SetsStage, Spend
  <2> QED BY <2>1
<1>3. CASE UNCHANGED left
  BY <1>2, <1>3
<1>4. ASSUME NEW what \in {"clicks", "replies", "failures"}, Spend(what)
      PROVE  left'.stages = 0
  BY <1>1, <1>4 DEF Spend, LeftType
<1> QED BY <1>2, <1>3, <1>4
        DEF Next, AgentStep, AgentPicks, AgentChecks, AgentDrafts, AgentSkips,
            AgentErrs, AgentAdvances, AgentDies, ReschedReads, ReschedWrites, Lands,
            SenderDies, SenderStep, ContactReads, ContactLooks, ContactStamps,
            ContactAdvances, ReplyReads, ReplyStamps, ReplyAnswered, Books, Loses,
            Reopens, Sends, Approves, CallsOff, CalendarReads, CalendarMoves, DaysGoBy

LEMMA UntouchedNext ==
    ASSUME TypeOK, left.stages = 0, Untouched, Next
    PROVE  deal'.contacted \/ deal'.sequence = "prearrival" \/ Untouched'
<1>1. /\ deal \in Deal /\ actor \in [Actors -> ActorType]
      /\ \A b \in Others : b \notin Agents /\ b \notin Senders
      /\ \A a \in Agents : a \notin Senders
      /\ Agents \subseteq Actors /\ Senders \subseteq Actors /\ Others \subseteq Actors
  BY CadenceAssumption DEF TypeOK, ActorType, Actors, Others
<1>2. CASE UNCHANGED <<deal, actor>>
  BY <1>2 DEF Untouched, At
<1>3. ASSUME NEW a \in Agents PROVE ~ AgentStep(a) /\ ~ AgentDies(a)
  BY DEF Untouched, At, AgentStep, AgentPicks, AgentChecks, AgentDrafts, AgentSkips,
         AgentErrs, AgentAdvances, ReschedReads, ReschedWrites, AgentDies
<1>4. ~ (ReschedReads("owner") \/ ReschedWrites("owner"))
  BY DEF Untouched, At, ReschedReads, ReschedWrites
<1>5. ASSUME NEW s \in Senders,
             SenderStep(s) \/ SenderDies(s) \/ \E i \in DOMAIN messages : Lands(s, i)
      PROVE  deal'.contacted \/ Untouched'
  <2>1. CASE ContactStamps(s)
    BY <1>1, <2>1 DEF ContactStamps, Deal
  <2>2. ~ (ContactAdvances(s) \/ ReschedReads(s) \/ ReschedWrites(s))
    BY DEF Untouched, At, ContactAdvances, ReschedReads, ReschedWrites
  <2>3. CASE \/ ContactReads(s) \/ ContactLooks(s) \/ SenderDies(s)
             \/ \E i \in DOMAIN messages : Lands(s, i)
    <3>1. UNCHANGED deal /\ \A b \in Actors \ {s} : actor'[b] = actor[b]
      BY <1>1, <2>3 DEF ContactReads, ContactLooks, SenderDies, Lands, Reads, Rests
    <3>2. actor'[s].at \in {"rest", "landed", "recording", "stamping"}
      BY <1>1, <2>3 DEF ContactReads, ContactLooks, SenderDies, Lands, Reads, Rests,
                        Resting, ActorType
    <3> QED BY <1>1, <3>1, <3>2 DEF Untouched, At, Others
  <2> QED BY <1>5, <2>1, <2>2, <2>3 DEF SenderStep
<1>6. CASE \/ ReplyReads \/ ReplyStamps \/ ReplyAnswered
           \/ CalendarReads \/ CalendarMoves
  <2>1. deal'.step = 0 /\ ~ deal'.nextAt
    BY <1>1, <1>6 DEF ReplyReads, ReplyStamps, ReplyAnswered, CalendarReads,
                      CalendarMoves, Unscheduled, Untouched, Deal
  <2>2. \A b \in Actors \ {"guest", "calendar"} : actor'[b] = actor[b]
    BY <1>1, <1>6 DEF ReplyReads, ReplyStamps, ReplyAnswered, CalendarReads,
                      CalendarMoves, Reads, Turns, Rests
  <2> QED BY <1>1, <2>1, <2>2 DEF Untouched, At, Others
<1>7. CASE Books
  BY <1>1, <1>7 DEF Books, Unscheduled, Deal
<1>8. CASE Loses \/ Reopens \/ DaysGoBy
  BY <1>1, <1>8 DEF Loses, Reopens, DaysGoBy, Unscheduled, Untouched, At, Deal
<1> QED BY <1>2, <1>3, <1>4, <1>5, <1>6, <1>7, <1>8, StagesStaySpent
        DEF Next, Sends, Approves, CallsOff

\* A draft nobody approved, a reply, a lost or reopened deal or the calendar
\* never starts the follow-ups: somebody has to have written to the guest.
\* POST /deal/<id>/stage is left out: it puts an untouched deal on the agent's
\* schedule, and a pass that finds the intro waiting moves on without contact.
THEOREM FollowupsAfterContact ==
    ASSUME LaterBookIsLonger, StageClicks = 0
    PROVE  Spec => []FollowupsNeedContact
<1>1. Init => ContactInv
  BY CadenceAssumption
     DEF Init, ContactInv, Untouched, OpenedDeal, At, Resting, Actors, Others
<1>2. TypeOK /\ ContactInv /\ [Next]_vars => ContactInv'
  <2> SUFFICES ASSUME TypeOK, ContactInv, [Next]_vars PROVE ContactInv'
    OBVIOUS
  <2>1. CASE UNCHANGED vars
    BY <2>1 DEF vars, ContactInv, Untouched, At
  <2>2. CASE Next
    BY <2>2, StagesStaySpent, ContactIsForGood, UntouchedNext DEF ContactInv
  <2> QED BY <2>1, <2>2
<1>3. ContactInv => FollowupsNeedContact
  BY DEF ContactInv, Untouched, FollowupsNeedContact
<1> QED BY <1>1, <1>2, <1>3, TypeCorrect, PTL DEF Spec

-----------------------------------------------------------------------------
(* Stays have the playbook of stays.                                       *)

\* What the calendar is about to write counts as well.
StayInv ==
    /\ left.stages = 0
    /\ StayHasItsPlaybook
    /\ Seen("calendar").stage \in BookedStages => deal.sequence = "prearrival"

\* Only a booking and the calendar put a deal among the stays, and nobody
\* takes the playbook of a stay away.
LEMMA StaysKeepPlaybook ==
    ASSUME TypeOK, StayInv, Next
    PROVE  /\ StayHasItsPlaybook'
           /\ deal.sequence = "prearrival" => deal'.sequence = "prearrival"
<1> USE DEF StayHasItsPlaybook, Unscheduled, BookedStages
<1>1. /\ deal \in Deal /\ Agents \subseteq Actors /\ Senders \subseteq Actors
      /\ "owner" \in Actors
      /\ StayHasItsPlaybook
  BY DEF TypeOK, StayInv, Actors, Others
<1>2. CASE UNCHANGED deal
  BY <1>1, <1>2
<1>3. ASSUME NEW a \in Agents, AgentErrs(a) \/ AgentAdvances(a)
      PROVE  UNCHANGED <<deal.stage, deal.sequence>>
  BY <1>1, <1>3 DEF AgentErrs, AgentAdvances, Deal
<1>4. ASSUME NEW a \in Actors, ReschedWrites(a)
      PROVE  UNCHANGED <<deal.stage, deal.sequence>>
  BY <1>1, <1>4 DEF ReschedWrites, Rescheduled, Deal
<1>5. ASSUME \/ ReplyStamps \/ Loses \/ Reopens \/ DaysGoBy
             \/ \E s \in Senders : ContactStamps(s) \/ ContactAdvances(s)
      PROVE  /\ deal'.sequence = deal.sequence
             /\ deal'.stage \in {deal.stage, "contacted", "nurturing", "lost"}
  BY <1>1, <1>5 DEF ContactStamps, ContactAdvances, ReplyStamps, Loses, Reopens, DaysGoBy, Deal
<1>6. CASE Books
  BY <1>1, <1>6 DEF Books, Deal
<1>7. CASE CalendarMoves
  <2>1. deal'.sequence = deal.sequence /\ deal'.stage = Seen("calendar").stage
    BY <1>1, <1>7 DEF CalendarMoves, Deal
  <2> QED BY <2>1 DEF StayInv
<1>8. ~ \E stage \in StagesSet : SetsStage(stage)
  BY StagesStaySpent DEF StayInv
<1> QED BY <1>1, <1>2, <1>3, <1>4, <1>5, <1>6, <1>7, <1>8
        DEF Next, AgentStep, AgentPicks, AgentChecks, AgentDrafts, AgentSkips,
            AgentDies, ReschedReads, Lands, SenderDies, SenderStep, ContactReads,
            ContactLooks, ReplyReads, ReplyAnswered, Sends, Approves, CallsOff, CalendarReads

\* The calendar wants a deal among the stays only if it is there already.
LEMMA CalendarWantsStays ==
    ASSUME TypeOK, Next
    PROVE  Seen("calendar")'.stage \in BookedStages =>
               Seen("calendar").stage \in BookedStages \/ deal.stage \in BookedStages
<1>1. /\ "calendar" \notin Agents \cup Senders /\ "calendar" \in Actors
      /\ actor \in [Actors -> ActorType]
  BY CadenceAssumption DEF TypeOK, ActorType, Actors, Others
<1>2. CASE UNCHANGED actor
  BY <1>2 DEF Seen
<1>3. ASSUME NEW a \in Actors \ {"calendar"}, NEW place,
             Goes(a, place) \/ Reads(a, place) \/ Turns(a, place) \/ Rests(a)
      PROVE  Seen("calendar")' = Seen("calendar")
  BY <1>1, <1>3 DEF Goes, Reads, Turns, Rests, Seen
<1>4. ASSUME \/ \E a \in Agents : AgentPicks(a) \/ AgentChecks(a) \/ Drafted(a)
             \/ \E s \in Senders : \/ ContactLooks(s)
                                   \/ \E i \in DOMAIN messages : Lands(s, i)
      PROVE  Seen("calendar")' = Seen("calendar")
  BY <1>1, <1>4 DEF AgentPicks, AgentChecks, Drafted, Goes, ContactLooks, Lands, Seen
<1>5. CASE CalendarReads
  <2>1. Seen("calendar")'.stage = CalendarStage(deal)
    BY <1>1, <1>5 DEF CalendarReads, Seen, ActorType, Columns
  <2> QED BY <2>1 DEF CalendarStage, BookedStages
<1>6. CASE CalendarMoves
  BY <1>1, <1>6 DEF CalendarMoves, Rests, Resting, Nothing, Seen, BookedStages
<1> QED
  <2>1. \A a \in Agents \cup Senders \cup {"guest", "owner"} : a \in Actors \ {"calendar"}
    BY <1>1 DEF Actors, Others
  <2> QED BY <1>2, <1>3, <1>4, <1>5, <1>6, <2>1
          DEF Next, AgentStep, AgentDrafts, AgentSkips,
              AgentErrs, AgentAdvances, AgentDies, ReschedReads, ReschedWrites,
              SenderDies, SenderStep, ContactReads, ContactStamps, ContactAdvances,
              ReplyReads, ReplyStamps, ReplyAnswered, Books, Loses, Reopens, Sends,
              SetsStage, Approves, CallsOff, DaysGoBy

\* However stale what is written, a deal that counts as a stay is on the
\* playbook of stays.  POST /deal/<id>/stage is left out: it puts a deal among
\* the stays and leaves it the playbook it has.
THEOREM StaysHaveTheirPlaybook ==
    ASSUME LaterBookIsLonger, StageClicks = 0
    PROVE  Spec => []StayHasItsPlaybook
<1>1. Init => StayInv
  <2>1. Init => deal.stage = "new" /\ Seen("calendar").stage = "new" /\ left.stages = 0
    BY DEF Init, OpenedDeal, Seen, Resting, Nothing, Actors, Others
  <2> QED BY <2>1 DEF StayInv, StayHasItsPlaybook, BookedStages
<1>2. TypeOK /\ StayInv /\ [Next]_vars => StayInv'
  <2> SUFFICES ASSUME TypeOK, StayInv, [Next]_vars PROVE StayInv'
    OBVIOUS
  <2>1. CASE UNCHANGED vars
    BY <2>1 DEF vars, StayInv, StayHasItsPlaybook, Seen
  <2>2. CASE Next
    BY <2>2, StagesStaySpent, StaysKeepPlaybook, CalendarWantsStays
       DEF StayInv, StayHasItsPlaybook
  <2> QED BY <2>1, <2>2
<1>3. StayInv => StayHasItsPlaybook
  BY DEF StayInv
<1> QED BY <1>1, <1>2, <1>3, TypeCorrect, PTL DEF Spec

-----------------------------------------------------------------------------
(* One draft per step.                                                     *)

\* A draft of an agent's that has not been called off.
Stands(i) == /\ i \in DOMAIN messages
             /\ messages[i].by \in Agents /\ messages[i].status # Canceled

\* What a caller's look found in the outbox still holds while the model is
\* asked: of the step in hand there is no draft the look covered, nor one of
\* the caller's own.
CheckHolds ==
    \A a \in Agents : At(a, "drafting") =>
        /\ actor[a].row <= Len(messages)
        /\ \A i \in DOMAIN messages :
               Stands(i) /\ messages[i].step = CurrentStep(Seen(a)).id
                   => actor[a].row < i /\ messages[i].by # a

DraftInv == AgentDraftsOnce /\ CheckHolds

\* Draft j has been there before, and says what it said.
StoodBefore(j) == /\ Stands(j)
                  /\ messages'[j].step = messages[j].step
                  /\ messages'[j].by = messages[j].by
                  /\ messages'[j].known = messages[j].known

\* No draft appears, and nobody gets to the model.
LEMMA NothingDrafted ==
    ASSUME TypeOK, DraftInv, Len(messages') >= Len(messages),
           \A i \in DOMAIN messages' : Stands(i)' => StoodBefore(i),
           \A a \in Agents : At(a, "drafting")' => At(a, "drafting") /\ actor'[a] = actor[a],
           messages' \in Seq(Message)
    PROVE  DraftInv'
<1>1. AgentDraftsOnce'
  BY DEF DraftInv, AgentDraftsOnce, Stands, StoodBefore
<1>2. ASSUME NEW a \in Agents, At(a, "drafting")'
      PROVE  /\ actor'[a].row <= Len(messages')
             /\ \A i \in DOMAIN messages' :
                   Stands(i)' /\ messages'[i].step = CurrentStep(Seen(a))'.id
                       => actor'[a].row < i /\ messages'[i].by # a
  <2>1. At(a, "drafting") /\ actor'[a] = actor[a] /\ CurrentStep(Seen(a))' = CurrentStep(Seen(a))
    BY <1>2 DEF Seen, CurrentStep
  <2>2. /\ actor[a].row <= Len(messages)
        /\ \A i \in DOMAIN messages :
               Stands(i) /\ messages[i].step = CurrentStep(Seen(a)).id
                   => actor[a].row < i /\ messages[i].by # a
    BY <2>1 DEF DraftInv, CheckHolds
  <2>3. actor[a].row \in Nat /\ Len(messages) \in Nat /\ Len(messages') \in Nat
    BY DEF TypeOK, Actors
  <2>4. actor'[a].row <= Len(messages')
    BY <2>1, <2>2, <2>3
  <2>5. ASSUME NEW i \in DOMAIN messages', Stands(i)',
               messages'[i].step = CurrentStep(Seen(a))'.id
        PROVE  actor'[a].row < i /\ messages'[i].by # a
    BY <2>1, <2>2, <2>5 DEF StoodBefore, Stands
  <2> QED BY <2>4, <2>5
<1>3. CheckHolds'
  BY <1>2 DEF CheckHolds
<1> QED BY <1>1, <1>3 DEF DraftInv

\* A message of somebody else's.
LEMMA OthersAddNoDraft ==
    ASSUME messages \in Seq(Message), NEW step, NEW by, NEW status, NEW known,
           AddMessage(step, by, status, known), by \notin Agents
    PROVE  /\ \A i \in DOMAIN messages' : Stands(i)' => StoodBefore(i)
           /\ Len(messages') >= Len(messages)
BY DEF AddMessage, Stands, StoodBefore

\* A message changes its status, and was not called off before.
LEMMA StatusAddsNoDraft ==
    ASSUME messages \in Seq(Message), NEW i \in DOMAIN messages, NEW status,
           messages' = [messages EXCEPT ![i].status = status],
           messages[i].status # Canceled
    PROVE  /\ \A j \in DOMAIN messages' : Stands(j)' => StoodBefore(j)
           /\ Len(messages') >= Len(messages)
<1>1. /\ DOMAIN messages' = DOMAIN messages /\ Len(messages') = Len(messages)
      /\ Len(messages) \in Nat
      /\ messages[i] \in Message
      /\ \A j \in DOMAIN messages : j # i => messages'[j] = messages[j]
      /\ messages'[i] = [messages[i] EXCEPT !.status = status]
  OBVIOUS
<1>2. /\ messages'[i].by = messages[i].by /\ messages'[i].step = messages[i].step
      /\ messages'[i].known = messages[i].known
  BY <1>1 DEF Message
<1>3. ASSUME NEW j \in DOMAIN messages', Stands(j)' PROVE StoodBefore(j)
  BY <1>1, <1>2, <1>3 DEF Stands, StoodBefore
<1> QED BY <1>1, <1>3

\* Nobody but agent a moves while a does.
LEMMA AgentMovesAlone ==
    ASSUME TypeOK, NEW a \in Agents, AgentStep(a) \/ AgentDies(a)
    PROVE  /\ \A b \in Actors \ {a} : actor'[b] = actor[b]
           /\ actor' \in [Actors -> ActorType] => actor'[a] \in ActorType
<1>1. actor \in [Actors -> ActorType] /\ Agents \subseteq Actors
  BY DEF TypeOK, ActorType, Actors
<1> QED BY <1>1
    DEF AgentStep, AgentPicks, AgentChecks, AgentDrafts, AgentSkips, AgentErrs,
        AgentAdvances, ReschedReads, ReschedWrites, AgentDies, Drafted, Goes, Reads,
        Turns, Rests

LEMMA DraftNext ==
    ASSUME TypeOK, TypeOK', DraftInv, Next
    PROVE  DraftInv'
<1>1. /\ messages \in Seq(Message) /\ messages' \in Seq(Message)
      /\ actor \in [Actors -> ActorType]
      /\ Agents \subseteq Actors /\ Senders \subseteq Actors /\ Others \subseteq Actors
      /\ \A a \in Agents : a \notin Others \cup Senders \cup Hands
      /\ Len(messages) \in Nat
  BY CadenceAssumption DEF TypeOK, ActorType, Actors
<1> DEFINE Same   == /\ \A i \in DOMAIN messages' : Stands(i)' => StoodBefore(i)
                     /\ Len(messages') >= Len(messages)
           NoneIn == \A a \in Agents : At(a, "drafting")' =>
                                          At(a, "drafting") /\ actor'[a] = actor[a]
<1>2. UNCHANGED messages => Same
  BY <1>1 DEF Stands, StoodBefore
<1>3. UNCHANGED actor => NoneIn
  BY DEF At
<1>4. ASSUME NEW b \in Others \cup Senders,
             \A a \in Actors \ {b} : actor'[a] = actor[a]
      PROVE  NoneIn
  BY <1>1, <1>4 DEF At
<1>5. Same /\ NoneIn => DraftInv'
  BY <1>1, NothingDrafted
<1> HIDE DEF Same, NoneIn
<1>6. ASSUME NEW a \in Agents, AgentStep(a) \/ AgentDies(a) PROVE DraftInv'
  <2>1. \A b \in Agents \ {a} : actor'[b] = actor[b]
    BY <1>1, <1>6, AgentMovesAlone
  <2>2. CASE AgentChecks(a) /\ ~ HasOpenStep(CurrentStep(Seen(a)).id)
    <3>1. /\ actor'[a].seen = actor[a].seen /\ actor'[a].row = Len(messages)
          /\ messages' = messages
      BY <1>1, <2>2 DEF AgentChecks, ActorType
    <3>2. CurrentStep(Seen(a))' = CurrentStep(Seen(a))
      BY <3>1 DEF CurrentStep, Seen
    <3>3. \A i \in DOMAIN messages : Stands(i) => messages[i].step # CurrentStep(Seen(a)).id
      BY <2>2 DEF HasOpenStep, Stands
    <3>4. ASSUME NEW b \in Agents, At(b, "drafting")'
          PROVE  /\ actor'[b].row <= Len(messages')
                 /\ \A i \in DOMAIN messages' :
                       Stands(i)' /\ messages'[i].step = CurrentStep(Seen(b))'.id
                           => actor'[b].row < i /\ messages'[i].by # b
      <4>1. CASE b = a
        BY <1>1, <3>1, <3>2, <3>3, <4>1 DEF Stands
      <4>2. CASE b # a
        <5>1. actor'[b] = actor[b] /\ CurrentStep(Seen(b))' = CurrentStep(Seen(b))
          BY <2>1, <4>2 DEF CurrentStep, Seen
        <5> QED BY <3>1, <3>4, <5>1 DEF DraftInv, CheckHolds, At, Stands
      <4> QED BY <4>1, <4>2
    <3>5. CheckHolds'
      BY <3>4 DEF CheckHolds
    <3> QED BY <3>1, <3>5 DEF DraftInv, AgentDraftsOnce
  <2>3. CASE AgentDrafts(a)
    <3> DEFINE new(status) == [step |-> CurrentStep(Seen(a)).id, by |-> a,
                               status |-> status, known |-> actor[a].row]
    <3>1. PICK status \in Routes(CurrentStep(Seen(a)).id) :
              messages' = Append(messages, new(status))
      BY <2>3 DEF AgentDrafts, AddMessage
    <3>2. /\ Len(messages') = Len(messages) + 1
          /\ \A i \in DOMAIN messages : messages'[i] = messages[i]
          /\ messages'[Len(messages) + 1] = new(status)
          /\ DOMAIN messages = 1..Len(messages)
          /\ DOMAIN messages' = 1..(Len(messages) + 1)
      BY <1>1, <3>1
    <3>3. ~ At(a, "drafting")'
      BY <1>1, <2>3 DEF AgentDrafts, Drafted, At, ActorType
    <3>4. \A i \in DOMAIN messages :
              Stands(i) /\ messages[i].step = CurrentStep(Seen(a)).id
                  => actor[a].row < i /\ messages[i].by # a
      BY <2>3 DEF AgentDrafts, DraftInv, CheckHolds
    <3>5. AgentDraftsOnce'
      <4> SUFFICES ASSUME NEW i \in DOMAIN messages', NEW j \in DOMAIN messages',
                          i < j, Stands(i)', Stands(j)',
                          messages'[i].step = messages'[j].step
                   PROVE  messages'[i].by # messages'[j].by /\ messages'[j].known < i
        BY DEF AgentDraftsOnce, Stands
      <4>1. i \in DOMAIN messages /\ messages'[i] = messages[i] /\ Stands(i)
        BY <1>1, <3>2 DEF Stands
      <4>2. CASE j \in DOMAIN messages
        BY <3>2, <4>1, <4>2 DEF Stands, DraftInv, AgentDraftsOnce
      <4>3. CASE j = Len(messages) + 1
        BY <3>2, <3>4, <4>1, <4>3
      <4> QED BY <1>1, <3>2, <4>2, <4>3
    <3>6. ASSUME NEW b \in Agents, At(b, "drafting")'
          PROVE  /\ actor'[b].row <= Len(messages')
                 /\ \A i \in DOMAIN messages' :
                       Stands(i)' /\ messages'[i].step = CurrentStep(Seen(b))'.id
                           => actor'[b].row < i /\ messages'[i].by # b
      <4>1. b # a /\ actor'[b] = actor[b] /\ CurrentStep(Seen(b))' = CurrentStep(Seen(b))
        BY <2>1, <3>3, <3>6 DEF CurrentStep, Seen
      <4>2. /\ actor[b].row <= Len(messages) /\ actor[b].row \in Nat
            /\ \A i \in DOMAIN messages :
                   Stands(i) /\ messages[i].step = CurrentStep(Seen(b)).id
                       => actor[b].row < i /\ messages[i].by # b
        BY <1>1, <3>6, <4>1 DEF DraftInv, CheckHolds, At, ActorType
      <4>3. actor'[b].row <= Len(messages')
        BY <1>1, <3>2, <4>1, <4>2
      <4>4. ASSUME NEW i \in DOMAIN messages', Stands(i)',
                   messages'[i].step = CurrentStep(Seen(b))'.id
            PROVE  actor'[b].row < i /\ messages'[i].by # b
        <5>1. CASE i \in DOMAIN messages
          BY <3>2, <4>1, <4>2, <4>4, <5>1 DEF Stands
        <5>2. CASE i = Len(messages) + 1
          BY <1>1, <3>2, <4>1, <4>2, <5>2
        <5> QED BY <1>1, <3>2, <5>1, <5>2
      <4> QED BY <4>3, <4>4
    <3>7. CheckHolds'
      BY <3>6 DEF CheckHolds
    <3> QED BY <3>5, <3>7 DEF DraftInv
  <2>4. CASE ~ (AgentChecks(a) /\ ~ HasOpenStep(CurrentStep(Seen(a)).id)) /\ ~ AgentDrafts(a)
    <3>1. UNCHANGED messages /\ actor'[a].at # "drafting"
      <4>1. CASE AgentChecks(a)
        BY <1>1, <2>4, <4>1 DEF AgentChecks, Goes, ActorType
      <4>2. CASE AgentPicks(a)
        BY <1>1, <4>2 DEF AgentPicks, ActorType
      <4>5. CASE AgentSkips(a) \/ AgentErrs(a)
        BY <1>1, <4>5 DEF AgentSkips, AgentErrs, Drafted, Rests, Resting, ActorType
      <4>3. CASE AgentAdvances(a) \/ AgentDies(a)
        <5>1. UNCHANGED messages /\ (Turns(a, "reschedule") \/ Rests(a))
          BY <4>3, Zenon DEF AgentAdvances, AgentDies
        <5>2. CASE Rests(a)
          BY <1>1, <5>1, <5>2 DEF Rests, Resting
        <5>3. CASE Turns(a, "reschedule")
          <6>1. actor'[a] = [Resting EXCEPT !.at = "reschedule", !.row = actor[a].row]
            BY <1>1, <5>3 DEF Turns
          <6> QED BY <5>1, <6>1 DEF Resting
        <5> QED BY <5>1, <5>2, <5>3
      <4>4. CASE ReschedReads(a) \/ ReschedWrites(a)
        BY <1>1, <4>4 DEF ReschedReads, ReschedWrites, Reads, Rests, Resting, ActorType
      <4> QED BY <1>6, <2>4, <4>1, <4>2, <4>3, <4>4, <4>5 DEF AgentStep
    <3>2. NoneIn
      BY <2>1, <3>1 DEF NoneIn, At
    <3> QED BY <1>2, <1>5, <3>1, <3>2
  <2> QED BY <2>2, <2>3, <2>4
<1>7. ASSUME NEW i \in DOMAIN messages,
             Approves(i) \/ CallsOff(i) \/ \E s \in Senders : Lands(s, i)
      PROVE  DraftInv'
  <2>1. Same
    BY <1>1, <1>7, StatusAddsNoDraft
       DEF Same, Lands, Approves, CallsOff, Waiting, Queued, Canceled
  <2>2. NoneIn
    BY <1>1, <1>3, <1>4, <1>7 DEF Lands, Approves, CallsOff
  <2> QED BY <1>5, <2>1, <2>2
<1>8. CASE Sends \/ ReplyAnswered
  <2>1. Same
    <3>1. \A hand \in Hands : hand \notin Agents
      BY <1>1
    <3> QED BY <1>1, <1>2, <1>8, <3>1, OthersAddNoDraft DEF Same, Sends, ReplyAnswered, Hands
  <2>2. NoneIn
    BY <1>1, <1>3, <1>4, <1>8 DEF Sends, ReplyAnswered, Rests, Others
  <2> QED BY <1>5, <2>1, <2>2
<1>9. ASSUME NEW s \in Senders \cup {"owner"},
             \/ s \in Senders /\ (SenderStep(s) \/ SenderDies(s))
             \/ ReschedReads(s) \/ ReschedWrites(s)
      PROVE  DraftInv'
  <2>1. Same
    <3>1. CASE SenderDies(s)
      <4>1. CASE actor[s].row \in DOMAIN messages
        BY <1>1, <3>1, <4>1, StatusAddsNoDraft DEF Same, SenderDies, Sent, Canceled
      <4>2. CASE actor[s].row \notin DOMAIN messages
        <5>1. messages' = messages
          BY <1>1, <3>1, <4>2 DEF SenderDies
        <5> QED BY <1>2, <5>1
      <4> QED BY <4>1, <4>2
    <3>2. CASE ~ SenderDies(s)
      <4>1. UNCHANGED messages
        BY <1>9, <3>2 DEF SenderStep, ContactReads, ContactLooks, ContactStamps,
                          ContactAdvances, ReschedReads, ReschedWrites
      <4> QED BY <1>2, <4>1
    <3> QED BY <3>1, <3>2
  <2>2. \A a \in Actors \ {s} : actor'[a] = actor[a]
    BY <1>1, <1>9 DEF SenderStep, SenderDies, ContactReads, ContactLooks, ContactStamps,
       ContactAdvances, ReschedReads, ReschedWrites, Goes, Reads, Turns, Rests
  <2> QED BY <1>4, <1>5, <2>1, <2>2 DEF Others
<1>10. CASE \/ ReplyReads \/ ReplyStamps \/ CalendarReads \/ CalendarMoves
            \/ Books \/ Loses \/ Reopens \/ DaysGoBy
            \/ \E stage \in StagesSet : SetsStage(stage)
  <2>1. UNCHANGED messages
    BY <1>10 DEF ReplyReads, ReplyStamps, CalendarReads, CalendarMoves, Books, Loses,
                 Reopens, DaysGoBy, SetsStage
  <2>2. \E b \in Others : \A a \in Actors \ {b} : actor'[a] = actor[a]
    BY <1>1, <1>10 DEF ReplyReads, ReplyStamps, CalendarReads, CalendarMoves, Books,
       Loses, Reopens, DaysGoBy, SetsStage, Reads, Turns, Rests, Others
  <2> QED BY <1>2, <1>4, <1>5, <2>1, <2>2
<1> QED BY <1>6, <1>7, <1>8, <1>9, <1>10 DEF Next

\* automation.py:10: killed anywhere, retried after any error and run again at
\* any time, a caller of run_due never writes a follow-up it has written; and
\* of any two callers the second writes it only if it had looked before the
\* first wrote.  What the landlord calls off may be written once more.
THEOREM DraftsAreWrittenOnce ==
    ASSUME LaterBookIsLonger
    PROVE  Spec => []AgentDraftsOnce
<1>1. Init => DraftInv
  BY CadenceAssumption
     DEF Init, DraftInv, AgentDraftsOnce, CheckHolds, At, Resting, Actors, Hands
<1>2. TypeOK /\ TypeOK' /\ DraftInv /\ [Next]_vars => DraftInv'
  <2> SUFFICES ASSUME TypeOK, TypeOK', DraftInv, [Next]_vars PROVE DraftInv'
    OBVIOUS
  <2>1. CASE UNCHANGED vars
    BY <2>1 DEF vars, DraftInv, AgentDraftsOnce, CheckHolds, Stands, At, Seen, CurrentStep
  <2>2. CASE Next
    BY <2>2, DraftNext
  <2> QED BY <2>1, <2>2
<1>3. DraftInv => AgentDraftsOnce
  BY DEF DraftInv
<1> QED BY <1>1, <1>2, <1>3, TypeCorrect, PTL DEF Spec
=============================================================================
