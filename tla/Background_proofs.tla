-------------------------- MODULE Background_proofs --------------------------
(***************************************************************************)
(* Theorems about Background, for every set of hosts, tenants, messages    *)
(* and check times, and every number of days and faults.                   *)
(***************************************************************************)
EXTENDS Background, Greatest

Stamps == Days \X Hours
Marks  == Stamps \cup {Never}

Browser == {Free} \cup ({"send"} \X Messages) \cup ({"scrape", "drafted"} \X Tenants)
Thread  == [at : {"off", "looking", "delivering", "leaving"}, idle : Nat]
Pass    == [at : {"rest", "job", "checks", "digests", "delivering", "sending"},
            todo : SUBSET Tenants, for : Marks, any : BOOLEAN]

\* The parts of the type invariant.
TimeType == time \in Stamps /\ (Day = LastDay => Hour = 0)
SentType == /\ outbox \in [Messages -> {"none", "queued", "sending", "settled"}]
            /\ slot \in [Hosts -> Browser]
LoopType == /\ draining \in [Hosts -> BOOLEAN]
            /\ loop \in [Hosts -> Thread]
PassType == pass \in [Hosts -> Pass]
MarkType == /\ checked \in [Tenants -> Marks]
            /\ digested \in [Tenants -> Marks]
            /\ starts \in [Observed -> [Tenants -> [Stamps -> Nat]]]
            /\ mails \in [Observed -> [Tenants -> [Days -> Nat]]]
RestType == due \subseteq Messages /\ request \in [Hosts -> {"rest", "waking"}]

TypeInv == TimeType /\ SentType /\ LoopType /\ PassType /\ MarkType /\ RestType

\* The latch is set while the thread is there.
Latched == \A h \in Hosts : loop[h].at # "off" => draining[h]

\* A message that a browser has is `sending`, and no other browser has it.
SendsAreHeld ==
    \A h \in Hosts, m \in Messages : slot[h] = <<"send", m>> =>
        /\ outbox[m] = "sending"
        /\ \A g \in Hosts : slot[g] = <<"send", m>> => g = h

\* The order of stamps.
UpTo(x, y) == x[1] < y[1] \/ (x[1] = y[1] /\ x[2] <= y[2])

\* A mark is not ahead of the clock, and covers whatever it was made for.
MarksArePast ==
    \A t \in Tenants : UpTo(checked[t], time) /\ UpTo(digested[t], time)
StartsAreCovered ==
    \A h \in Observed, t \in Tenants, s \in Stamps :
        starts[h][t][s] > 0 => UpTo(s, checked[t])
MailsAreCovered ==
    \A h \in Observed, t \in Tenants, d \in Days :
        mails[h][t][d] > 0 => UpTo(<<d, DigestTime>>, digested[t])

\* What a pass still owes it has not done before, though the clock may have
\* gone on since it looked and another host may have marked the slot.
OwedChecks(h) ==
    AtPass(h, "checks") => \A t \in pass[h].todo :
        /\ pass[h].for \in Stamps /\ UpTo(pass[h].for, time)
        /\ h \in Observed => starts[h][t][pass[h].for] = 0
OwedDigests(h) ==
    AtPass(h, "digests") => \A t \in pass[h].todo :
        /\ pass[h].for \in Stamps /\ UpTo(pass[h].for, time)
        /\ pass[h].for[2] = DigestTime
        /\ h \in Observed => mails[h][t][pass[h].for[1]] = 0
OwedIsUndone == \A h \in Hosts : OwedChecks(h) /\ OwedDigests(h)

SlotInv == /\ MarksArePast /\ StartsAreCovered /\ MailsAreCovered
           /\ OwedIsUndone /\ OncePerSlot

-----------------------------------------------------------------------------
(* Lemmas about stamps.                                                    *)

LEMMA StampsAreNumbers ==
    /\ \A x \in Marks : x[1] \in Nat /\ x[2] \in Nat
    /\ \A x \in Stamps : x[1] \in Days /\ x[2] \in Hours
BY BackgroundAssumption DEF Marks, Stamps, Never, Days, Hours

LEMMA OrderOfStamps ==
    /\ \A x \in Marks : UpTo(x, x)
    /\ \A x, y, z \in Marks : UpTo(x, y) /\ UpTo(y, z) => UpTo(x, z)
BY StampsAreNumbers DEF UpTo

\* The slot a pass looks at is one of today's, and no later than now.
LEMMA SlotOfPass ==
    ASSUME TimeType
    PROVE  LET s == <<Day, Max(Passed \cup {0})>>
           IN  s \in Stamps /\ UpTo(s, time)
<1>1. Day \in Days /\ Hour \in Hours /\ Day \in Nat /\ Hour \in Nat
  BY StampsAreNumbers DEF TimeType, Day, Hour, Marks
<1>2. Passed \cup {0} \in SUBSET (0 .. Hour)
  <2>1. ASSUME NEW s \in Passed PROVE s \in 0 .. Hour
    BY <1>1, BackgroundAssumption DEF Passed
  <2>2. 0 \in 0 .. Hour
    BY <1>1
  <2> QED BY <2>1, <2>2
<1>3. Max(Passed \cup {0}) \in 0 .. Hour
  BY <1>1, <1>2, MaxExists
<1> DEFINE m == Max(Passed \cup {0})
<1>4. m \in Hours /\ m <= Hour /\ m \in Nat
  BY <1>1, <1>3, BackgroundAssumption DEF Hours
<1> HIDE DEF m
<1>5. <<Day, m>> \in Stamps /\ UpTo(<<Day, m>>, time)
  BY <1>1, <1>4 DEF Stamps, UpTo, Day, Hour
<1> QED BY <1>5 DEF m

\* An owed slot is later than its mark.
LEMMA UncoveredIsLater ==
    ASSUME TimeType, NEW x \in Marks, UpTo(x, time), NEW n \in Hours, ~ Covers(x, n)
    PROVE  ~ UpTo(<<Day, n>>, x)
BY StampsAreNumbers, BackgroundAssumption
   DEF TimeType, UpTo, Covers, Day, Hours, Marks

\* Time goes on.
LEMMA ClockGoesOn ==
    ASSUME TimeType, Tick
    PROVE  TimeType' /\ UpTo(time, time')
<1>1. /\ time = <<Day, Hour>> /\ Day \in 1 .. LastDay /\ Hour \in 0 .. LastHour
  BY DEF TimeType, Day, Hour, Stamps, Days, Hours
<1>2. CASE Hour < LastHour
  <2>1. time' = <<Day, Hour + 1>> /\ Day < LastDay
    BY <1>1, <1>2, BackgroundAssumption DEF Tick, TimeType
  <2> QED BY <1>1, <1>2, <2>1, BackgroundAssumption DEF TimeType, UpTo, Day, Hour, Stamps, Days, Hours
<1>3. CASE ~ (Hour < LastHour)
  <2>1. time' = <<Day + 1, 0>> /\ Day < LastDay
    BY <1>1, <1>3, BackgroundAssumption DEF Tick, TimeType
  <2> QED BY <1>1, <2>1, BackgroundAssumption DEF TimeType, UpTo, Day, Hour, Stamps, Days, Hours
<1> QED BY <1>2, <1>3

-----------------------------------------------------------------------------
(* Every variable keeps its shape.                                         *)

LEMMA InitShape == Init => TypeInv /\ Latched /\ SendsAreHeld
<1> SUFFICES ASSUME Init PROVE TypeInv /\ Latched /\ SendsAreHeld
  OBVIOUS
<1>1. TimeType
  BY BackgroundAssumption DEF Init, TimeType, Stamps, Days, Hours, Day, Hour
<1>2. SentType /\ LoopType /\ RestType
  BY DEF Init, SentType, LoopType, RestType, Browser, Thread, NoLoop, Free
<1>3. NoPass \in Pass
  BY DEF NoPass, Pass, Marks, Never
<1>4. PassType
  BY <1>3 DEF Init, PassType
<1>5. MarkType
  BY DEF Init, MarkType, Marks, Stamps
<1>6. Latched
  BY DEF Init, Latched, NoLoop
<1>7. SendsAreHeld
  BY DEF Init, SendsAreHeld, Free
<1> QED BY <1>1, <1>2, <1>4, <1>5, <1>6, <1>7 DEF TypeInv

\* Only the clock moves the clock.
LEMMA TimeKept == TimeType /\ [Next]_vars => TimeType' /\ (time' = time \/ Tick)
<1> SUFFICES ASSUME TimeType, [Next]_vars PROVE TimeType' /\ (time' = time \/ Tick)
  OBVIOUS
<1>1. time' = time \/ Tick
  BY DEF Next, vars, LoopStep, LoopRound, LoopSettles, LoopEnds, LoopRaises, PassStep, PassBegins,
         Checks, ChecksEnd, Digests, DigestsEnd, PassSends, PassSettles, ScrapeEnds, Crash,
         Queues, Wakes, BoardPolls, ComesDue, ScrapeQueues, ScrapeWakes, JobQueues, JobWakes
<1> QED BY <1>1, ClockGoesOn DEF TimeType, Day, Hour

\* Every way a message and the browsers change.
LEMMA SentSteps ==
    ASSUME [Next]_vars
    PROVE  \/ UNCHANGED <<outbox, slot>>
           \/ \E h \in Hosts, m \in Messages : Dispatches(h, m)
           \/ \E h \in Hosts : Settles(h)
           \/ \E m \in Messages : Enqueues(m) /\ UNCHANGED slot
           \/ \E h \in Hosts, m \in Messages :
                  /\ slot[h] = <<"scrape", TenantOf[m]>> /\ Enqueues(m)
                  /\ slot' = [slot EXCEPT ![h] = <<"drafted", TenantOf[m]>>]
           \/ \E h \in Hosts, t \in Tenants :
                  /\ slot[h] = Free /\ slot' = [slot EXCEPT ![h] = <<"scrape", t>>]
                  /\ UNCHANGED outbox
           \/ \E h \in Hosts :
                  /\ slot[h][1] = "drafted"
                  /\ slot' = [slot EXCEPT ![h] = <<"scrape", slot[h][2]>>]
                  /\ UNCHANGED outbox
           \/ \E h \in Hosts :
                  /\ slot[h][1] = "scrape" /\ slot' = [slot EXCEPT ![h] = Free]
                  /\ UNCHANGED outbox
           \/ \E h \in Hosts : Crash(h)
<1>1. CASE UNCHANGED vars
  BY <1>1 DEF vars
<1>2. ASSUME NEW h \in Hosts,
             LoopStep(h) \/ LoopRaises(h) \/ ScrapeEnds(h) \/ ScrapeWakes(h) \/ Crash(h)
      PROVE  \/ UNCHANGED <<outbox, slot>>
             \/ \E m \in Messages : Dispatches(h, m)
             \/ Settles(h)
             \/ /\ slot[h][1] = "scrape" /\ slot' = [slot EXCEPT ![h] = Free]
                /\ UNCHANGED outbox
             \/ /\ slot[h][1] = "drafted"
                /\ slot' = [slot EXCEPT ![h] = <<"scrape", slot[h][2]>>]
                /\ UNCHANGED outbox
             \/ Crash(h)
  BY <1>2 DEF LoopStep, LoopRound, LoopSettles, LoopEnds, LoopRaises, ScrapeEnds, ScrapeWakes
<1>3. ASSUME NEW h \in Hosts, PassStep(h)
      PROVE  \/ UNCHANGED <<outbox, slot>>
             \/ \E m \in Messages : Dispatches(h, m)
             \/ Settles(h)
             \/ \E t \in Tenants :
                    /\ slot[h] = Free /\ slot' = [slot EXCEPT ![h] = <<"scrape", t>>]
                    /\ UNCHANGED outbox
  BY <1>3 DEF PassStep, PassBegins, Checks, StartsScrape, ChecksEnd, Digests, DigestsEnd,
              PassSends, PassSettles
<1>4. ASSUME NEW h \in Hosts, NEW m \in Messages, ScrapeQueues(h, m)
      PROVE  /\ slot[h] = <<"scrape", TenantOf[m]>> /\ Enqueues(m)
             /\ slot' = [slot EXCEPT ![h] = <<"drafted", TenantOf[m]>>]
  BY <1>4 DEF ScrapeQueues
<1>5. ASSUME NEW h \in Dashboards,
             Wakes(h) \/ BoardPolls(h) \/ \E m \in Messages : Queues(h, m)
      PROVE  \/ UNCHANGED <<outbox, slot>>
             \/ \E m \in Messages : Enqueues(m) /\ UNCHANGED slot
  BY <1>5 DEF Wakes, BoardPolls, Queues
<1>6. ASSUME NEW h \in WorkerHosts, JobWakes(h) \/ \E m \in Messages : JobQueues(h, m)
      PROVE  \/ UNCHANGED <<outbox, slot>>
             \/ \E m \in Messages : Enqueues(m) /\ UNCHANGED slot
  BY <1>6 DEF JobWakes, JobQueues
<1>7. ASSUME (\E m \in Messages : ComesDue(m)) \/ Tick
      PROVE  UNCHANGED <<outbox, slot>>
  BY <1>7 DEF ComesDue, Tick
<1> QED BY <1>1, <1>2, <1>3, <1>4, <1>5, <1>6, <1>7 DEF Next

LEMMA FreeIsFree == Free[1] = "free"
BY DEF Free

\* What a browser may be doing.
LEMMA BrowserIs ==
    /\ \A b \in Browser : b[1] = "send" => \E m \in Messages : b = <<"send", m>>
    /\ Free \in Browser /\ \A m \in Messages : Free # <<"send", m>>
    /\ \A m \in Messages : <<"send", m>> \in Browser
    /\ \A t \in Tenants : <<"scrape", t>> \in Browser /\ <<"drafted", t>> \in Browser
    /\ \A t, m : <<"scrape", t>> # <<"send", m>> /\ <<"drafted", t>> # <<"send", m>>
    /\ \A b \in Browser : b[1] = "drafted" => b[2] \in Tenants
    /\ \A m, n \in Messages : <<"send", m>> = <<"send", n>> => m = n
<1>1. ASSUME NEW b \in Browser, b[1] = "send" PROVE \E m \in Messages : b = <<"send", m>>
  <2>1. b # Free
    <3>1. Free[1] = "free"
      BY DEF Free
    <3> QED BY <1>1, <3>1
  <2>2. b \notin {"scrape", "drafted"} \X Tenants
    BY <1>1
  <2>3. b \in {"send"} \X Messages
    BY <2>1, <2>2 DEF Browser
  <2> QED BY <2>3
<1>2. Free \in Browser /\ \A m \in Messages : Free # <<"send", m>>
  BY DEF Browser, Free
<1>3. /\ \A m \in Messages : <<"send", m>> \in Browser
      /\ \A t \in Tenants : <<"scrape", t>> \in Browser /\ <<"drafted", t>> \in Browser
  BY DEF Browser
<1>4. /\ \A t, m : <<"scrape", t>> # <<"send", m>> /\ <<"drafted", t>> # <<"send", m>>
      /\ \A m, n \in Messages : <<"send", m>> = <<"send", n>> => m = n
  OBVIOUS
<1>5. ASSUME NEW b \in Browser, b[1] = "drafted" PROVE b[2] \in Tenants
  <2>1. b # Free /\ b \notin {"send"} \X Messages
    BY <1>5, FreeIsFree
  <2>2. b \in {"scrape", "drafted"} \X Tenants
    BY <2>1 DEF Browser
  <2> QED BY <2>2
<1> QED BY <1>1, <1>2, <1>3, <1>4, <1>5

LEMMA SentKept ==
    ASSUME SentType, SendsAreHeld, [Next]_vars
    PROVE  SentType' /\ SendsAreHeld'
<1> USE BrowserIs DEF SentType, SendsAreHeld
<1>1. CASE UNCHANGED <<outbox, slot>>
  BY <1>1
<1>2. ASSUME NEW h \in Hosts, NEW m \in Messages, Dispatches(h, m)
      PROVE  SentType' /\ SendsAreHeld'
  <2>1. /\ slot[h] = Free /\ outbox[m] = "queued"
        /\ outbox' = [outbox EXCEPT ![m] = "sending"]
        /\ slot' = [slot EXCEPT ![h] = <<"send", m>>]
    BY <1>2 DEF Dispatches, Sendable, Queued
  <2>2. SentType'
    BY <2>1
  <2>3. ASSUME NEW g \in Hosts PROVE slot[g] # <<"send", m>>
    BY <2>1
  <2> QED BY <2>1, <2>2, <2>3
<1>3. ASSUME NEW h \in Hosts, Settles(h) PROVE SentType' /\ SendsAreHeld'
  <2>1. PICK m \in Messages : slot[h] = <<"send", m>>
    BY <1>3 DEF Settles
  <2>2. slot[h][2] = m
    BY <2>1
  <2>3. /\ outbox' = [outbox EXCEPT ![m] = "settled"]
        /\ slot' = [slot EXCEPT ![h] = Free]
    BY <1>3, <2>2 DEF Settles
  <2> QED BY <2>1, <2>3
<1>4. ASSUME NEW m \in Messages, Enqueues(m), UNCHANGED slot
      PROVE  SentType' /\ SendsAreHeld'
  BY <1>4 DEF Enqueues
<1>5. ASSUME NEW h \in Hosts, NEW m \in Messages, Enqueues(m),
             slot' = [slot EXCEPT ![h] = <<"drafted", TenantOf[m]>>]
      PROVE  SentType' /\ SendsAreHeld'
  <2>1. outbox[m] = "none" /\ outbox' = [outbox EXCEPT ![m] = "queued"] /\ TenantOf[m] \in Tenants
    BY <1>5, BackgroundAssumption DEF Enqueues
  <2>2. SentType'
    BY <1>5, <2>1
  <2>3. ASSUME NEW g \in Hosts, NEW n \in Messages, slot'[g] = <<"send", n>>
        PROVE  slot[g] = <<"send", n>> /\ outbox'[n] = "sending"
    <3>1. g # h
      BY <1>5, <2>3
    <3>2. slot[g] = <<"send", n>>
      BY <1>5, <2>3, <3>1
    <3> QED BY <2>1, <3>2
  <2> QED BY <2>2, <2>3
<1>6. ASSUME NEW h \in Hosts, NEW t \in Tenants, NEW a \in {"scrape", "drafted"},
             slot' = [slot EXCEPT ![h] = <<a, t>>], UNCHANGED outbox
      PROVE  SentType' /\ SendsAreHeld'
  BY <1>6
<1>7. ASSUME NEW h \in Hosts, slot' = [slot EXCEPT ![h] = Free], UNCHANGED outbox
      PROVE  SentType' /\ SendsAreHeld'
  BY <1>7
<1>8. ASSUME NEW h \in Hosts, Crash(h) PROVE SentType' /\ SendsAreHeld'
  <2>1. /\ slot' = [slot EXCEPT ![h] = Free]
        /\ outbox' = [m \in Messages |-> IF slot[h] = <<"send", m>> THEN "queued" ELSE outbox[m]]
    BY <1>8 DEF Crash
  <2>2. SentType'
    BY <2>1
  <2>3. ASSUME NEW g \in Hosts, NEW m \in Messages, slot'[g] = <<"send", m>>
        PROVE  g # h /\ slot[g] = <<"send", m>> /\ slot[h] # <<"send", m>>
    BY <2>1, <2>3
  <2>4. ASSUME NEW g \in Hosts, NEW m \in Messages, slot'[g] = <<"send", m>>
        PROVE  outbox'[m] = "sending"
    BY <2>1, <2>3, <2>4
  <2> QED BY <2>2, <2>3, <2>4
<1>9. ASSUME NEW h \in Hosts, slot[h][1] = "drafted" PROVE slot[h][2] \in Tenants
  BY <1>9
<1> HIDE DEF SentType, SendsAreHeld
<1> QED BY <1>1, <1>2, <1>3, <1>4, <1>5, <1>6, <1>7, <1>8, <1>9, SentSteps

\* Every way a drain thread and its latch change.
LEMMA LoopKept ==
    ASSUME LoopType, Latched, [Next]_vars
    PROVE  LoopType' /\ Latched'
<1> USE DEF LoopType, Latched, Thread
<1>1. CASE UNCHANGED <<draining, loop>>
  BY <1>1
<1>2. ASSUME NEW h \in Hosts, StartDrainer(h) PROVE LoopType' /\ Latched'
  <2>1. CASE UNCHANGED <<draining, loop>>
    BY <2>1
  <2>2. CASE /\ draining' = [draining EXCEPT ![h] = TRUE]
             /\ loop' = [loop EXCEPT ![h] = [at |-> "looking", idle |-> 0]]
    <3>1. LoopType'
      BY <2>2
    <3>2. ASSUME NEW g \in Hosts, loop'[g].at # "off" PROVE draining'[g]
      BY <2>2, <3>2
    <3> QED BY <3>1, <3>2
  <2> QED BY <1>2, <2>1, <2>2 DEF StartDrainer
<1>3. ASSUME NEW h \in Hosts, LoopStep(h) \/ LoopRaises(h) PROVE LoopType' /\ Latched'
  <2>1. CASE LoopRound(h)
    <3>1. CASE Idles(h) /\ UNCHANGED draining
      BY <2>1, <3>1 DEF Idles, LoopRound
    <3>2. CASE loop' = [loop EXCEPT ![h].at = "delivering"] /\ UNCHANGED draining
      BY <2>1, <3>2 DEF LoopRound
    <3> QED BY <2>1, <3>1, <3>2 DEF LoopRound
  <2>2. CASE LoopSettles(h)
    BY <2>2 DEF LoopSettles
  <2>3. CASE LoopEnds(h)
    BY <2>3 DEF LoopEnds, NoLoop
  <2>4. CASE LoopRaises(h)
    BY <2>4 DEF LoopRaises
  <2> QED BY <1>3, <2>1, <2>2, <2>3, <2>4 DEF LoopStep
<1>4. ASSUME NEW h \in Hosts, PassStep(h)
      PROVE  UNCHANGED <<draining, loop>> \/ StartDrainer(h)
  BY <1>4 DEF PassStep, PassBegins, Checks, ChecksEnd, Digests, DigestsEnd, PassSends, PassSettles
<1>5. ASSUME NEW h \in Hosts, Crash(h) PROVE LoopType' /\ Latched'
  BY <1>5 DEF Crash, NoLoop
<1>6. ASSUME NEW h \in Dashboards,
             Wakes(h) \/ BoardPolls(h) \/ \E m \in Messages : Queues(h, m)
      PROVE  h \in Hosts /\ (UNCHANGED <<draining, loop>> \/ StartDrainer(h))
  BY <1>6 DEF Wakes, BoardPolls, Queues, Hosts
<1>7. ASSUME NEW h \in WorkerHosts, JobWakes(h) \/ \E m \in Messages : JobQueues(h, m)
      PROVE  h \in Hosts /\ (UNCHANGED <<draining, loop>> \/ StartDrainer(h))
  BY <1>7 DEF JobWakes, JobQueues, Hosts
<1>8. ASSUME NEW h \in Hosts,
             ScrapeWakes(h) \/ ScrapeEnds(h) \/ \E m \in Messages : ScrapeQueues(h, m)
      PROVE  UNCHANGED <<draining, loop>> \/ StartDrainer(h)
  BY <1>8 DEF ScrapeWakes, ScrapeEnds, ScrapeQueues
<1>9. ASSUME (\E m \in Messages : ComesDue(m)) \/ Tick \/ UNCHANGED vars
      PROVE  UNCHANGED <<draining, loop>>
  BY <1>9 DEF ComesDue, Tick, vars
<1> HIDE DEF LoopType, Latched, Thread
<1> QED BY <1>1, <1>2, <1>3, <1>4, <1>5, <1>6, <1>7, <1>8, <1>9 DEF Next

\* Every way the marks, the counts and the passes change.
LEMMA PlanSteps ==
    ASSUME TimeType, PassType, [Next]_vars
    PROVE  \/ UNCHANGED <<time, settings, counts, pass>>
           \/ Tick
           \/ \E h \in Hosts : PassBegins(h) \/ ChecksEnd(h)
           \/ \E h \in Hosts, t \in Tenants : Checks(h, t) \/ Digests(h, t)
           \/ \E h \in Hosts, r \in Pass :
                  /\ r.at \notin {"checks", "digests"}
                  /\ pass' = [pass EXCEPT ![h] = r] /\ UNCHANGED <<time, settings, counts>>
<1>1. CASE UNCHANGED vars
  BY <1>1 DEF vars
<1>2. ASSUME NEW h \in Hosts,
             \/ LoopStep(h) \/ LoopRaises(h) \/ ScrapeEnds(h) \/ ScrapeWakes(h)
             \/ \E m \in Messages : ScrapeQueues(h, m)
      PROVE  UNCHANGED <<time, settings, counts, pass>>
  BY <1>2 DEF LoopStep, LoopRound, LoopSettles, LoopEnds, LoopRaises, ScrapeEnds, ScrapeWakes,
              ScrapeQueues
<1>3. NoPass \in Pass /\ NoPass.at = "rest"
  BY DEF NoPass, Pass, Marks, Never
<1>4. ASSUME NEW h \in Hosts, Crash(h)
      PROVE  pass' = [pass EXCEPT ![h] = NoPass] /\ UNCHANGED <<time, settings, counts>>
  BY <1>4 DEF Crash
<1>5. ASSUME NEW T \in SUBSET Tenants
      PROVE  Delivering(T) \in Pass /\ Delivering(T).at \notin {"checks", "digests"}
  BY <1>3 DEF Delivering, NoPass, Pass, Marks, Never
<1>6. ASSUME NEW h \in Hosts, NEW a \in {"job", "delivering", "sending"}
      PROVE  /\ [pass[h] EXCEPT !.at = a] \in Pass
             /\ [pass[h] EXCEPT !.at = a].at \notin {"checks", "digests"}
  BY DEF PassType, Pass
<1>7. ASSUME NEW h \in Hosts, PassStep(h)
      PROVE  \/ UNCHANGED <<time, settings, counts, pass>>
             \/ PassBegins(h) \/ ChecksEnd(h)
             \/ \E t \in Tenants : Checks(h, t) \/ Digests(h, t)
             \/ \E r \in Pass :
                    /\ r.at \notin {"checks", "digests"}
                    /\ pass' = [pass EXCEPT ![h] = r] /\ UNCHANGED <<time, settings, counts>>
  <2>1. CASE DigestsEnd(h)
    <3>1. {TenantOf[m] : m \in Queued} \in SUBSET Tenants
      BY BackgroundAssumption DEF Queued
    <3>2. \E r \in {NoPass, Delivering({TenantOf[m] : m \in Queued})} :
              pass' = [pass EXCEPT ![h] = r] /\ UNCHANGED <<time, settings, counts>>
      BY <2>1 DEF DigestsEnd
    <3> QED BY <1>3, <1>5, <3>1, <3>2
  <2>2. ASSUME NEW t \in Tenants, PassSends(h, t)
        PROVE  \E r \in Pass :
                    /\ r.at \notin {"checks", "digests"}
                    /\ pass' = [pass EXCEPT ![h] = r] /\ UNCHANGED <<time, settings, counts>>
    <3>1. pass[h].todo \ {t} \in SUBSET Tenants
      BY DEF PassType, Pass
    <3>2. \E r \in {[pass[h] EXCEPT !.at = "sending"], Delivering(pass[h].todo \ {t})} :
              pass' = [pass EXCEPT ![h] = r] /\ UNCHANGED <<time, settings, counts>>
      BY <2>2 DEF PassSends
    <3> QED BY <1>5, <1>6, <3>1, <3>2
  <2>3. CASE PassSettles(h)
    <3>1. /\ pass' = [pass EXCEPT ![h] = [pass[h] EXCEPT !.at = "delivering"]]
          /\ UNCHANGED <<time, settings, counts>>
      BY <2>3 DEF PassSettles
    <3> QED BY <1>6, <3>1
  <2> QED BY <1>7, <2>1, <2>2, <2>3 DEF PassStep
<1>8. ASSUME NEW h \in WorkerHosts, JobWakes(h) \/ \E m \in Messages : JobQueues(h, m)
      PROVE  /\ h \in Hosts
             /\ \E r \in {NoPass, [pass[h] EXCEPT !.at = "job"]} :
                    pass' = [pass EXCEPT ![h] = r] /\ UNCHANGED <<time, settings, counts>>
  BY <1>8 DEF JobWakes, JobQueues, Hosts
<1>9. ASSUME NEW h \in Dashboards,
             Wakes(h) \/ BoardPolls(h) \/ \E m \in Messages : Queues(h, m)
      PROVE  UNCHANGED <<time, settings, counts, pass>>
  BY <1>9 DEF Wakes, BoardPolls, Queues
<1>10. ASSUME NEW m \in Messages, ComesDue(m) PROVE UNCHANGED <<time, settings, counts, pass>>
  BY <1>10 DEF ComesDue
<1>11. ASSUME NEW h \in WorkerHosts, JobWakes(h) \/ \E m \in Messages : JobQueues(h, m)
       PROVE  \E k \in Hosts, r \in Pass :
                  /\ r.at \notin {"checks", "digests"}
                  /\ pass' = [pass EXCEPT ![k] = r] /\ UNCHANGED <<time, settings, counts>>
  <2>1. NoPass.at \notin {"checks", "digests"}
    BY <1>3
  <2> QED BY <1>3, <1>6, <1>8, <1>11, <2>1
<1>12. ASSUME NEW h \in Hosts, Crash(h)
       PROVE  \E r \in Pass :
                  /\ r.at \notin {"checks", "digests"}
                  /\ pass' = [pass EXCEPT ![h] = r] /\ UNCHANGED <<time, settings, counts>>
  BY <1>3, <1>4, <1>12
<1> QED BY <1>1, <1>2, <1>7, <1>9, <1>10, <1>11, <1>12 DEF Next

\* Counting once more keeps a table of counts what it is.
LEMMA CountUp ==
    ASSUME NEW S, NEW c \in [Observed -> [Tenants -> [S -> Nat]]],
           NEW h \in Hosts, NEW t \in Tenants, NEW s
    PROVE  Counts(c, h, t, s) \in [Observed -> [Tenants -> [S -> Nat]]]
<1>0. CASE h \notin Observed
  BY <1>0 DEF Counts
<1> SUFFICES ASSUME h \in Observed
             PROVE  [c EXCEPT ![h][t][s] = @ + 1] \in [Observed -> [Tenants -> [S -> Nat]]]
  BY <1>0 DEF Counts
<1>1. [c[h][t] EXCEPT ![s] = @ + 1] \in [S -> Nat]
  <2>1. PICK f \in [S -> Nat] : f = c[h][t]
    OBVIOUS
  <2>2. CASE s \in S
    BY <2>1, <2>2
  <2>3. CASE s \notin S
    <3>1. [f EXCEPT ![s] = @ + 1] = f
      BY <2>3
    <3> QED BY <2>1, <3>1
  <2> QED BY <2>2, <2>3
<1>2. [c[h] EXCEPT ![t] = [c[h][t] EXCEPT ![s] = @ + 1]] \in [Tenants -> [S -> Nat]]
  BY <1>1
<1> DEFINE r == [c[h] EXCEPT ![t] = [c[h][t] EXCEPT ![s] = @ + 1]]
<1>3. [c EXCEPT ![h][t][s] = @ + 1] = [c EXCEPT ![h] = r]
  OBVIOUS
<1>4. r \in [Tenants -> [S -> Nat]]
  BY <1>2
<1> HIDE DEF r
<1>5. [c EXCEPT ![h] = r] \in [Observed -> [Tenants -> [S -> Nat]]]
  BY <1>4
<1> QED BY <1>3, <1>5

LEMMA PlanShapeKept ==
    ASSUME TimeType, PassType, MarkType, [Next]_vars
    PROVE  PassType' /\ MarkType'
<1>1. CASE UNCHANGED <<time, settings, counts, pass>>
  BY <1>1 DEF PassType, MarkType, settings, counts
<1>2. CASE Tick
  BY <1>2 DEF Tick, PassType, MarkType, settings, counts
<1>3. ASSUME NEW h \in Hosts, PassBegins(h) PROVE PassType' /\ MarkType'
  <2>1. <<Day, Max(Passed \cup {0})>> \in Marks
    BY SlotOfPass DEF Marks
  <2>2. MarkType'
    BY <1>3 DEF PassBegins, MarkType, settings, counts
  <2>3. PassType'
    BY <1>3, <2>1 DEF PassBegins, PassType, Pass, NoPass
  <2> QED BY <2>2, <2>3
<1>4. ASSUME NEW h \in Hosts, ChecksEnd(h) PROVE PassType' /\ MarkType'
  <2>1. <<Day, DigestTime>> \in Marks
    BY StampsAreNumbers, BackgroundAssumption DEF TimeType, Marks, Stamps, Day, Hours
  <2>2. MarkType'
    BY <1>4 DEF ChecksEnd, MarkType, settings, counts
  <2>3. PassType'
    BY <1>4, <2>1 DEF ChecksEnd, PassType, Pass, NoPass
  <2> QED BY <2>2, <2>3
<1>5. ASSUME NEW h \in Hosts, NEW t \in Tenants, Checks(h, t) PROVE PassType' /\ MarkType'
  <2>1. /\ time \in Marks
        /\ checked' \in {checked, [checked EXCEPT ![t] = time]}
        /\ starts' \in {starts, Counts(starts, h, t, pass[h].for)}
        /\ UNCHANGED <<digested, mails>>
    BY <1>5 DEF Checks, StartsScrape, TimeType, Marks
  <2>2. Counts(starts, h, t, pass[h].for) \in [Observed -> [Tenants -> [Stamps -> Nat]]]
    BY CountUp DEF MarkType
  <2>3. MarkType'
    BY <2>1, <2>2 DEF MarkType
  <2>4. PassType'
    <3>1. CASE pass' = [pass EXCEPT ![h].todo = @ \ {t}]
      BY <3>1 DEF PassType, Pass
    <3>2. CASE pass' = [pass EXCEPT ![h].todo = @ \ {t},
                                    ![h].any = @ \/ slot[h] = Free \/ Holder(h) = t]
      BY <3>2 DEF PassType, Pass
    <3> QED BY <1>5, <3>1, <3>2 DEF Checks
  <2> QED BY <2>3, <2>4
<1>6. ASSUME NEW h \in Hosts, NEW t \in Tenants, Digests(h, t) PROVE PassType' /\ MarkType'
  <2>1. /\ time \in Marks
        /\ digested' = [digested EXCEPT ![t] = time]
        /\ mails' \in {mails, Counts(mails, h, t, pass[h].for[1])}
        /\ UNCHANGED <<checked, starts>>
    BY <1>6 DEF Digests, TimeType, Marks
  <2>2. Counts(mails, h, t, pass[h].for[1]) \in [Observed -> [Tenants -> [Days -> Nat]]]
    BY CountUp DEF MarkType
  <2>3. MarkType'
    BY <2>1, <2>2 DEF MarkType
  <2>4. PassType'
    BY <1>6 DEF Digests, PassType, Pass
  <2> QED BY <2>3, <2>4
<1>7. ASSUME NEW h \in Hosts, NEW r \in Pass,
             pass' = [pass EXCEPT ![h] = r], UNCHANGED <<time, settings, counts>>
      PROVE  PassType' /\ MarkType'
  BY <1>7 DEF PassType, MarkType, settings, counts
<1> QED BY <1>1, <1>2, <1>3, <1>4, <1>5, <1>6, <1>7, PlanSteps

LEMMA ShapeKept ==
    TypeInv /\ Latched /\ SendsAreHeld /\ [Next]_vars => (TypeInv /\ Latched /\ SendsAreHeld)'
<1> SUFFICES ASSUME TypeInv, Latched, SendsAreHeld, [Next]_vars
             PROVE  (TypeInv /\ Latched /\ SendsAreHeld)'
  OBVIOUS
<1>1. RestType'
  <2>1. /\ due' \in {due} \cup {due \cup {m} : m \in Messages}
        /\ \/ UNCHANGED request
           \/ \E h \in Hosts, w \in {"rest", "waking"} : request' = [request EXCEPT ![h] = w]
    BY DEF Next, vars, LoopStep, LoopRound, LoopSettles, LoopEnds, LoopRaises, PassStep, PassBegins,
           Checks, ChecksEnd, Digests, DigestsEnd, PassSends, PassSettles, ScrapeEnds, Crash,
           Queues, Wakes, BoardPolls, ComesDue, Tick, Hosts, ScrapeQueues, ScrapeWakes,
           JobQueues, JobWakes, Enqueues
  <2> QED BY <2>1 DEF TypeInv, RestType
<1>2. TimeType' /\ SentType' /\ LoopType' /\ PassType' /\ MarkType' /\ Latched' /\ SendsAreHeld'
  BY TimeKept, SentKept, LoopKept, PlanShapeKept DEF TypeInv
<1> QED BY <1>1, <1>2 DEF TypeInv

LEMMA ShapeHolds == Spec => [](TypeInv /\ Latched /\ SendsAreHeld)
<1>1. Init => TypeInv /\ Latched /\ SendsAreHeld
  BY InitShape
<1>2. TypeInv /\ Latched /\ SendsAreHeld /\ [Next]_vars => (TypeInv /\ Latched /\ SendsAreHeld)'
  BY ShapeKept
<1> QED BY <1>1, <1>2, PTL DEF Spec

\* What no crash, error or second host can bring about: a drain thread without
\* its latch, a browser with a message that is not `sending`.
THEOREM TypeCorrect == Spec => []TypeOK
<1>1. TypeInv /\ Latched /\ SendsAreHeld => TypeOK
  <2> SUFFICES ASSUME TypeInv, Latched, SendsAreHeld PROVE TypeOK
    OBVIOUS
  <2>1. time \in Days \X Hours /\ due \subseteq Messages
    BY DEF TypeInv, TimeType, RestType, Stamps
  <2>2. ASSUME NEW h \in Hosts, slot[h][1] = "send" PROVE outbox[slot[h][2]] = "sending"
    <3>1. PICK m \in Messages : slot[h] = <<"send", m>>
      BY <2>2, BrowserIs DEF TypeInv, SentType
    <3> QED BY <3>1 DEF SendsAreHeld
  <2> QED BY <2>1, <2>2 DEF TypeOK, Latched
<1> QED BY <1>1, ShapeHolds, PTL

-----------------------------------------------------------------------------
(* Nothing waits for a thread that is not there.                           *)

\* A send of this host, its drain thread and its pass: one of the two waits
\* for a send and has the browser until it has ended.
Busy(h) == slot[h][1] = "send"

Serves(h) ==
    /\ draining[h] => loop[h].at # "off"
    /\ Busy(h) <=> loop[h].at = "delivering" \/ AtPass(h, "sending")
    /\ ~ (loop[h].at = "delivering" /\ AtPass(h, "sending"))

SendingIsHeld ==
    \A m \in Messages : outbox[m] = "sending" => \E h \in Hosts : slot[h] = <<"send", m>>

\* A step that neither gives nor takes a browser leaves a host to those who
\* serve it, a newly started drain thread included.
SameSends(g) == (Busy(g)' <=> Busy(g)) /\ (AtPass(g, "sending")' <=> AtPass(g, "sending"))

LEMMA OthersServe ==
    ASSUME NEW g \in Hosts, Serves(g), SameSends(g),
           loop'[g].at = loop[g].at, draining'[g] = draining[g]
    PROVE  Serves(g)'
BY DEF Serves, SameSends

LEMMA StartServes ==
    ASSUME LoopType, Latched, NEW h \in Hosts, NEW g \in Hosts, Serves(g), SameSends(g),
           StartDrainer(h)
    PROVE  Serves(g)'
<1>1. CASE draining[h] \/ g # h
  <2>1. loop'[g] = loop[g] /\ draining'[g] = draining[g]
    BY <1>1 DEF StartDrainer, LoopType
  <2> QED BY <2>1, OthersServe
<1>2. CASE ~ draining[h] /\ g = h
  <2>1. draining'[g] /\ loop'[g].at = "looking"
    BY <1>2 DEF StartDrainer, LoopType
  <2>2. loop[g].at = "off"
    BY <1>2 DEF Latched
  <2>3. loop'[g].at # "off" /\ loop'[g].at # "delivering" /\ loop[g].at # "delivering"
    BY <2>1, <2>2
  <2> QED BY <2>1, <2>3 DEF Serves, SameSends
<1> QED BY <1>1, <1>2

LEMMA DrainerServes ==
    ASSUME LoopType, SentType, NEW h \in Hosts, NEW g \in Hosts, Serves(h), Serves(g),
           LoopStep(h) \/ LoopRaises(h)
    PROVE  Serves(g)'
<1> USE DEF LoopType, SentType, Thread
<1>1. UNCHANGED pass
  BY DEF LoopStep, LoopRound, LoopSettles, LoopEnds, LoopRaises
<1>2. CASE g # h
  <2>1. loop'[g] = loop[g] /\ draining'[g] = draining[g] /\ slot'[g] = slot[g]
    BY <1>2 DEF LoopStep, LoopRound, LoopSettles, LoopEnds, LoopRaises, Idles, Dispatches, Settles
  <2> QED BY <1>1, <2>1, OthersServe DEF SameSends, Busy, AtPass
<1>3. CASE LoopRound(h) /\ g = h
  <2>1. loop[h].at = "looking" /\ UNCHANGED draining
    BY <1>3 DEF LoopRound
  <2>2. ASSUME NEW m \in Messages, Dispatches(h, m), loop' = [loop EXCEPT ![h].at = "delivering"]
        PROVE  Serves(h)'
    <3>1. slot[h] = Free /\ slot'[h] = <<"send", m>> /\ loop'[h].at = "delivering"
      BY <2>2 DEF Dispatches, Sendable
    <3>2. ~ Busy(h) /\ Busy(h)'
      BY <3>1, FreeIsFree DEF Busy
    <3>3. ~ AtPass(h, "sending")'
      BY <1>1, <3>2 DEF Serves, AtPass
    <3>4. loop'[h].at # "off"
      BY <3>1
    <3> HIDE DEF LoopType, SentType, Thread
    <3> QED BY <3>1, <3>2, <3>3, <3>4 DEF Serves
  <2>3. CASE Idles(h) /\ UNCHANGED slot
    <3>1. loop'[h].at \in {"looking", "leaving"}
      BY <2>3 DEF Idles
    <3>2. SameSends(h)
      BY <1>1, <2>3 DEF SameSends, Busy, AtPass
    <3>3. /\ loop'[h].at # "off" /\ loop'[h].at # "delivering"
          /\ loop[h].at # "delivering"
      BY <2>1, <3>1
    <3> HIDE DEF LoopType, SentType, Thread
    <3> QED BY <1>3, <3>2, <3>3 DEF Serves, SameSends
  <2> QED BY <1>3, <2>2, <2>3 DEF LoopRound
<1>4. CASE LoopSettles(h) /\ g = h
  <2>1. slot'[h] = Free /\ loop'[h].at = "looking" /\ loop[h].at = "delivering"
    BY <1>4 DEF LoopSettles, Settles
  <2>2. ~ Busy(h)'
    BY <2>1, FreeIsFree DEF Busy
  <2>4. ~ AtPass(h, "sending")'
    BY <1>1, <2>1 DEF Serves, AtPass
  <2>3. loop'[h].at # "off" /\ loop'[h].at # "delivering"
    BY <2>1
  <2> HIDE DEF LoopType, SentType, Thread
  <2> QED BY <1>4, <2>2, <2>3, <2>4 DEF Serves
<1>5. CASE (LoopEnds(h) \/ LoopRaises(h)) /\ g = h
  <2>1. /\ loop[h].at # "delivering" /\ loop'[h].at # "delivering" /\ UNCHANGED slot
        /\ draining'[h] => loop'[h].at # "off"
    BY <1>5 DEF LoopEnds, LoopRaises, NoLoop
  <2>2. SameSends(h)
    BY <1>1, <2>1 DEF SameSends, Busy, AtPass
  <2> HIDE DEF LoopType, SentType, Thread
  <2> QED BY <1>5, <2>1, <2>2 DEF Serves, SameSends
<1> QED BY <1>2, <1>3, <1>4, <1>5 DEF LoopStep

\* The steps of a pass that touch no send.
LEMMA PassMoves ==
    ASSUME TypeInv, NEW h \in Hosts, NEW g \in Hosts,
           \/ PassBegins(h) \/ ChecksEnd(h) \/ DigestsEnd(h)
           \/ \E t \in Tenants : Checks(h, t) \/ Digests(h, t)
    PROVE  SameSends(g)
<1> USE DEF TypeInv, PassType, Pass, SentType, AtPass
<1>1. CASE PassBegins(h)
  BY <1>1 DEF PassBegins, SameSends, Busy, NoPass
<1>2. CASE ChecksEnd(h)
  BY <1>2 DEF ChecksEnd, SameSends, Busy, NoPass
<1>3. CASE DigestsEnd(h)
  <2>1. \A T : Delivering(T).at # "sending"
    BY DEF Delivering, NoPass
  <2>2. /\ UNCHANGED slot /\ pass[h].at = "digests"
        /\ \E r \in {NoPass, Delivering({TenantOf[m] : m \in Queued})} : pass' = [pass EXCEPT ![h] = r]
    BY <1>3 DEF DigestsEnd
  <2>3. NoPass.at # "sending"
    BY DEF NoPass
  <2>4. pass'[h].at # "sending" /\ (g = h \/ pass'[g] = pass[g])
    BY <2>1, <2>2, <2>3
  <2> QED BY <2>2, <2>4 DEF SameSends, Busy
<1>4. ASSUME NEW t \in Tenants, Checks(h, t) PROVE SameSends(g)
  <2>1. pass'[g].at = pass[g].at
    BY <1>4 DEF Checks
  <2>2. slot'[g] = slot[g] \/ (slot[g] = Free /\ slot'[g] = <<"scrape", t>>)
    BY <1>4 DEF Checks, StartsScrape
  <2>3. Busy(g)' <=> Busy(g)
    BY <2>2, FreeIsFree DEF Busy
  <2> QED BY <2>1, <2>3 DEF SameSends
<1>5. ASSUME NEW t \in Tenants, Digests(h, t) PROVE SameSends(g)
  BY <1>5 DEF Digests, SameSends, Busy
<1> QED BY <1>1, <1>2, <1>3, <1>4, <1>5

LEMMA PassServes ==
    ASSUME TypeInv, Latched, NEW h \in Hosts, NEW g \in Hosts, Serves(h), Serves(g), PassStep(h)
    PROVE  Serves(g)'
<1> USE DEF TypeInv
<1>1. CASE \/ PassBegins(h) \/ ChecksEnd(h) \/ DigestsEnd(h)
           \/ \E t \in Tenants : Checks(h, t) \/ Digests(h, t)
  <2>1. SameSends(g)
    BY <1>1, PassMoves
  <2>2. UNCHANGED <<draining, loop>> \/ StartDrainer(h)
    BY <1>1 DEF PassBegins, ChecksEnd, DigestsEnd, Checks, Digests
  <2> QED BY <2>1, <2>2, OthersServe, StartServes
<1>2. ASSUME NEW t \in Tenants, PassSends(h, t) PROVE Serves(g)'
  <2>1. UNCHANGED <<draining, loop>> /\ pass[h].at = "delivering"
    BY <1>2 DEF PassSends, AtPass
  <2>2. CASE g # h
    <3>1. slot'[g] = slot[g] /\ pass'[g] = pass[g]
      BY <1>2, <2>2 DEF PassSends, Dispatches, SentType, PassType
    <3> QED BY <2>1, <3>1, OthersServe DEF SameSends, Busy, AtPass
  <2>3. CASE g = h /\ UNCHANGED slot /\ pass' = [pass EXCEPT ![h] = Delivering(pass[h].todo \ {t})]
    <3>1. Delivering(pass[h].todo \ {t}).at # "sending"
      BY DEF Delivering, NoPass
    <3>2. pass'[h].at # "sending"
      BY <2>3, <3>1 DEF PassType
    <3> QED BY <2>1, <2>3, <3>2, OthersServe DEF SameSends, Busy, AtPass
  <2>4. ASSUME g = h, NEW m \in Messages, Dispatches(h, m), pass' = [pass EXCEPT ![h].at = "sending"]
        PROVE  Serves(g)'
    <3>1. slot[h] = Free /\ slot'[h] = <<"send", m>> /\ pass'[h].at = "sending"
      BY <2>4 DEF Dispatches, Sendable, SentType, PassType, Pass
    <3>2. ~ Busy(h) /\ Busy(h)'
      BY <3>1, FreeIsFree DEF Busy
    <3> QED BY <2>1, <2>4, <3>1, <3>2 DEF Serves, AtPass
  <2> QED BY <1>2, <2>2, <2>3, <2>4 DEF PassSends
<1>3. CASE PassSettles(h)
  <2>1. UNCHANGED <<draining, loop>> /\ pass[h].at = "sending"
    BY <1>3 DEF PassSettles, AtPass
  <2>2. CASE g # h
    <3>1. slot'[g] = slot[g] /\ pass'[g] = pass[g]
      BY <1>3, <2>2 DEF PassSettles, Settles, SentType, PassType
    <3> QED BY <2>1, <3>1, OthersServe DEF SameSends, Busy, AtPass
  <2>3. CASE g = h
    <3>1. slot'[h] = Free /\ pass'[h].at = "delivering"
      BY <1>3 DEF PassSettles, Settles, SentType, PassType, Pass
    <3>2. ~ Busy(h)' /\ pass'[h].at # "sending"
      BY <3>1, FreeIsFree DEF Busy
    <3> QED BY <2>1, <2>3, <3>2 DEF Serves, AtPass
  <2> QED BY <2>2, <2>3
<1> QED BY <1>1, <1>2, <1>3 DEF PassStep

\* A scrape drafts, wakes and ends; it is never a send.
LEMMA ScrapeServes ==
    ASSUME TypeInv, Latched, NEW h \in Hosts, NEW g \in Hosts, Serves(g),
           ScrapeWakes(h) \/ ScrapeEnds(h) \/ \E m \in Messages : ScrapeQueues(h, m)
    PROVE  Serves(g)'
<1> USE DEF TypeInv, SentType
<1>1. UNCHANGED pass
  BY DEF ScrapeWakes, ScrapeEnds, ScrapeQueues
<1>2. slot[h][1] # "send" /\ slot'[h][1] # "send" /\ (g = h \/ slot'[g] = slot[g])
  <2>1. CASE ScrapeWakes(h)
    BY <2>1 DEF ScrapeWakes
  <2>2. CASE ScrapeEnds(h)
    BY <2>2 DEF ScrapeEnds, Free
  <2>3. ASSUME NEW m \in Messages, ScrapeQueues(h, m)
        PROVE  slot[h][1] # "send" /\ slot'[h][1] # "send" /\ (g = h \/ slot'[g] = slot[g])
    BY <2>3 DEF ScrapeQueues
  <2> QED BY <2>1, <2>2, <2>3
<1>3. SameSends(g)
  BY <1>1, <1>2 DEF SameSends, Busy, AtPass
<1>4. UNCHANGED <<draining, loop>> \/ StartDrainer(h)
  BY DEF ScrapeWakes, ScrapeEnds, ScrapeQueues
<1> QED BY <1>3, <1>4, OthersServe, StartServes

LEMMA ServesKept ==
    ASSUME TypeInv, Latched, \A k \in Hosts : Serves(k), [Next]_vars
    PROVE  \A g \in Hosts : Serves(g)'
<1> SUFFICES ASSUME NEW g \in Hosts PROVE Serves(g)'
  OBVIOUS
<1>1. CASE UNCHANGED vars
  BY <1>1, OthersServe DEF vars, SameSends, Busy, AtPass
<1>2. ASSUME NEW h \in Hosts, LoopStep(h) \/ LoopRaises(h) PROVE Serves(g)'
  BY <1>2, DrainerServes DEF TypeInv
<1>3. ASSUME NEW h \in Hosts, PassStep(h) PROVE Serves(g)'
  BY <1>3, PassServes
<1>4. ASSUME NEW h \in Hosts,
             ScrapeWakes(h) \/ ScrapeEnds(h) \/ \E m \in Messages : ScrapeQueues(h, m)
      PROVE  Serves(g)'
  BY <1>4, ScrapeServes
<1>5. ASSUME NEW h \in Hosts, Crash(h) PROVE Serves(g)'
  <2>1. /\ slot' = [slot EXCEPT ![h] = Free] /\ loop' = [loop EXCEPT ![h] = NoLoop]
        /\ draining' = [draining EXCEPT ![h] = FALSE] /\ pass' = [pass EXCEPT ![h] = NoPass]
    BY <1>5 DEF Crash
  <2>2. CASE g # h
    BY <2>1, <2>2, OthersServe
       DEF SameSends, Busy, AtPass, TypeInv, SentType, LoopType, PassType
  <2>3. CASE g = h
    <3>1. slot'[g][1] = "free" /\ loop'[g].at = "off" /\ pass'[g].at = "rest" /\ draining'[g] = FALSE
      BY <2>1, <2>3 DEF Free, NoLoop, NoPass, TypeInv, SentType, LoopType, PassType
    <3> QED BY <3>1 DEF Serves, Busy, AtPass
  <2> QED BY <2>2, <2>3
<1>6. ASSUME NEW h \in Dashboards,
             Wakes(h) \/ BoardPolls(h) \/ \E m \in Messages : Queues(h, m)
      PROVE  Serves(g)'
  <2>1. h \in Hosts /\ UNCHANGED <<slot, pass>> /\ (UNCHANGED <<draining, loop>> \/ StartDrainer(h))
    BY <1>6 DEF Wakes, BoardPolls, Queues, Hosts
  <2>2. SameSends(g)
    BY <2>1 DEF SameSends, Busy, AtPass
  <2> QED BY <2>1, <2>2, OthersServe, StartServes DEF TypeInv
<1>7. ASSUME NEW h \in WorkerHosts, JobWakes(h) \/ \E m \in Messages : JobQueues(h, m)
      PROVE  Serves(g)'
  <2>1. h \in Hosts /\ UNCHANGED slot /\ (UNCHANGED <<draining, loop>> \/ StartDrainer(h))
    BY <1>7 DEF JobWakes, JobQueues, Hosts
  <2>2. pass[h].at # "sending" /\ pass'[h].at # "sending" /\ (g = h \/ pass'[g] = pass[g])
    BY <1>7, <2>1 DEF JobWakes, JobQueues, AtPass, NoPass, TypeInv, PassType, Pass
  <2>3. SameSends(g)
    BY <2>1, <2>2 DEF SameSends, Busy, AtPass
  <2> QED BY <2>1, <2>3, OthersServe, StartServes DEF TypeInv
<1>8. ASSUME (\E m \in Messages : ComesDue(m)) \/ Tick PROVE Serves(g)'
  <2>1. UNCHANGED <<slot, draining, loop, pass>>
    BY <1>8 DEF ComesDue, Tick
  <2> QED BY <2>1, OthersServe DEF SameSends, Busy, AtPass
<1> QED BY <1>1, <1>2, <1>3, <1>4, <1>5, <1>6, <1>7, <1>8 DEF Next

LEMMA SendingKept ==
    ASSUME SentType, SendsAreHeld, SendingIsHeld, [Next]_vars
    PROVE  SendingIsHeld'
<1> USE BrowserIs DEF SentType, SendsAreHeld
<1> SUFFICES ASSUME NEW n \in Messages, outbox'[n] = "sending"
             PROVE  \E g \in Hosts : slot'[g] = <<"send", n>>
  BY DEF SendingIsHeld
<1>1. ASSUME outbox[n] = "sending" PROVE \E g \in Hosts : slot[g] = <<"send", n>>
  BY <1>1 DEF SendingIsHeld
<1>2. CASE UNCHANGED <<outbox, slot>>
  BY <1>1, <1>2
<1>3. ASSUME NEW h \in Hosts, NEW m \in Messages, Dispatches(h, m)
      PROVE  \E g \in Hosts : slot'[g] = <<"send", n>>
  <2>1. /\ slot[h] = Free /\ outbox' = [outbox EXCEPT ![m] = "sending"]
        /\ slot' = [slot EXCEPT ![h] = <<"send", m>>]
    BY <1>3 DEF Dispatches, Sendable
  <2>2. CASE n = m
    BY <2>1, <2>2
  <2>3. CASE n # m
    <3>1. PICK g \in Hosts : slot[g] = <<"send", n>>
      BY <1>1, <2>1, <2>3
    <3>2. g # h
      BY <2>1, <3>1
    <3> QED BY <2>1, <3>1, <3>2
  <2> QED BY <2>2, <2>3
<1>4. ASSUME NEW h \in Hosts, Settles(h) PROVE \E g \in Hosts : slot'[g] = <<"send", n>>
  <2>1. PICK m \in Messages : slot[h] = <<"send", m>>
    BY <1>4 DEF Settles
  <2>2. slot[h][2] = m
    BY <2>1
  <2>3. outbox' = [outbox EXCEPT ![m] = "settled"] /\ slot' = [slot EXCEPT ![h] = Free]
    BY <1>4, <2>2 DEF Settles
  <2>4. n # m
    BY <2>3
  <2>5. PICK g \in Hosts : slot[g] = <<"send", n>>
    BY <1>1, <2>3, <2>4
  <2> QED BY <2>1, <2>3, <2>4, <2>5
<1>5. ASSUME NEW m \in Messages, Enqueues(m), UNCHANGED slot
      PROVE  \E g \in Hosts : slot'[g] = <<"send", n>>
  BY <1>1, <1>5 DEF Enqueues
<1>6. ASSUME NEW h \in Hosts, NEW m \in Messages, slot[h] = <<"scrape", TenantOf[m]>>,
             Enqueues(m), slot' = [slot EXCEPT ![h] = <<"drafted", TenantOf[m]>>]
      PROVE  \E g \in Hosts : slot'[g] = <<"send", n>>
  <2>1. outbox[n] = "sending"
    BY <1>6 DEF Enqueues
  <2>2. PICK g \in Hosts : slot[g] = <<"send", n>>
    BY <1>1, <2>1
  <2>3. g # h
    BY <1>6, <2>2
  <2> QED BY <1>6, <2>2, <2>3
<1>7. ASSUME NEW h \in Hosts, NEW x, slot[h][1] \in {"free", "scrape", "drafted"},
             slot' = [slot EXCEPT ![h] = x], UNCHANGED outbox
      PROVE  \E g \in Hosts : slot'[g] = <<"send", n>>
  <2>1. PICK g \in Hosts : slot[g] = <<"send", n>>
    BY <1>1, <1>7
  <2>2. g # h
    BY <1>7, <2>1
  <2> QED BY <1>7, <2>1, <2>2
<1>8. ASSUME NEW h \in Hosts, Crash(h) PROVE \E g \in Hosts : slot'[g] = <<"send", n>>
  <2>1. /\ slot' = [slot EXCEPT ![h] = Free]
        /\ outbox'[n] = IF slot[h] = <<"send", n>> THEN "queued" ELSE outbox[n]
    BY <1>8 DEF Crash
  <2>2. PICK g \in Hosts : slot[g] = <<"send", n>> /\ g # h
    BY <1>1, <2>1
  <2> QED BY <2>1, <2>2
<1>9. Free[1] = "free"
  BY DEF Free
<1> HIDE DEF SentType, SendsAreHeld
<1> QED BY <1>2, <1>3, <1>4, <1>5, <1>6, <1>7, <1>8, <1>9, SentSteps

\* Whatever raises, dies or is restarted, in any number of hosts: a latch has
\* its thread, a thread that waits has the browser, and a message that is
\* `sending` is in the one browser whose thread will settle it.
THEOREM NothingStranded == Spec => []NothingIsStranded
<1> DEFINE Served == (\A h \in Hosts : Serves(h)) /\ SendingIsHeld
<1>1. Init => Served
  <2> SUFFICES ASSUME Init PROVE Served
    OBVIOUS
  <2>1. \A h \in Hosts : loop[h].at = "off" /\ pass[h].at = "rest" /\ ~ draining[h]
                            /\ slot[h][1] = "free"
    BY DEF Init, NoLoop, NoPass, Free
  <2> QED BY <2>1 DEF Init, Serves, Busy, AtPass, SendingIsHeld
<1>2. TypeInv /\ Latched /\ SendsAreHeld /\ Served /\ [Next]_vars => Served'
  BY ServesKept, SendingKept DEF TypeInv
<1>3. TypeInv /\ SendsAreHeld /\ Served => NothingIsStranded
  <2> SUFFICES ASSUME TypeInv, SendsAreHeld, Served PROVE NothingIsStranded
    OBVIOUS
  <2>1. ASSUME NEW m \in Messages, outbox[m] = "sending"
        PROVE  \E h \in Hosts : {g \in Hosts : slot[g] = <<"send", m>>} = {h}
    <3>1. PICK h \in Hosts : slot[h] = <<"send", m>>
      BY <2>1 DEF SendingIsHeld
    <3> QED BY <3>1 DEF SendsAreHeld
  <2>2. ASSUME NEW h \in Hosts
        PROVE  /\ draining[h] => loop[h].at # "off"
               /\ slot[h][1] = "send" <=> (loop[h].at = "delivering") # AtPass(h, "sending")
               /\ ~ (loop[h].at = "delivering" /\ AtPass(h, "sending"))
    BY DEF Serves, Busy, AtPass
  <2> QED BY <2>1, <2>2 DEF NothingIsStranded
<1> HIDE DEF Served
<1> QED BY <1>1, <1>2, <1>3, ShapeHolds, PTL DEF Spec

-----------------------------------------------------------------------------
(* A slot is checked once and a day's digest is mailed once.               *)

LEMMA InitSlots == Init => SlotInv
<1> SUFFICES ASSUME Init PROVE SlotInv
  OBVIOUS
<1>1. MarksArePast
  BY BackgroundAssumption DEF Init, MarksArePast, UpTo, Never
<1>2. StartsAreCovered /\ MailsAreCovered /\ OncePerSlot
  BY DEF Init, StartsAreCovered, MailsAreCovered, OncePerSlot, Stamps
<1>3. OwedIsUndone
  BY DEF Init, OwedIsUndone, OwedChecks, OwedDigests, AtPass, NoPass
<1> QED BY <1>1, <1>2, <1>3 DEF SlotInv

\* A mark made now covers what it was made for, and what the old mark covered.
LEMMA MarkNow ==
    ASSUME TypeInv, SlotInv, NEW t \in Tenants, UNCHANGED time,
           checked' \in {checked, [checked EXCEPT ![t] = time]},
           digested' \in {digested, [digested EXCEPT ![t] = time]}
    PROVE  /\ MarksArePast'
           /\ \A u \in Tenants, s \in Stamps :
                  /\ UpTo(s, checked[u]) => UpTo(s, checked'[u])
                  /\ UpTo(s, digested[u]) => UpTo(s, digested'[u])
<1>1. /\ time \in Marks /\ Stamps \subseteq Marks
      /\ checked \in [Tenants -> Marks] /\ digested \in [Tenants -> Marks]
  BY DEF TypeInv, TimeType, MarkType, Marks
<1>2. \A u \in Tenants : /\ checked'[u] = checked[u] \/ checked'[u] = time
                         /\ digested'[u] = digested[u] \/ digested'[u] = time
  BY <1>1
<1>3. \A u \in Tenants : UpTo(checked[u], time) /\ UpTo(digested[u], time)
  BY DEF SlotInv, MarksArePast
<1>4. UpTo(time, time)
  BY <1>1, OrderOfStamps
<1>5. MarksArePast'
  <2>1. \A u \in Tenants : UpTo(checked'[u], time') /\ UpTo(digested'[u], time')
    <3>1. time' = time
      OBVIOUS
    <3> QED BY <1>2, <1>3, <1>4, <3>1
  <2> QED BY <2>1 DEF MarksArePast, UpTo
<1>6. ASSUME NEW u \in Tenants, NEW s \in Stamps
      PROVE  /\ UpTo(s, checked[u]) => UpTo(s, checked'[u])
             /\ UpTo(s, digested[u]) => UpTo(s, digested'[u])
  <2>1. /\ UpTo(s, checked[u]) => UpTo(s, time)
        /\ UpTo(s, digested[u]) => UpTo(s, time)
    BY <1>1, <1>3, OrderOfStamps
  <2> QED BY <1>2, <2>1
<1> QED BY <1>5, <1>6

LEMMA ChecksOnce ==
    ASSUME TypeInv, SlotInv, NEW h \in Hosts, NEW t \in Tenants, Checks(h, t)
    PROVE  SlotInv'
<1> DEFINE s == pass[h].for
<1>1. /\ AtPass(h, "checks") /\ t \in pass[h].todo
      /\ UNCHANGED <<time, digested, mails>>
      /\ checked' \in {checked, [checked EXCEPT ![t] = time]}
  BY DEF Checks
<1>2. s \in Stamps /\ UpTo(s, time) /\ (h \in Observed => starts[h][t][s] = 0)
  BY <1>1 DEF SlotInv, OwedIsUndone, OwedChecks
<1>3. MarksArePast' /\ \A u \in Tenants, x \in Stamps : UpTo(x, checked[u]) => UpTo(x, checked'[u])
  BY <1>1, MarkNow
<1>4. /\ starts \in [Observed -> [Tenants -> [Stamps -> Nat]]]
      /\ checked \in [Tenants -> Marks] /\ pass \in [Hosts -> Pass]
  BY DEF TypeInv, MarkType, PassType
<1>5. \/ UNCHANGED starts
      \/ /\ h \in Observed /\ starts' = [starts EXCEPT ![h][t][s] = @ + 1]
         /\ checked' = [checked EXCEPT ![t] = time]
  BY DEF Checks, StartsScrape, Counts
<1> HIDE DEF s
<1>6. /\ \A g \in Observed, u \in Tenants, x \in Stamps :
             starts'[g][u][x] = starts[g][u][x] \/ (g = h /\ u = t /\ x = s)
      /\ h \in Observed => starts'[h][t][s] \in {0, 1}
      /\ h \in Observed /\ starts'[h][t][s] > 0 => checked'[t] = time
  <2>1. CASE UNCHANGED starts
    BY <2>1, <1>2
  <2>2. CASE /\ h \in Observed /\ starts' = [starts EXCEPT ![h][t][s] = @ + 1]
             /\ checked' = [checked EXCEPT ![t] = time]
    <3>1. checked'[t] = time
      BY <2>2, <1>4
    <3>2. starts'[h][t][s] = 1
      BY <2>2, <1>2, <1>4
    <3>3. \A g \in Observed, u \in Tenants, x \in Stamps :
              starts'[g][u][x] = starts[g][u][x] \/ (g = h /\ u = t /\ x = s)
      BY <2>2, <1>2, <1>4
    <3> QED BY <3>1, <3>2, <3>3
  <2> QED BY <1>5, <2>1, <2>2
<1>7. StartsAreCovered'
  <2>1. ASSUME NEW g \in Observed, NEW u \in Tenants, NEW x \in Stamps, starts'[g][u][x] > 0
        PROVE  UpTo(x, checked'[u])
    <3>1. CASE g = h /\ u = t /\ x = s
      <4>1. checked'[t] = time
        BY <1>6, <2>1, <3>1
      <4> QED BY <1>2, <3>1, <4>1
    <3>2. CASE starts'[g][u][x] = starts[g][u][x]
      <4>1. UpTo(x, checked[u])
        BY <2>1, <3>2 DEF SlotInv, StartsAreCovered
      <4> QED BY <1>3, <4>1
    <3> QED BY <1>6, <3>1, <3>2
  <2> QED BY <2>1 DEF StartsAreCovered, UpTo
<1>8. MailsAreCovered'
  BY <1>1 DEF SlotInv, MailsAreCovered, UpTo
<1>9. \A g \in Hosts : /\ pass'[g].at = pass[g].at /\ pass'[g].for = pass[g].for
                       /\ pass'[g].todo \subseteq pass[g].todo
                       /\ t \notin pass'[h].todo
  <2>1. CASE pass' = [pass EXCEPT ![h].todo = @ \ {t}]
    BY <2>1, <1>4 DEF Pass
  <2>2. CASE pass' = [pass EXCEPT ![h].todo = @ \ {t},
                                  ![h].any = @ \/ slot[h] = Free \/ Holder(h) = t]
    BY <2>2, <1>4 DEF Pass
  <2> QED BY <2>1, <2>2 DEF Checks
<1>10. OwedIsUndone'
  <2>1. ASSUME NEW g \in Hosts PROVE OwedChecks(g)'
    <3>1. ASSUME pass'[g].at = "checks", NEW u \in pass'[g].todo
          PROVE  /\ pass'[g].for \in Stamps /\ UpTo(pass'[g].for, time')
                 /\ g \in Observed => starts'[g][u][pass'[g].for] = 0
      <4>1. /\ pass[g].at = "checks" /\ u \in pass[g].todo /\ pass'[g].for = pass[g].for
            /\ u \in Tenants /\ time' = time
        BY <3>1, <1>1, <1>4, <1>9 DEF Pass
      <4>2. /\ pass[g].for \in Stamps /\ UpTo(pass[g].for, time)
            /\ g \in Observed => starts[g][u][pass[g].for] = 0
        BY <4>1 DEF SlotInv, OwedIsUndone, OwedChecks, AtPass
      <4>3. ~ (g = h /\ u = t)
        BY <1>9, <3>1
      <4> QED BY <1>6, <4>1, <4>2, <4>3
    <3> QED BY <3>1 DEF OwedChecks, AtPass, UpTo
  <2>2. ASSUME NEW g \in Hosts PROVE OwedDigests(g)'
    <3>1. ASSUME pass'[g].at = "digests", NEW u \in pass'[g].todo
          PROVE  /\ pass'[g].for \in Stamps /\ UpTo(pass'[g].for, time')
                 /\ pass'[g].for[2] = DigestTime
                 /\ g \in Observed => mails'[g][u][pass'[g].for[1]] = 0
      <4>1. /\ pass[g].at = "digests" /\ u \in pass[g].todo /\ pass'[g].for = pass[g].for
            /\ time' = time /\ mails' = mails
        BY <3>1, <1>1, <1>9
      <4> QED BY <4>1 DEF SlotInv, OwedIsUndone, OwedDigests, AtPass
    <3> QED BY <3>1 DEF OwedDigests, AtPass, UpTo
  <2> QED BY <2>1, <2>2 DEF OwedIsUndone
<1>11. OncePerSlot'
  <2>1. ASSUME NEW g \in Observed, NEW u \in Tenants, NEW x \in Stamps PROVE starts'[g][u][x] <= 1
    <3>1. starts[g][u][x] <= 1
      BY DEF SlotInv, OncePerSlot, Stamps
    <3> QED BY <1>6, <3>1
  <2> QED BY <1>1, <2>1 DEF SlotInv, OncePerSlot, Stamps
<1> QED BY <1>3, <1>7, <1>8, <1>10, <1>11 DEF SlotInv

LEMMA DigestsOnce ==
    ASSUME TypeInv, SlotInv, NEW h \in Hosts, NEW t \in Tenants, Digests(h, t)
    PROVE  SlotInv'
<1> DEFINE d == pass[h].for[1]
<1>1. /\ AtPass(h, "digests") /\ t \in pass[h].todo
      /\ UNCHANGED <<time, checked, starts>>
      /\ digested' = [digested EXCEPT ![t] = time]
      /\ \/ UNCHANGED mails
         \/ h \in Observed /\ mails' = [mails EXCEPT ![h][t][d] = @ + 1]
      /\ pass' = [pass EXCEPT ![h].todo = @ \ {t}]
  BY DEF Digests, Counts
<1>2. d \in Days /\ UpTo(<<d, DigestTime>>, time) /\ (h \in Observed => mails[h][t][d] = 0)
  <2>1. /\ pass[h].for \in Stamps /\ UpTo(pass[h].for, time)
        /\ pass[h].for[2] = DigestTime /\ (h \in Observed => mails[h][t][d] = 0)
    BY <1>1 DEF SlotInv, OwedIsUndone, OwedDigests
  <2> QED BY <2>1 DEF Stamps, UpTo
<1>3. MarksArePast' /\ \A u \in Tenants, x \in Stamps : UpTo(x, digested[u]) => UpTo(x, digested'[u])
  BY <1>1, MarkNow
<1>4. /\ mails \in [Observed -> [Tenants -> [Days -> Nat]]]
      /\ digested \in [Tenants -> Marks] /\ pass \in [Hosts -> Pass]
  BY DEF TypeInv, MarkType, PassType
<1> HIDE DEF d
<1>5. /\ \A g \in Observed, u \in Tenants, x \in Days :
             mails'[g][u][x] = mails[g][u][x] \/ (g = h /\ u = t /\ x = d)
      /\ h \in Observed => mails'[h][t][d] \in {0, 1}
      /\ digested'[t] = time
  <2>1. CASE UNCHANGED mails
    BY <2>1, <1>1, <1>2, <1>4
  <2>2. CASE h \in Observed /\ mails' = [mails EXCEPT ![h][t][d] = @ + 1]
    <3>1. mails'[h][t][d] = 1
      BY <2>2, <1>2, <1>4
    <3>2. \A g \in Observed, u \in Tenants, x \in Days :
              mails'[g][u][x] = mails[g][u][x] \/ (g = h /\ u = t /\ x = d)
      BY <2>2, <1>2, <1>4
    <3> QED BY <1>1, <1>4, <3>1, <3>2
  <2> QED BY <1>1, <2>1, <2>2
<1>6. MailsAreCovered'
  <2>1. ASSUME NEW g \in Observed, NEW u \in Tenants, NEW x \in Days, mails'[g][u][x] > 0
        PROVE  UpTo(<<x, DigestTime>>, digested'[u])
    <3>1. CASE g = h /\ u = t /\ x = d
      BY <1>2, <1>5, <3>1
    <3>2. CASE mails'[g][u][x] = mails[g][u][x]
      <4>1. UpTo(<<x, DigestTime>>, digested[u]) /\ <<x, DigestTime>> \in Stamps
        BY <2>1, <3>2, BackgroundAssumption DEF SlotInv, MailsAreCovered, Stamps, Hours
      <4> QED BY <1>3, <4>1
    <3> QED BY <1>5, <3>1, <3>2
  <2> QED BY <2>1 DEF MailsAreCovered, UpTo
<1>7. StartsAreCovered'
  BY <1>1 DEF SlotInv, StartsAreCovered, UpTo
<1>8. \A g \in Hosts : /\ pass'[g].at = pass[g].at /\ pass'[g].for = pass[g].for
                       /\ pass'[g].todo \subseteq pass[g].todo
                       /\ t \notin pass'[h].todo
  BY <1>1, <1>4 DEF Pass
<1>9. OwedIsUndone'
  <2>1. ASSUME NEW g \in Hosts PROVE OwedChecks(g)'
    <3>1. ASSUME pass'[g].at = "checks", NEW u \in pass'[g].todo
          PROVE  /\ pass'[g].for \in Stamps /\ UpTo(pass'[g].for, time')
                 /\ g \in Observed => starts'[g][u][pass'[g].for] = 0
      <4>1. /\ pass[g].at = "checks" /\ u \in pass[g].todo /\ pass'[g].for = pass[g].for
            /\ time' = time /\ starts' = starts
        BY <3>1, <1>1, <1>8
      <4> QED BY <4>1 DEF SlotInv, OwedIsUndone, OwedChecks, AtPass
    <3> QED BY <3>1 DEF OwedChecks, AtPass, UpTo
  <2>2. ASSUME NEW g \in Hosts PROVE OwedDigests(g)'
    <3>1. ASSUME pass'[g].at = "digests", NEW u \in pass'[g].todo
          PROVE  /\ pass'[g].for \in Stamps /\ UpTo(pass'[g].for, time')
                 /\ pass'[g].for[2] = DigestTime
                 /\ g \in Observed => mails'[g][u][pass'[g].for[1]] = 0
      <4>1. /\ pass[g].at = "digests" /\ u \in pass[g].todo /\ pass'[g].for = pass[g].for
            /\ u \in Tenants /\ time' = time
        BY <3>1, <1>1, <1>4, <1>8 DEF Pass
      <4>2. /\ pass[g].for \in Stamps /\ UpTo(pass[g].for, time)
            /\ pass[g].for[2] = DigestTime
            /\ g \in Observed => mails[g][u][pass[g].for[1]] = 0
        BY <4>1 DEF SlotInv, OwedIsUndone, OwedDigests, AtPass
      <4>3. ~ (g = h /\ u = t) /\ pass[g].for[1] \in Days
        BY <1>8, <3>1, <4>2, StampsAreNumbers
      <4> QED BY <1>5, <4>1, <4>2, <4>3
    <3> QED BY <3>1 DEF OwedDigests, AtPass, UpTo
  <2> QED BY <2>1, <2>2 DEF OwedIsUndone
<1>10. OncePerSlot'
  <2>1. ASSUME NEW g \in Observed, NEW u \in Tenants, NEW x \in Days PROVE mails'[g][u][x] <= 1
    <3>1. mails[g][u][x] <= 1
      BY DEF SlotInv, OncePerSlot
    <3> QED BY <1>5, <3>1
  <2> QED BY <1>1, <2>1 DEF SlotInv, OncePerSlot
<1> QED BY <1>3, <1>6, <1>7, <1>9, <1>10 DEF SlotInv

\* A pass that changes places owes what its list says, and nothing else
\* changes.
LEMMA NewList ==
    ASSUME SlotInv, NEW h \in Hosts, NEW r, pass \in [Hosts -> Pass],
           pass' = [pass EXCEPT ![h] = r], UNCHANGED <<time, settings, counts>>,
           OwedChecks(h)', OwedDigests(h)'
    PROVE  SlotInv'
<1>1. MarksArePast' /\ StartsAreCovered' /\ MailsAreCovered' /\ OncePerSlot'
  BY DEF SlotInv, MarksArePast, StartsAreCovered, MailsAreCovered, OncePerSlot, UpTo,
         settings, counts
<1>2. ASSUME NEW g \in Hosts, g # h PROVE OwedChecks(g)' /\ OwedDigests(g)'
  <2>1. pass'[g] = pass[g]
    BY <1>2
  <2> QED BY <2>1 DEF SlotInv, OwedIsUndone, OwedChecks, OwedDigests, AtPass, UpTo, settings, counts
<1> QED BY <1>1, <1>2 DEF SlotInv, OwedIsUndone

LEMMA PassMovesOn ==
    ASSUME TypeInv, SlotInv, NEW h \in Hosts,
           \/ PassBegins(h) \/ ChecksEnd(h)
           \/ \E r \in Pass :
                  /\ r.at \notin {"checks", "digests"}
                  /\ pass' = [pass EXCEPT ![h] = r] /\ UNCHANGED <<time, settings, counts>>
    PROVE  SlotInv'
<1>1. /\ pass \in [Hosts -> Pass] /\ TimeType
      /\ checked \in [Tenants -> Marks] /\ digested \in [Tenants -> Marks]
      /\ starts \in [Observed -> [Tenants -> [Stamps -> Nat]]]
      /\ mails \in [Observed -> [Tenants -> [Days -> Nat]]]
      /\ \A t \in Tenants : UpTo(checked[t], time) /\ UpTo(digested[t], time)
  BY DEF TypeInv, PassType, MarkType, SlotInv, MarksArePast
<1>2. CASE PassBegins(h)
  <2> DEFINE s == <<Day, Max(Passed \cup {0})>>
             r == [NoPass EXCEPT !.at = "checks", !.for = s, !.todo = {t \in Tenants : CheckDue(t)}]
  <2>1. pass' = [pass EXCEPT ![h] = r] /\ UNCHANGED <<time, settings, counts>>
    BY <1>2 DEF PassBegins
  <2>2. s \in Stamps /\ UpTo(s, time)
    BY <1>1, SlotOfPass
  <2>3. ASSUME NEW t \in Tenants, CheckDue(t), h \in Observed PROVE starts[h][t][s] = 0
    <3>1. Passed # {} /\ s = <<Day, Max(Passed)>> /\ Max(Passed) \in Hours
      <4>1. Passed # {} /\ 0 \in CheckTimes \cup {0} /\ Passed \in SUBSET (0 .. LastHour)
        BY <2>3, BackgroundAssumption DEF CheckDue, Passed
      <4>2. Max(Passed \cup {0}) = Max(Passed)
        BY <4>1, MaxWithZero, BackgroundAssumption
      <4> QED BY <4>1, <4>2, MaxExists, BackgroundAssumption DEF Hours
    <3>2. ~ UpTo(s, checked[t])
      BY <1>1, <2>3, <3>1, UncoveredIsLater DEF CheckDue
    <3>3. ~ (starts[h][t][s] > 0)
      BY <2>2, <2>3, <3>2 DEF SlotInv, StartsAreCovered
    <3>4. starts[h][t][s] \in Nat
      BY <1>1, <2>2, <2>3
    <3> QED BY <3>3, <3>4
  <2> HIDE DEF s
  <2>4. r.at = "checks" /\ r.for = s /\ r.todo = {t \in Tenants : CheckDue(t)}
    BY DEF NoPass
  <2> HIDE DEF r
  <2>5. pass'[h] = r
    BY <1>1, <2>1
  <2>6. OwedChecks(h)' /\ OwedDigests(h)'
    BY <2>1, <2>2, <2>3, <2>4, <2>5 DEF OwedChecks, OwedDigests, AtPass, UpTo, settings, counts
  <2> QED BY <1>1, <2>1, <2>6, NewList
<1>3. CASE ChecksEnd(h)
  <2> DEFINE s == <<Day, DigestTime>>
             r == [NoPass EXCEPT !.at = "digests", !.for = s, !.todo = {t \in Tenants : DigestDue(t)}]
  <2>1. pass' = [pass EXCEPT ![h] = r] /\ UNCHANGED <<time, settings, counts>>
    BY <1>3 DEF ChecksEnd
  <2>2. /\ s \in Stamps /\ s[1] = Day /\ s[2] = DigestTime /\ Day \in Days
        /\ DigestTime \in Hours
        /\ DigestTime <= Hour => UpTo(s, time)
    BY <1>1, BackgroundAssumption DEF TimeType, Stamps, Hours, Day, Hour, UpTo
  <2>3. ASSUME NEW t \in Tenants, DigestDue(t)
        PROVE  UpTo(s, time) /\ (h \in Observed => mails[h][t][s[1]] = 0)
    <3>1. ~ UpTo(s, digested[t])
      BY <1>1, <2>2, <2>3, UncoveredIsLater DEF DigestDue
    <3>2. h \in Observed => ~ (mails[h][t][Day] > 0)
      BY <2>2, <3>1 DEF SlotInv, MailsAreCovered
    <3>3. h \in Observed => mails[h][t][Day] \in Nat
      BY <1>1, <2>2
    <3> QED BY <2>2, <2>3, <3>2, <3>3 DEF DigestDue
  <2> HIDE DEF s
  <2>4. r.at = "digests" /\ r.for = s /\ r.todo = {t \in Tenants : DigestDue(t)}
    BY DEF NoPass
  <2> HIDE DEF r
  <2>5. pass'[h] = r
    BY <1>1, <2>1
  <2>6. OwedChecks(h)' /\ OwedDigests(h)'
    BY <2>1, <2>2, <2>3, <2>4, <2>5 DEF OwedChecks, OwedDigests, AtPass, UpTo, settings, counts
  <2> QED BY <1>1, <2>1, <2>6, NewList
<1>4. ASSUME NEW r \in Pass, r.at \notin {"checks", "digests"},
             pass' = [pass EXCEPT ![h] = r], UNCHANGED <<time, settings, counts>>
      PROVE  SlotInv'
  <2>1. r.at # "checks" /\ r.at # "digests"
    BY <1>4
  <2>2. pass'[h] = r
    BY <1>1, <1>4
  <2>3. OwedChecks(h)' /\ OwedDigests(h)'
    BY <2>1, <2>2 DEF OwedChecks, OwedDigests, AtPass
  <2> QED BY <1>1, <1>4, <2>3, NewList
<1> QED BY <1>2, <1>3, <1>4

\* What is past stays past.
LEMMA SlotsAsTimeGoes ==
    ASSUME TypeInv, SlotInv, Tick
    PROVE  SlotInv'
<1>1. UNCHANGED <<settings, counts, pass>> /\ UpTo(time, time') /\ time \in Marks /\ time' \in Marks
  BY ClockGoesOn DEF Tick, TypeInv, TimeType, Marks
<1>2. \A x \in Marks : UpTo(x, time) => UpTo(x, time')
  BY <1>1, OrderOfStamps
<1>3. MarksArePast'
  <2>1. \A t \in Tenants : UpTo(checked[t], time') /\ UpTo(digested[t], time')
    BY <1>2 DEF SlotInv, MarksArePast, TypeInv, MarkType
  <2> QED BY <1>1, <2>1 DEF MarksArePast, UpTo, settings
<1>4. StartsAreCovered' /\ MailsAreCovered' /\ OncePerSlot'
  BY <1>1 DEF SlotInv, StartsAreCovered, MailsAreCovered, OncePerSlot, UpTo, settings, counts
<1>5. ASSUME NEW h \in Hosts PROVE OwedChecks(h)' /\ OwedDigests(h)'
  <2>1. OwedChecks(h) /\ OwedDigests(h)
    BY DEF SlotInv, OwedIsUndone
  <2>2. \A x \in Stamps : UpTo(x, time) => UpTo(x, time')
    BY <1>2 DEF Marks
  <2>3. OwedChecks(h)'
    <3>1. ASSUME AtPass(h, "checks"), NEW t \in pass[h].todo
          PROVE  UpTo(pass[h].for, time') /\ pass[h].for \in Stamps
      BY <2>1, <2>2, <3>1 DEF OwedChecks
    <3> QED BY <1>1, <2>1, <3>1 DEF OwedChecks, AtPass, UpTo, counts
  <2>4. OwedDigests(h)'
    <3>1. ASSUME AtPass(h, "digests"), NEW t \in pass[h].todo
          PROVE  UpTo(pass[h].for, time') /\ pass[h].for \in Stamps
      BY <2>1, <2>2, <3>1 DEF OwedDigests
    <3> QED BY <1>1, <2>1, <3>1 DEF OwedDigests, AtPass, UpTo, counts
  <2> QED BY <2>3, <2>4
<1> QED BY <1>3, <1>4, <1>5 DEF SlotInv, OwedIsUndone

\* due_slot and digest_due: however hosts crash, restart, fail and overtake one
\* another, and however late a pass gets to the end of its list, a host checks
\* a slot and mails a day's digest at most once per tenant.
THEOREM SlotsAreOnce == Spec => []OncePerSlot
<1> DEFINE Inv == TypeInv /\ Latched /\ SendsAreHeld
<1>1. Init => SlotInv
  BY InitSlots
<1>2. Inv /\ SlotInv /\ [Next]_vars => SlotInv'
  <2> SUFFICES ASSUME Inv, SlotInv, [Next]_vars PROVE SlotInv'
    OBVIOUS
  <2>1. CASE UNCHANGED <<time, settings, counts, pass>>
    BY <2>1 DEF SlotInv, MarksArePast, StartsAreCovered, MailsAreCovered, OwedIsUndone,
                OwedChecks, OwedDigests, OncePerSlot, AtPass, UpTo, settings, counts
  <2> QED BY <2>1, PlanSteps, SlotsAsTimeGoes, PassMovesOn, ChecksOnce, DigestsOnce DEF TypeInv
<1>3. SlotInv => OncePerSlot
  BY DEF SlotInv
<1>4. Spec => []Inv
  BY ShapeHolds
<1> HIDE DEF Inv
<1> QED BY <1>1, <1>2, <1>3, <1>4, PTL DEF Spec
=============================================================================
