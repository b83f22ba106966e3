---------------------------- MODULE Jobs_proofs ----------------------------
(***************************************************************************)
(* Theorems about Jobs, for every number of tenants, request threads,      *)
(* workers and clicks: the types, exclusive runs, that a job called off    *)
(* while it was queued never gets a worker, that a code is used once, how  *)
(* many active jobs a tenant can have at once, and that the queue is a     *)
(* JobLife.  All of them rest on one fact about the table: no statement    *)
(* makes a job `queued` that was not.                                      *)
(***************************************************************************)
EXTENDS Jobs, FiniteSetTheorems, TLAPS

Busy == {"claiming", "claimed", "browsing", "polling", "clearing",
         "succeeded", "failed", "storing"}

Driving == {"claimed", "browsing", "polling", "clearing", "succeeded", "failed"}

Places == Busy \cup {"dead", "idle", "rest", "looking", "throttling", "inserting",
                     "typing", "canceling"}

Process == [at : Places, id : Nat, tenant : Tenants, job : Nat, code : Nat]

Passes == {"off", "reading", "failing", "mirroring"}

Reaping == [at : Passes, me : Nat, online : BOOLEAN, doomed : SUBSET Nat, last : Nat]

Bounds == {"checks", "codes", "prompts", "links", "crashes", "clicks"}

Shape ==
    /\ jobs \in Seq(Job)
    /\ fresh \in BOOLEAN
    /\ account \in [Tenants -> States]
    /\ proc \in [Processes -> Process]
    /\ reap \in [Processes -> Reaping]
    /\ left \in [Bounds -> Nat]

\* Whoever is at work on a job is at work on a row that is there.
RefsOf(p) ==
    /\ proc[p].job \in JobIds \cup {NoJob}
    /\ proc[p].at \in Busy => proc[p].job \in JobIds

ReapOf(p) ==
    /\ reap[p].doomed \subseteq JobIds
    /\ reap[p].at = "mirroring" => reap[p].last \in JobIds

Refs == \A p \in Processes : RefsOf(p) /\ ReapOf(p)

\* A job somebody drives is not queued, so nobody else can claim it.
DrivenIsClaimed ==
    \A w \in Workers : proc[w].at \in Driving => jobs[proc[w].job].status # Queued

DrivenByOne ==
    \A v, w \in Workers :
        v # w /\ proc[v].at \in Driving /\ proc[w].at \in Driving
            => proc[v].job # proc[w].job

IInv == Shape /\ Refs /\ DrivenIsClaimed /\ DrivenByOne

-----------------------------------------------------------------------------
(* The table.                                                              *)

\* What every step does to the rows that are there.
RowKept(j) ==
    /\ jobs[j].status # Queued =>
           jobs'[j].status # Queued /\ jobs'[j].worker = jobs[j].worker
    /\ jobs'[j].tenant = jobs[j].tenant
    /\ jobs[j].over => jobs'[j].over
    /\ jobs'[j].status \in Final => jobs'[j].over \/ jobs[j].status \in Final

TableKept ==
    /\ jobs' \in Seq(Job)
    /\ JobIds \subseteq JobIds'
    /\ \A j \in JobIds : RowKept(j)
    /\ JobIds' = JobIds \/ \E r \in Requests : Inserts(r)

\* One row is written.
LEMMA RowWritten ==
    ASSUME jobs \in Seq(Job), NEW j \in JobIds, NEW row \in Job,
           jobs' = [jobs EXCEPT ![j] = row]
    PROVE  /\ jobs' \in Seq(Job)
           /\ JobIds' = JobIds
           /\ jobs'[j] = row
           /\ \A k \in JobIds : k # j => jobs'[k] = jobs[k]
  BY DEF JobIds

\* A row written so is kept, and so is every other.
LEMMA RewriteKeeps ==
    ASSUME jobs \in Seq(Job), NEW j \in JobIds, NEW row \in Job,
           jobs' = [jobs EXCEPT ![j] = row],
           jobs[j].status # Queued => row.status # Queued /\ row.worker = jobs[j].worker,
           row.tenant = jobs[j].tenant,
           jobs[j].over => row.over,
           row.status \in Final => row.over \/ jobs[j].status \in Final
    PROVE  TableKept
  <1>1. /\ jobs' \in Seq(Job) /\ JobIds' = JobIds /\ jobs'[j] = row
        /\ \A k \in JobIds : k # j => jobs'[k] = jobs[k]
    BY RowWritten
  <1>2. RowKept(j)
    BY <1>1 DEF RowKept
  <1>3. \A k \in JobIds : k # j => RowKept(k)
    BY <1>1 DEF RowKept
  <1>4. QED
    BY <1>1, <1>2, <1>3 DEF TableKept

\* set_status never queues a job, and leaves its worker alone.
LEMMA PutKeeps ==
    ASSUME jobs \in Seq(Job), NEW j \in JobIds,
           NEW status \in {Running, Waiting, Done, Error}, NEW stale \in BOOLEAN,
           Put(j, status, stale)
    PROVE  TableKept
  <1> DEFINE row == [jobs[j] EXCEPT !.status = status, !.stale = stale,
                                    !.cooling = (status = Error),
                                    !.over = @ \/ status \in Final]
  <1>1. jobs[j] \in Job
    BY DEF JobIds
  <1>2. /\ row \in Job /\ row.status = status /\ row.worker = jobs[j].worker
        /\ row.tenant = jobs[j].tenant
        /\ row.over = (jobs[j].over \/ status \in Final)
    BY <1>1 DEF Job, ActiveStates, Final, Queued, Running, Waiting, Done, Error, Canceled
  <1>3. jobs' = [jobs EXCEPT ![j] = row]
    BY DEF Put
  <1> HIDE DEF row
  <1>4. QED
    BY <1>2, <1>3, RewriteKeeps
       DEF Queued, Running, Waiting, Done, Error

\* The four ways a step treats the table: not at all, or one of these.
LEMMA TableStep ==
    ASSUME IInv, [Next]_vars
    PROVE  TableKept
  <1> USE DEF IInv, Shape
  <1>1. CASE UNCHANGED jobs
    BY <1>1 DEF TableKept, RowKept, JobIds
  <1>2. ASSUME NEW p \in Processes, NEW j \in JobIds, ReapFails(p, j)
        PROVE  TableKept
    BY <1>2, PutKeeps DEF ReapFails
  <1>3. ASSUME NEW r \in Requests, Inserts(r)
        PROVE  TableKept
    <2> DEFINE row == [tenant |-> proc[r].tenant, status |-> Queued,
                       stale |-> FALSE, otp |-> NoCode, worker |-> Nobody,
                       old |-> FALSE, cooling |-> FALSE, over |-> FALSE]
    <2>1. row \in Job
      BY DEF Job, Process, Processes, ActiveStates, NoCode, Nobody
    <2>2. jobs' = Append(jobs, row)
      BY <1>3 DEF Inserts
    <2> HIDE DEF row
    <2>3. /\ jobs' \in Seq(Job)
          /\ JobIds \subseteq JobIds'
          /\ \A j \in JobIds : jobs'[j] = jobs[j]
      BY <2>1, <2>2 DEF JobIds
    <2>4. QED
      BY <1>3, <2>3 DEF TableKept, RowKept
  <1>4. ASSUME NEW r \in Requests, StoresCode(r)
        PROVE  TableKept
    <2> DEFINE j   == proc[r].job
               row == [jobs[j] EXCEPT !.otp = proc[r].code,
                                      !.cooling = (jobs[j].status = Error)]
    <2>1. j \in JobIds /\ proc[r].code \in Nat
      BY <1>4 DEF StoresCode, At, Refs, RefsOf, Busy, Processes, Process
    <2>2. jobs[j] \in Job
      BY <2>1 DEF JobIds
    <2>3. /\ row \in Job /\ row.status = jobs[j].status /\ row.worker = jobs[j].worker
          /\ row.tenant = jobs[j].tenant /\ row.over = jobs[j].over
      BY <2>1, <2>2 DEF Job
    <2>4. jobs' = [jobs EXCEPT ![j] = row]
      BY <1>4 DEF StoresCode
    <2> HIDE DEF row, j
    <2>5. QED
      BY <2>1, <2>3, <2>4, RewriteKeeps
  <1>5. ASSUME NEW r \in Requests, Cancels(r)
        PROVE  TableKept
    <2> DEFINE active == ActiveOf(proc[r].tenant)
               row(j) == IF j \in active
                         THEN [jobs[j] EXCEPT !.status = Canceled, !.over = TRUE]
                         ELSE jobs[j]
    <2>1. jobs' = [j \in JobIds |-> row(j)]
      BY <1>5 DEF Cancels
    <2>2. ASSUME NEW j \in JobIds
          PROVE  /\ row(j) \in Job
                 /\ row(j).worker = jobs[j].worker
                 /\ row(j).tenant = jobs[j].tenant
                 /\ jobs[j].over => row(j).over
                 /\ row(j).over \/ row(j).status = jobs[j].status
                 /\ jobs[j].status # Queued => row(j).status # Queued
      <3>1. jobs[j] \in Job
        BY DEF JobIds
      <3>2. QED
        BY <3>1 DEF Job, Final, Canceled, Queued
    <2> HIDE DEF row, active
    <2>3. jobs' \in Seq(Job) /\ JobIds' = JobIds
      BY <2>1, <2>2 DEF JobIds
    <2>4. QED
      BY <2>1, <2>2, <2>3 DEF TableKept, RowKept
  <1>6. ASSUME NEW w \in Workers, Claims(w)
        PROVE  TableKept
    <2>1. CASE UNCHANGED jobs
      BY <1>1, <2>1
    <2>2. CASE jobs[proc[w].job].status = Queued /\ Takes(w, proc[w].job)
      <3> DEFINE j   == proc[w].job
                 row == [jobs[j] EXCEPT !.status = Running, !.worker = proc[w].id,
                                        !.stale = FALSE]
      <3>1. j \in JobIds /\ proc[w].id \in Nat
        BY <1>6 DEF Claims, At, Refs, RefsOf, Busy, Processes, Process
      <3>2. jobs[j] \in Job
        BY <3>1 DEF JobIds
      <3>3. /\ row \in Job /\ row.tenant = jobs[j].tenant /\ row.over = jobs[j].over
            /\ row.status \notin Final
        BY <3>1, <3>2 DEF Job, ActiveStates, Running, Final, Done, Error, Canceled
      <3>4. jobs' = [jobs EXCEPT ![j] = row]
        BY <2>2 DEF Takes
      <3>5. jobs[j].status = Queued
        BY <2>2
      <3> HIDE DEF row, j
      <3>6. QED
        BY <3>1, <3>3, <3>4, <3>5, RewriteKeeps
    <2>3. QED
      BY <1>6, <2>1, <2>2 DEF Claims
  <1>7. ASSUME NEW w \in Workers, Reports(w)
        PROVE  TableKept
    <2>1. proc[w].job \in JobIds
      BY <1>7 DEF Reports, At, Refs, RefsOf, Busy, Processes
    <2>2. QED
      BY <1>7, <2>1, PutKeeps DEF Reports
  <1>8. ASSUME NEW w \in Workers, Prompts(w)
        PROVE  TableKept
    <2>1. proc[w].job \in JobIds
      BY <1>8 DEF Prompts, At, Refs, RefsOf, Busy, Processes
    <2>2. QED
      BY <1>8, <2>1, PutKeeps DEF Prompts
  <1>9. ASSUME NEW w \in Workers, ClearsCode(w)
        PROVE  TableKept
    <2> DEFINE j   == proc[w].job
               row == [jobs[j] EXCEPT !.otp = NoCode,
                                      !.cooling = (jobs[j].status = Error)]
    <2>1. j \in JobIds
      BY <1>9 DEF ClearsCode, At, Refs, RefsOf, Busy, Processes
    <2>2. jobs[j] \in Job
      BY <2>1 DEF JobIds
    <2>3. /\ row \in Job /\ row.status = jobs[j].status /\ row.worker = jobs[j].worker
          /\ row.tenant = jobs[j].tenant /\ row.over = jobs[j].over
      BY <2>2 DEF Job, NoCode
    <2>4. jobs' = [jobs EXCEPT ![j] = row]
      BY <1>9 DEF ClearsCode
    <2> HIDE DEF row, j
    <2>5. QED
      BY <2>1, <2>3, <2>4, RewriteKeeps
  <1>10. ASSUME NEW w \in Workers, Succeeds(w) \/ Fails(w)
         PROVE  TableKept
    <2>1. proc[w].job \in JobIds
      BY <1>10 DEF Succeeds, Fails, At, Refs, RefsOf, Busy, Processes
    <2>2. Put(proc[w].job, Done, FALSE) \/ Put(proc[w].job, Error, FALSE)
      BY <1>10 DEF Succeeds, Fails, Ends
    <2>3. QED
      BY <2>1, <2>2, PutKeeps
  <1>11. ASSUME NEW j \in JobIds, JobAges(j) \/ ErrorCools(j)
         PROVE  TableKept
    <2>1. jobs[j] \in Job
      BY DEF JobIds
    <2>2. PICK row \in Job : /\ row.status = jobs[j].status
                             /\ row.worker = jobs[j].worker
                             /\ row.tenant = jobs[j].tenant /\ row.over = jobs[j].over
                             /\ jobs' = [jobs EXCEPT ![j] = row]
      <3>1. CASE JobAges(j)
        <4>1. [jobs[j] EXCEPT !.old = TRUE] \in Job
          BY <2>1 DEF Job
        <4>2. QED
          BY <2>1, <3>1, <4>1 DEF JobAges, Job
      <3>2. CASE ErrorCools(j)
        <4>1. [jobs[j] EXCEPT !.cooling = FALSE] \in Job
          BY <2>1 DEF Job
        <4>2. QED
          BY <2>1, <3>2, <4>1 DEF ErrorCools, Job
      <3>3. QED
        BY <1>11, <3>1, <3>2
    <2>3. QED
      BY <2>2, RewriteKeeps
  <1>12. CASE UNCHANGED vars
    BY <1>1, <1>12 DEF vars
  <1>13. ASSUME NEW r \in Requests, RequestStep(r) \/ Polls(r)
         PROVE  TableKept
    BY <1>1, <1>2, <1>3, <1>4, <1>5, <1>13
       DEF RequestStep, Polls, Looks, Throttles, FindsJob, ReapReads, ReapMirrors, Processes
  <1>14. ASSUME NEW r \in Requests, NEW t \in Tenants,
                Checks(r, t) \/ Types(r, t) \/ Disconnects(r, t) \/ Connects(r, t)
         PROVE  TableKept
    BY <1>1, <1>14 DEF Checks, Types, Disconnects, Connects, Asks
  <1>15. ASSUME NEW w \in Workers, WorkerStep(w) \/ Starts(w) \/ Reports(w) \/ Crash(w)
         PROVE  TableKept
    BY <1>1, <1>2, <1>6, <1>7, <1>8, <1>9, <1>10, <1>15
       DEF WorkerStep, Starts, Crash, ClaimReads, Begins, ReadsCode, Mirrors,
           ReapReads, ReapMirrors, Processes
  <1>16. CASE BeaconFades
    BY <1>1, <1>16 DEF BeaconFades
  <1>17. QED
    BY <1>11, <1>12, <1>13, <1>14, <1>15, <1>16 DEF Next

-----------------------------------------------------------------------------
(* The processes.                                                          *)

\* A step of one process: its own place is all that has to be looked at.
LEMMA OneMoves ==
    ASSUME Refs, TableKept, NEW p \in Processes,
           \A q \in Processes \ {p} : proc'[q] = proc[q] /\ reap'[q] = reap[q],
           RefsOf(p)', ReapOf(p)'
    PROVE  Refs'
  BY DEF Refs, RefsOf, ReapOf, TableKept

\* What Spend and Clicks leave of the bounds.
LEMMA SpendKeeps ==
    ASSUME left \in [Bounds -> Nat], NEW what \in Bounds, Spend(what) \/ Clicks(what)
    PROVE  left' \in [Bounds -> Nat]
  BY DEF Spend, Clicks, Bounds

LEMMA MarkKeeps ==
    ASSUME account \in [Tenants -> States], NEW t \in Tenants, NEW state \in States,
           Mark(t, state)
    PROVE  account' \in [Tenants -> States]
  BY DEF Mark

\* Requests.
LEMMA RequestMoves ==
    ASSUME IInv, TableKept, NEW r \in Requests,
           Looks(r) \/ Throttles(r) \/ Inserts(r) \/ FindsJob(r) \/ StoresCode(r) \/ Cancels(r)
    PROVE  Shape' /\ Refs'
  <1> r \in Processes
    BY DEF Processes
  <1> USE DEF IInv, Shape, At, Goes
  <1>1. CASE Looks(r) \/ Throttles(r) \/ Inserts(r) \/ Cancels(r)
    <2>1. PICK place \in {"rest", "throttling", "inserting"} :
              /\ proc' = [proc EXCEPT ![r].at = place]
              /\ UNCHANGED <<fresh, account, reap, left>>
      BY <1>1 DEF Looks, Throttles, Inserts, Cancels
    <2>2. Shape'
      BY <2>1 DEF TableKept, Process, Places, Busy
    <2>3. RefsOf(r)' /\ ReapOf(r)'
      BY <2>1 DEF Refs, RefsOf, ReapOf, Busy, TableKept, Process
    <2>4. QED
      BY <2>1, <2>2, <2>3, OneMoves
  <1>2. CASE FindsJob(r) \/ StoresCode(r)
    <2>1. proc[r] \in Process /\ JobIds \subseteq Nat
      BY DEF JobIds
    <2>2. PICK new \in Process :
              /\ proc' = [proc EXCEPT ![r] = new]
              /\ new.job \in JobIds \cup {NoJob}
              /\ new.at \in Busy => new.job \in JobIds
              /\ UNCHANGED <<fresh, account, reap, left>>
      <3>1. CASE StoresCode(r)
        <4> DEFINE new == [proc[r] EXCEPT !.at = "rest", !.job = NoJob, !.code = NoCode]
        <4>1. new \in Process /\ new.at = "rest" /\ new.job = NoJob
          BY <2>1 DEF Process, Places, NoJob, NoCode
        <4>2. proc' = [proc EXCEPT ![r] = new] /\ UNCHANGED <<fresh, account, reap, left>>
          BY <3>1 DEF StoresCode
        <4> HIDE DEF new
        <4>3. QED
          BY <4>1, <4>2 DEF Busy
      <3>2. CASE FindsJob(r) /\ proc' = [proc EXCEPT ![r].at = "rest", ![r].code = NoCode]
        <4> DEFINE new == [proc[r] EXCEPT !.at = "rest", !.code = NoCode]
        <4>1. new \in Process /\ new.at = "rest" /\ new.job = proc[r].job
          BY <2>1 DEF Process, Places, NoCode
        <4>2. proc' = [proc EXCEPT ![r] = new] /\ UNCHANGED <<fresh, account, reap, left>>
          BY <3>2 DEF FindsJob
        <4> HIDE DEF new
        <4>3. QED
          BY <4>1, <4>2 DEF Busy, Refs, RefsOf
      <3>3. ASSUME FindsJob(r), NEW j \in ActiveOf(proc[r].tenant),
                   proc' = [proc EXCEPT ![r].at = "storing", ![r].job = j]
            PROVE  \E new \in Process :
                      /\ proc' = [proc EXCEPT ![r] = new]
                      /\ new.job \in JobIds \cup {NoJob}
                      /\ new.at \in Busy => new.job \in JobIds
                      /\ UNCHANGED <<fresh, account, reap, left>>
        <4> DEFINE new == [proc[r] EXCEPT !.at = "storing", !.job = j]
        <4>1. j \in JobIds
          BY DEF ActiveOf, JobsOf
        <4>2. new \in Process /\ new.job = j
          BY <2>1, <4>1 DEF Process, Places, Busy
        <4>3. proc' = [proc EXCEPT ![r] = new] /\ UNCHANGED <<fresh, account, reap, left>>
          BY <3>3 DEF FindsJob
        <4> HIDE DEF new
        <4>4. QED
          BY <4>1, <4>2, <4>3
      <3>4. FindsJob(r) =>
               \/ proc' = [proc EXCEPT ![r].at = "rest", ![r].code = NoCode]
               \/ \E j \in ActiveOf(proc[r].tenant) :
                     proc' = [proc EXCEPT ![r].at = "storing", ![r].job = j]
        BY Zenon DEF FindsJob
      <3>5. QED
        BY <1>2, <3>1, <3>2, <3>3, <3>4
    <2>3. Shape'
      BY <2>2 DEF TableKept
    <2>4. RefsOf(r)' /\ ReapOf(r)'
      BY <2>2 DEF Refs, RefsOf, ReapOf, TableKept
    <2>5. QED
      BY <2>2, <2>3, <2>4, OneMoves
  <1>3. QED
    BY <1>1, <1>2

\* Clicks.
LEMMA ClickMoves ==
    ASSUME IInv, TableKept, NEW r \in Requests, NEW t \in Tenants,
           Polls(r) \/ Checks(r, t) \/ Types(r, t) \/ Disconnects(r, t) \/ Connects(r, t)
    PROVE  Shape' /\ Refs'
  <1> r \in Processes
    BY DEF Processes
  <1> USE DEF IInv, Shape, At
  <1>1. left' \in [Bounds -> Nat]
    BY SpendKeeps DEF Polls, Checks, Types, Disconnects, Connects, Bounds
  <1>2. fresh' \in BOOLEAN /\ account' \in [Tenants -> States]
    BY DEF Polls, Checks, Types, Disconnects, Connects, Asks, NoRow, States
  <1>3. proc[r] \in Process /\ JobIds \subseteq Nat
    BY DEF JobIds
  <1>4. PICK new \in Process :
            /\ proc' = [proc EXCEPT ![r] = new]
            /\ new.job = proc[r].job
            /\ new.at \notin Busy
    <2>1. CASE UNCHANGED proc
      <3>1. proc[r].at \notin Busy
        BY <2>1 DEF Polls, Checks, Types, Disconnects, Connects, Asks, Busy
      <3>2. QED
        BY <1>3, <2>1, <3>1
    <2>2. ASSUME NEW place \in {"looking", "typing"}, NEW code \in Nat,
                 proc' = [proc EXCEPT ![r].at = place, ![r].tenant = t, ![r].code = code]
          PROVE  \E new \in Process :
                    /\ proc' = [proc EXCEPT ![r] = new]
                    /\ new.job = proc[r].job
                    /\ new.at \notin Busy
      <3> DEFINE new == [proc[r] EXCEPT !.at = place, !.tenant = t, !.code = code]
      <3>1. new \in Process /\ new.job = proc[r].job /\ new.at \notin Busy
        BY <1>3 DEF Process, Places, Busy
      <3>2. proc' = [proc EXCEPT ![r] = new]
        BY <2>2
      <3> HIDE DEF new
      <3>3. QED
        BY <3>1, <3>2
    <2>3. CASE proc' = [proc EXCEPT ![r].at = "canceling", ![r].tenant = t]
      <3> DEFINE new == [proc[r] EXCEPT !.at = "canceling", !.tenant = t]
      <3>1. new \in Process /\ new.job = proc[r].job /\ new.at \notin Busy
        BY <1>3 DEF Process, Places, Busy
      <3>2. proc' = [proc EXCEPT ![r] = new]
        BY <2>3
      <3> HIDE DEF new
      <3>3. QED
        BY <3>1, <3>2
    <2>4. left["codes"] \in Nat
      BY DEF Bounds
    <2>5. QED
      BY <2>1, <2>2, <2>3, <2>4
         DEF Polls, Checks, Types, Disconnects, Connects, Asks, NoCode
  <1>5. PICK pass \in Reaping :
            /\ reap' = [reap EXCEPT ![r] = pass]
            /\ pass.doomed \subseteq JobIds
            /\ pass.at # "mirroring"
    <2>1. CASE UNCHANGED reap
      <3>1. reap[r].at = "off"
        BY <2>1 DEF Polls, Checks, Types, Disconnects, Connects, Asks
      <3>2. QED
        BY <2>1, <3>1 DEF Refs, ReapOf
    <2>2. CASE ReapStarts(r, Nobody, fresh)
      <3> DEFINE pass == [NoReap EXCEPT !.at = "reading", !.me = Nobody, !.online = fresh]
      <3>1. pass \in Reaping /\ pass.doomed = {} /\ pass.at = "reading"
        BY DEF NoReap, Reaping, Passes, Nobody, NoJob
      <3>2. reap' = [reap EXCEPT ![r] = pass]
        BY <2>2 DEF ReapStarts
      <3> HIDE DEF pass
      <3>3. QED
        BY <3>1, <3>2
    <2>3. QED
      BY <2>1, <2>2 DEF Polls, Checks, Types, Disconnects, Connects, Asks
  <1>6. Shape'
    BY <1>1, <1>2, <1>4, <1>5 DEF TableKept
  <1>7. RefsOf(r)' /\ ReapOf(r)'
    BY <1>4, <1>5 DEF Refs, RefsOf, ReapOf, TableKept
  <1>8. QED
    BY <1>4, <1>5, <1>6, <1>7, OneMoves

\* Reap passes.
LEMMA ReapMoves ==
    ASSUME IInv, TableKept, NEW p \in Processes,
           ReapReads(p) \/ (\E j \in JobIds : ReapFails(p, j)) \/ ReapMirrors(p)
    PROVE  Shape' /\ Refs'
  <1> USE DEF IInv, Shape
  <1>1. fresh' \in BOOLEAN /\ left' \in [Bounds -> Nat] /\ UNCHANGED proc
    BY DEF ReapReads, ReapFails, ReapMirrors
  <1>2. account' \in [Tenants -> States]
    <2>1. CASE UNCHANGED account
      BY <2>1
    <2>2. CASE ReapMirrors(p)
      <3>1. reap[p].last \in JobIds
        BY <2>2 DEF ReapMirrors, Refs, ReapOf
      <3>2. jobs[reap[p].last].tenant \in Tenants
        <4>1. jobs[reap[p].last] \in Job
          BY <3>1 DEF JobIds
        <4>2. QED
          BY <4>1 DEF Job
      <3>3. QED
        BY <2>2, <3>2, MarkKeeps DEF ReapMirrors, States
    <2>3. QED
      BY <2>1, <2>2 DEF ReapReads, ReapFails
  <1>3. PICK pass \in Reaping :
            /\ reap' = [reap EXCEPT ![p] = pass]
            /\ pass.doomed \subseteq JobIds
            /\ pass.at = "mirroring" => pass.last \in JobIds
    <2>1. JobIds \subseteq Nat /\ NoReap \in Reaping /\ NoReap.doomed = {} /\ NoReap.at = "off"
      BY DEF JobIds, NoReap, Reaping, Passes, Nobody, NoJob
    <2>2. CASE ReapReads(p)
      <3> DEFINE doomed == {j \in JobIds : Stranded(j, reap[p].me, reap[p].online)}
                 pass == [NoReap EXCEPT !.at = "failing", !.doomed = doomed]
      <3>1. pass \in Reaping /\ pass.doomed \subseteq JobIds /\ pass.at = "failing"
        BY <2>1 DEF NoReap, Reaping, Passes, Nobody, NoJob
      <3>2. reap' = [reap EXCEPT ![p] = NoReap] \/ reap' = [reap EXCEPT ![p] = pass]
        BY <2>2 DEF ReapReads
      <3> HIDE DEF pass
      <3>3. QED
        BY <2>1, <3>1, <3>2
    <2>3. ASSUME NEW j \in JobIds, ReapFails(p, j)
          PROVE  \E pass \in Reaping :
                    /\ reap' = [reap EXCEPT ![p] = pass]
                    /\ pass.doomed \subseteq JobIds
                    /\ pass.at = "mirroring" => pass.last \in JobIds
      <3> DEFINE pass == [reap[p] EXCEPT !.at = "mirroring", !.last = j, !.doomed = @ \ {j}]
      <3>1. /\ pass \in Reaping
            /\ pass.doomed \subseteq JobIds
            /\ pass.last \in JobIds
        BY <2>1 DEF Reaping, Passes, Refs, ReapOf
      <3>2. reap' = [reap EXCEPT ![p] = pass]
        BY <2>3 DEF ReapFails
      <3> HIDE DEF pass
      <3>3. QED
        BY <3>1, <3>2
    <2>4. CASE ReapMirrors(p)
      <3> DEFINE pass == [reap[p] EXCEPT !.at = "failing", !.last = NoJob]
      <3>1. pass \in Reaping /\ pass.doomed \subseteq JobIds /\ pass.at = "failing"
        BY DEF Reaping, Passes, Refs, ReapOf, NoJob
      <3>2. reap' = [reap EXCEPT ![p] = NoReap] \/ reap' = [reap EXCEPT ![p] = pass]
        BY <2>4 DEF ReapMirrors
      <3> HIDE DEF pass
      <3>3. QED
        BY <2>1, <3>1, <3>2
    <2>5. QED
      BY <2>2, <2>3, <2>4
  <1>4. Shape'
    BY <1>1, <1>2, <1>3 DEF TableKept
  <1>5. RefsOf(p)' /\ ReapOf(p)'
    BY <1>1, <1>3 DEF Refs, RefsOf, ReapOf, TableKept
  <1>6. QED
    BY <1>1, <1>3, <1>4, <1>5, OneMoves

\* Workers.  Moved says where a step of p leaves it.
Moved(p, place, job) ==
    \E new \in Process :
        /\ proc' = [proc EXCEPT ![p] = new]
        /\ new.at = place
        /\ new.job = job

\* How a worker comes to drive a job: it drove it before, or it has just
\* turned it from queued into running.
MayDrive(w, job) ==
    \/ proc[w].at \in Driving /\ job = proc[w].job
    \/ jobs[job].status = Queued /\ jobs'[job].status # Queued

Lands(w) ==
    \E place \in Places, job \in JobIds \cup {NoJob} :
        /\ Moved(w, place, job)
        /\ place \in Busy => job \in JobIds
        /\ place \in Driving => MayDrive(w, job)

LEMMA GoesMoves ==
    ASSUME Shape, NEW p \in Processes, NEW place \in Places, Goes(p, place)
    PROVE  Moved(p, place, proc[p].job)
  <1> DEFINE new == [proc[p] EXCEPT !.at = place]
  <1>1. new \in Process /\ new.at = place /\ new.job = proc[p].job
    BY DEF Shape, Process
  <1>2. proc' = [proc EXCEPT ![p] = new]
    BY DEF Goes
  <1> HIDE DEF new
  <1>3. QED
    BY <1>1, <1>2 DEF Moved

\* A worker that is at work goes on with the same job.
LEMMA GoesOn ==
    ASSUME IInv, NEW w \in Workers, NEW place \in Driving, Goes(w, place),
           proc[w].at \in Driving
    PROVE  Lands(w)
  <1>1. w \in Processes /\ place \in Places
    BY DEF Processes, Places, Busy, Driving
  <1>2. Moved(w, place, proc[w].job)
    BY <1>1, GoesMoves DEF IInv
  <1>3. proc[w].job \in JobIds
    BY <1>1 DEF IInv, Refs, RefsOf, Busy, Driving
  <1>4. QED
    BY <1>1, <1>2, <1>3 DEF Lands, MayDrive

\* A worker lets go of its job.
LEMMA LetsGo ==
    ASSUME Shape, NEW w \in Workers, NEW place \in {"idle", "dead"},
           NEW code \in Nat, NEW id \in Nat, NEW job \in {NoJob},
           proc' = [proc EXCEPT ![w] = [proc[w] EXCEPT !.at = place, !.id = id,
                                                       !.job = job, !.code = code]]
    PROVE  Lands(w)
  <1> DEFINE new == [proc[w] EXCEPT !.at = place, !.id = id, !.job = job, !.code = code]
  <1>1. w \in Processes
    BY DEF Processes
  <1>2. new \in Process /\ new.at = place /\ new.job = NoJob
    <2>1. proc[w] \in Process
      BY <1>1 DEF Shape
    <2>2. place \in Places /\ NoJob \in Nat
      BY DEF Places, NoJob
    <2>3. QED
      BY <2>1, <2>2 DEF Process
  <1>3. proc' = [proc EXCEPT ![w] = new]
    OBVIOUS
  <1> HIDE DEF new
  <1>4. Moved(w, place, NoJob)
    BY <1>2, <1>3 DEF Moved
  <1>5. QED
    BY <1>4 DEF Lands, Places, Busy, Driving

LEMMA WorkerLands ==
    ASSUME IInv, NEW w \in Workers,
           \/ Starts(w) \/ ClaimReads(w) \/ Claims(w) \/ Begins(w) \/ Reports(w)
           \/ Prompts(w) \/ ReadsCode(w) \/ ClearsCode(w) \/ Succeeds(w)
           \/ Fails(w) \/ Mirrors(w) \/ Crash(w)
    PROVE  Lands(w)
  <1> w \in Processes
    BY DEF Processes
  <1> USE DEF IInv, At
  <1>1. /\ proc \in [Processes -> Process]
        /\ proc[w] \in Process
        /\ JobIds \subseteq Nat
    BY DEF Shape, JobIds
  <1>2. CASE Begins(w)
    BY <1>2, GoesOn DEF Begins, Driving
  <1>3. CASE Prompts(w)
    BY <1>3, GoesOn DEF Prompts, Driving
  <1>4. CASE Succeeds(w) \/ Fails(w)
    BY <1>4, GoesOn DEF Succeeds, Fails, Ends, Driving
  <1>5. CASE Reports(w)
    <2>1. Goes(w, "browsing")
      BY <1>1, <1>5 DEF Reports, Goes, Process
    <2>2. QED
      BY <1>5, <2>1, GoesOn DEF Reports, Driving
  <1>6. CASE ReadsCode(w)
    <2> DEFINE new == [proc[w] EXCEPT !.at = "clearing", !.code = jobs[proc[w].job].otp]
    <2>1. proc[w].job \in JobIds /\ proc[w].at = "polling"
      BY <1>6 DEF ReadsCode, Refs, RefsOf, Busy
    <2>2. jobs[proc[w].job] \in Job
      BY <2>1 DEF Shape, JobIds
    <2>3. new \in Process /\ new.at = "clearing" /\ new.job = proc[w].job
      BY <1>1, <2>2 DEF Process, Places, Busy, Job
    <2>4. proc' = [proc EXCEPT ![w] = new]
      BY <1>6 DEF ReadsCode
    <2> HIDE DEF new
    <2>5. Moved(w, "clearing", proc[w].job)
      BY <2>3, <2>4 DEF Moved
    <2>6. QED
      BY <2>1, <2>5 DEF Lands, MayDrive, Places, Busy, Driving
  <1>7. CASE ClearsCode(w)
    <2> DEFINE new == [proc[w] EXCEPT !.at = "browsing", !.code = NoCode]
    <2>1. proc[w].job \in JobIds /\ proc[w].at = "clearing"
      BY <1>7 DEF ClearsCode, Refs, RefsOf, Busy
    <2>2. new \in Process /\ new.at = "browsing" /\ new.job = proc[w].job
      BY <1>1 DEF Process, Places, Busy, NoCode
    <2>3. proc' = [proc EXCEPT ![w] = new]
      BY <1>7 DEF ClearsCode, Uses
    <2> HIDE DEF new
    <2>4. Moved(w, "browsing", proc[w].job)
      BY <2>2, <2>3 DEF Moved
    <2>5. QED
      BY <2>1, <2>4 DEF Lands, MayDrive, Places, Busy, Driving
  <1>8. CASE ClaimReads(w)
    <2>1. PICK j \in JobIds : proc' = [proc EXCEPT ![w].at = "claiming", ![w].job = j]
      BY <1>8 DEF ClaimReads
    <2> DEFINE new == [proc[w] EXCEPT !.at = "claiming", !.job = j]
    <2>2. new \in Process /\ new.at = "claiming" /\ new.job = j
      BY <1>1 DEF Process, Places, Busy
    <2>3. proc' = [proc EXCEPT ![w] = new]
      BY <2>1
    <2> HIDE DEF new
    <2>4. Moved(w, "claiming", j)
      BY <2>2, <2>3 DEF Moved
    <2>5. QED
      BY <2>4 DEF Lands, Places, Busy, Driving
  <1>9. CASE Claims(w)
    <2>1. CASE jobs[proc[w].job].status = Queued /\ Takes(w, proc[w].job)
      <3>1. proc[w].job \in JobIds
        BY <1>9 DEF Claims, Refs, RefsOf, Busy
      <3>2. Moved(w, "claimed", proc[w].job)
        BY <2>1, GoesMoves DEF Takes, Places, Busy
      <3>3. jobs'[proc[w].job].status # Queued
        <4>1. jobs \in Seq(Job) /\ jobs[proc[w].job] \in Job
          BY <3>1 DEF Shape, JobIds
        <4>2. QED
          BY <2>1, <3>1, <4>1 DEF Takes, JobIds, Job, Running, Queued
      <3>4. QED
        BY <2>1, <3>1, <3>2, <3>3 DEF Lands, MayDrive, Places, Busy, Driving
    <2>2. CASE proc' = [proc EXCEPT ![w].at = "idle", ![w].job = NoJob]
      <3>1. proc' = [proc EXCEPT ![w] = [proc[w] EXCEPT
                         !.at = "idle", !.id = proc[w].id, !.job = NoJob, !.code = proc[w].code]]
        BY <1>1, <2>2 DEF Process
      <3>2. QED
        BY <1>1, <3>1, LetsGo DEF Process
    <2>3. QED
      BY <1>9, <2>1, <2>2 DEF Claims
  <1>10. CASE Mirrors(w)
    <2>1. proc' = [proc EXCEPT ![w] = [proc[w] EXCEPT
                       !.at = "idle", !.id = proc[w].id, !.job = NoJob, !.code = proc[w].code]]
      BY <1>1, <1>10 DEF Mirrors, Process
    <2>2. QED
      BY <1>1, <2>1, LetsGo DEF Process
  <1>11. CASE Crash(w)
    <2>1. PICK id \in {proc[w].id, proc[w].id + Cardinality(Workers)} :
              proc' = [proc EXCEPT ![w].at = "dead", ![w].id = id,
                                   ![w].job = NoJob, ![w].code = NoCode]
      BY <1>11 DEF Crash
    <2>2. id \in Nat
      <3>1. Cardinality(Workers) \in Nat
        BY JobsAssumption, FS_CardinalityType
      <3>2. QED
        BY <1>1, <3>1 DEF Process
    <2>3. proc' = [proc EXCEPT ![w] = [proc[w] EXCEPT
                       !.at = "dead", !.id = id, !.job = NoJob, !.code = NoCode]]
      BY <2>1
    <2>4. QED
      BY <1>1, <2>2, <2>3, LetsGo DEF Process, NoCode
  <1>12. CASE Starts(w)
    <2> DEFINE new == [proc[w] EXCEPT !.at = "idle"]
    <2>1. new \in Process /\ new.at = "idle" /\ new.job = proc[w].job
      BY <1>1 DEF Process, Places
    <2>2. proc' = [proc EXCEPT ![w] = new]
      BY <1>12 DEF Starts, Goes
    <2> HIDE DEF new
    <2>3. Moved(w, "idle", proc[w].job)
      BY <2>1, <2>2 DEF Moved
    <2>4. QED
      BY <2>3 DEF Lands, Places, Busy, Driving, Refs, RefsOf
  <1>13. QED
    BY <1>2, <1>3, <1>4, <1>5, <1>6, <1>7, <1>8, <1>9, <1>10, <1>11, <1>12

LEMMA WorkerMoves ==
    ASSUME IInv, TableKept, NEW w \in Workers,
           \/ Starts(w) \/ ClaimReads(w) \/ Claims(w) \/ Begins(w) \/ Reports(w)
           \/ Prompts(w) \/ ReadsCode(w) \/ ClearsCode(w) \/ Succeeds(w)
           \/ Fails(w) \/ Mirrors(w) \/ Crash(w)
    PROVE  Shape' /\ Refs'
  <1> w \in Processes
    BY DEF Processes
  <1> USE DEF IInv, Shape, At
  <1>1. left' \in [Bounds -> Nat]
    BY SpendKeeps DEF Starts, ClaimReads, Claims, Begins, Reports, Prompts, ReadsCode,
                      ClearsCode, Succeeds, Fails, Ends, Mirrors, Crash, Bounds
  <1>2. fresh' \in BOOLEAN
    BY DEF Starts, ClaimReads, Claims, Begins, Reports, Prompts, ReadsCode,
           ClearsCode, Succeeds, Fails, Ends, Mirrors, Crash
  <1>3. account' \in [Tenants -> States]
    <2>1. CASE UNCHANGED account
      BY <2>1
    <2>2. CASE Begins(w) \/ Mirrors(w)
      <3>1. proc[w].job \in JobIds
        BY <2>2 DEF Begins, Mirrors, Refs, RefsOf, Busy
      <3>2. jobs[proc[w].job] \in Job
        BY <3>1 DEF JobIds
      <3>3. TenantOf(w) \in Tenants
        BY <3>2 DEF TenantOf, Job
      <3>4. PICK state \in States : Mark(TenantOf(w), state)
        BY <2>2 DEF Begins, Mirrors, States
      <3>5. QED
        BY <3>3, <3>4, MarkKeeps
    <2>3. QED
      BY <2>1, <2>2 DEF Starts, ClaimReads, Claims, Reports, Prompts, ReadsCode,
                        ClearsCode, Succeeds, Fails, Ends, Crash
  <1>4. PICK pass \in Reaping :
            /\ reap' = [reap EXCEPT ![w] = pass]
            /\ pass.doomed \subseteq JobIds
            /\ pass.at # "mirroring"
    <2>1. CASE UNCHANGED reap /\ reap[w].at = "off"
      BY <2>1 DEF Refs, ReapOf
    <2>2. CASE Crash(w)
      <3>1. NoReap \in Reaping /\ NoReap.doomed = {} /\ NoReap.at = "off"
        BY DEF NoReap, Reaping, Passes, Nobody, NoJob
      <3>2. reap' = [reap EXCEPT ![w] = NoReap]
        BY <2>2 DEF Crash
      <3>3. QED
        BY <3>1, <3>2
    <2>3. CASE Starts(w)
      <3> DEFINE id == proc[w].id
      <3>1. ReapStarts(w, id, TRUE)
        BY <2>3 DEF Starts
      <3>2. id \in Nat
        BY DEF Process
      <3> DEFINE pass == [NoReap EXCEPT !.at = "reading", !.me = id, !.online = TRUE]
      <3>3. pass \in Reaping /\ pass.doomed = {} /\ pass.at = "reading"
        BY <3>2 DEF NoReap, Reaping, Passes, Nobody, NoJob
      <3>4. reap' = [reap EXCEPT ![w] = pass]
        BY <3>1 DEF ReapStarts
      <3> HIDE DEF pass
      <3>5. QED
        BY <3>3, <3>4
    <2>4. QED
      BY <2>1, <2>2, <2>3 DEF ClaimReads, Claims, Begins, Reports, Prompts, ReadsCode,
                              ClearsCode, Succeeds, Fails, Ends, Mirrors
  <1>5. PICK place \in Places, job \in JobIds \cup {NoJob} :
            /\ Moved(w, place, job)
            /\ place \in Busy => job \in JobIds
    BY WorkerLands DEF Lands
  <1>6. PICK new \in Process :
            /\ proc' = [proc EXCEPT ![w] = new]
            /\ new.at = place
            /\ new.job = job
    BY <1>5 DEF Moved
  <1>7. Shape'
    BY <1>1, <1>2, <1>3, <1>4, <1>6 DEF TableKept
  <1>8. RefsOf(w)' /\ ReapOf(w)'
    BY <1>4, <1>5, <1>6 DEF RefsOf, ReapOf, TableKept
  <1>9. QED
    BY <1>4, <1>6, <1>7, <1>8, OneMoves

\* A request never drives a job, and a reap pass leaves every process alone.
LEMMA OthersDoNotDrive ==
    ASSUME IInv, NEW w \in Workers, NEW p \in Processes,
           \/ ReapReads(p) \/ ReapMirrors(p) \/ (\E j \in JobIds : ReapFails(p, j))
           \/ Looks(p) \/ Throttles(p) \/ Inserts(p) \/ FindsJob(p) \/ StoresCode(p)
           \/ Cancels(p) \/ Polls(p)
           \/ \E t \in Tenants : \/ Checks(p, t) \/ Types(p, t)
                                 \/ Disconnects(p, t) \/ Connects(p, t)
    PROVE  proc'[w] = proc[w] \/ proc'[w].at \notin Driving
  <1>1. proc \in [Processes -> Process] /\ w \in Processes
    BY DEF IInv, Shape, Processes
  <1>2. CASE \/ ReapReads(p) \/ ReapMirrors(p) \/ (\E j \in JobIds : ReapFails(p, j))
             \/ Polls(p) \/ \E t \in Tenants : Connects(p, t)
    BY <1>2 DEF ReapReads, ReapMirrors, ReapFails, Polls, Connects
  <1>3. CASE Looks(p) \/ Throttles(p) \/ Inserts(p) \/ Cancels(p)
    <2>1. PICK place \in {"rest", "throttling", "inserting"} :
              proc' = [proc EXCEPT ![p].at = place]
      BY <1>3 DEF Looks, Throttles, Inserts, Cancels, Goes
    <2>2. QED
      BY <1>1, <2>1 DEF Driving, Process
  <1>4. CASE FindsJob(p)
    <2>1. \/ proc' = [proc EXCEPT ![p].at = "rest", ![p].code = NoCode]
          \/ \E j \in ActiveOf(proc[p].tenant) :
                proc' = [proc EXCEPT ![p].at = "storing", ![p].job = j]
      BY <1>4, Zenon DEF FindsJob
    <2>2. CASE proc' = [proc EXCEPT ![p].at = "rest", ![p].code = NoCode]
      <3> DEFINE new == [proc[p] EXCEPT !.at = "rest", !.code = NoCode]
      <3>1. new.at = "rest"
        BY <1>1 DEF Process
      <3>2. proc' = [proc EXCEPT ![p] = new]
        BY <2>2
      <3> HIDE DEF new
      <3>3. QED
        BY <1>1, <3>1, <3>2 DEF Driving
    <2>3. ASSUME NEW j \in ActiveOf(proc[p].tenant),
                 proc' = [proc EXCEPT ![p].at = "storing", ![p].job = j]
          PROVE  proc'[w] = proc[w] \/ proc'[w].at \notin Driving
      <3> DEFINE new == [proc[p] EXCEPT !.at = "storing", !.job = j]
      <3>1. new.at = "storing"
        BY <1>1 DEF Process
      <3>2. proc' = [proc EXCEPT ![p] = new]
        BY <2>3
      <3> HIDE DEF new
      <3>3. QED
        BY <1>1, <3>1, <3>2 DEF Driving
    <2>4. QED
      BY <2>1, <2>2, <2>3
  <1>5. CASE StoresCode(p)
    <2> DEFINE new == [proc[p] EXCEPT !.at = "rest", !.job = NoJob, !.code = NoCode]
    <2>1. new.at = "rest"
      BY <1>1 DEF Process
    <2>2. proc' = [proc EXCEPT ![p] = new]
      BY <1>5 DEF StoresCode
    <2> HIDE DEF new
    <2>3. QED
      BY <1>1, <2>1, <2>2 DEF Driving
  <1>6. ASSUME NEW t \in Tenants, Checks(p, t) \/ Types(p, t) \/ Disconnects(p, t)
        PROVE  proc'[w] = proc[w] \/ proc'[w].at \notin Driving
    <2>1. CASE Disconnects(p, t)
      <3> DEFINE new == [proc[p] EXCEPT !.at = "canceling", !.tenant = t]
      <3>1. new.at = "canceling"
        BY <1>1 DEF Process
      <3>2. proc' = [proc EXCEPT ![p] = new]
        BY <2>1 DEF Disconnects
      <3> HIDE DEF new
      <3>3. QED
        BY <1>1, <3>1, <3>2 DEF Driving
    <2>2. ASSUME NEW place \in {"looking", "typing"}, NEW code, Asks(p, t, place, code)
          PROVE  proc'[w] = proc[w] \/ proc'[w].at \notin Driving
      <3> DEFINE new == [proc[p] EXCEPT !.at = place, !.tenant = t, !.code = code]
      <3>1. new.at = place
        BY <1>1 DEF Process
      <3>2. proc' = [proc EXCEPT ![p] = new]
        BY <2>2 DEF Asks
      <3> HIDE DEF new
      <3>3. QED
        BY <1>1, <3>1, <3>2 DEF Driving
    <2>3. QED
      BY <1>6, <2>1, <2>2 DEF Checks, Types
  <1>7. QED
    BY <1>2, <1>3, <1>4, <1>5, <1>6

\* The one step that makes somebody drive a job takes it from the queue.
LEMMA DriveStep ==
    ASSUME IInv, [Next]_vars
    PROVE  \/ \A w \in Workers :
                  proc'[w].at \in Driving =>
                      proc[w].at \in Driving /\ proc'[w].job = proc[w].job
           \/ \E w \in Workers :
                 /\ proc'[w].job \in JobIds
                 /\ jobs[proc'[w].job].status = Queued
                 /\ jobs'[proc'[w].job].status # Queued
                 /\ \A v \in Workers \ {w} : proc'[v] = proc[v]
  <1>1. CASE \E p \in Processes :
                 \/ ReapReads(p) \/ ReapMirrors(p) \/ (\E j \in JobIds : ReapFails(p, j))
                 \/ Looks(p) \/ Throttles(p) \/ Inserts(p) \/ FindsJob(p) \/ StoresCode(p)
                 \/ Cancels(p) \/ Polls(p)
                 \/ \E t \in Tenants : \/ Checks(p, t) \/ Types(p, t)
                                       \/ Disconnects(p, t) \/ Connects(p, t)
    BY <1>1, OthersDoNotDrive
  <1>2. ASSUME NEW w \in Workers,
               \/ Starts(w) \/ ClaimReads(w) \/ Claims(w) \/ Begins(w) \/ Reports(w)
               \/ Prompts(w) \/ ReadsCode(w) \/ ClearsCode(w) \/ Succeeds(w)
               \/ Fails(w) \/ Mirrors(w) \/ Crash(w)
        PROVE  \/ \A v \in Workers :
                      proc'[v].at \in Driving =>
                          proc[v].at \in Driving /\ proc'[v].job = proc[v].job
               \/ /\ proc'[w].job \in JobIds
                  /\ jobs[proc'[w].job].status = Queued
                  /\ jobs'[proc'[w].job].status # Queued
                  /\ \A v \in Workers \ {w} : proc'[v] = proc[v]
    <2>1. PICK place \in Places, job \in JobIds \cup {NoJob} :
              /\ Moved(w, place, job)
              /\ place \in Busy => job \in JobIds
              /\ place \in Driving => MayDrive(w, job)
      BY <1>2, WorkerLands DEF Lands
    <2>2. PICK new \in Process :
              /\ proc' = [proc EXCEPT ![w] = new]
              /\ new.at = place
              /\ new.job = job
      BY <2>1 DEF Moved
    <2>3. /\ proc'[w].at = place /\ proc'[w].job = job
          /\ \A v \in Workers \ {w} : proc'[v] = proc[v]
      BY <2>2 DEF IInv, Shape, Processes
    <2>4. QED
      BY <2>1, <2>3 DEF MayDrive, Busy, Driving
  <1>3. CASE UNCHANGED proc
    BY <1>3
  <1>4. QED
    BY <1>1, <1>2, <1>3
       DEF Next, RequestStep, WorkerStep, JobAges, ErrorCools, BeaconFades, vars, Processes

LEMMA IInvStep ==
    ASSUME IInv, [Next]_vars
    PROVE  IInv'
  <1>1. TableKept
    BY TableStep
  <1>2. Shape' /\ Refs'
    <2>1. CASE UNCHANGED <<fresh, account, proc, reap, left>>
      BY <1>1, <2>1 DEF IInv, Shape, Refs, RefsOf, ReapOf, TableKept
    <2>2. CASE BeaconFades
      BY <1>1, <2>2 DEF BeaconFades, IInv, Shape, Refs, RefsOf, ReapOf, TableKept
    <2>3. ASSUME NEW r \in Requests, RequestStep(r) \/ Polls(r)
          PROVE  Shape' /\ Refs'
      <3>1. CASE ReapReads(r) \/ (\E j \in JobIds : ReapFails(r, j)) \/ ReapMirrors(r)
        BY <1>1, <3>1, ReapMoves DEF Processes
      <3>2. CASE Polls(r)
        BY <1>1, <3>2, JobsAssumption, ClickMoves
      <3>3. QED
        BY <1>1, <2>3, <3>1, <3>2, RequestMoves DEF RequestStep
    <2>4. ASSUME NEW r \in Requests, NEW t \in Tenants,
                 Checks(r, t) \/ Types(r, t) \/ Disconnects(r, t) \/ Connects(r, t)
          PROVE  Shape' /\ Refs'
      BY <1>1, <2>4, ClickMoves
    <2>5. ASSUME NEW w \in Workers, WorkerStep(w) \/ Starts(w) \/ Reports(w) \/ Crash(w)
          PROVE  Shape' /\ Refs'
      <3>1. CASE ReapReads(w) \/ (\E j \in JobIds : ReapFails(w, j)) \/ ReapMirrors(w)
        BY <1>1, <3>1, ReapMoves DEF Processes
      <3>2. QED
        BY <1>1, <2>5, <3>1, WorkerMoves DEF WorkerStep
    <2>6. QED
      BY <2>1, <2>2, <2>3, <2>4, <2>5 DEF Next, JobAges, ErrorCools, vars
  <1>3. \A w \in Workers : proc[w].at \in Driving => proc[w].job \in JobIds
    BY DEF IInv, Refs, RefsOf, Processes, Busy, Driving
  <1>4. DrivenIsClaimed' /\ DrivenByOne'
    <2>1. CASE \A w \in Workers :
                   proc'[w].at \in Driving =>
                       proc[w].at \in Driving /\ proc'[w].job = proc[w].job
      BY <1>1, <1>3, <2>1 DEF IInv, DrivenIsClaimed, DrivenByOne, TableKept, RowKept
    <2>2. ASSUME NEW w \in Workers,
                 /\ proc'[w].job \in JobIds
                 /\ jobs[proc'[w].job].status = Queued
                 /\ jobs'[proc'[w].job].status # Queued
                 /\ \A v \in Workers \ {w} : proc'[v] = proc[v]
          PROVE  DrivenIsClaimed' /\ DrivenByOne'
      BY <1>1, <1>3, <2>2 DEF IInv, DrivenIsClaimed, DrivenByOne, TableKept, RowKept
    <2>3. QED
      BY <2>1, <2>2, DriveStep
  <1>5. QED
    BY <1>2, <1>4 DEF IInv

LEMMA IInvInit ==
    ASSUME Init
    PROVE  IInv
  <1>1. jobs \in Seq(Job) /\ fresh \in BOOLEAN /\ account \in [Tenants -> States]
    <2>1. jobs = << >> /\ fresh = FALSE
      BY DEF Init
    <2>2. account = [t \in Tenants |-> "needs_verification"]
      BY DEF Init
    <2>3. jobs \in Seq(Job)
      BY <2>1
    <2>4. QED
      BY <2>1, <2>2, <2>3 DEF States
  <1>2. left \in [Bounds -> Nat]
    BY JobsAssumption DEF Init, Bounds
  <1>3. reap \in [Processes -> Reaping] /\ \A p \in Processes : reap[p] = NoReap
    BY DEF Init, NoReap, Reaping, Passes, Nobody, NoJob
  <1>4. PICK id \in [Workers -> 1 .. Cardinality(Workers)] :
            proc = [p \in Processes |->
                 [at |-> IF p \in Workers THEN "dead" ELSE "rest",
                  id |-> IF p \in Workers THEN id[p] ELSE Nobody,
                  tenant |-> CHOOSE t \in Tenants : TRUE,
                  job |-> NoJob, code |-> NoCode]]
    BY DEF Init
  <1>5. Cardinality(Workers) \in Nat
    BY JobsAssumption, FS_CardinalityType
  <1>6. (CHOOSE t \in Tenants : TRUE) \in Tenants
    BY JobsAssumption
  <1>7. proc \in [Processes -> Process]
    BY <1>4, <1>5, <1>6 DEF Process, Places, Nobody, NoJob, NoCode
  <1>8. \A p \in Processes : proc[p].at \in {"dead", "rest"} /\ proc[p].job = NoJob
    BY <1>4
  <1>9. Refs
    BY <1>3, <1>8 DEF Refs, RefsOf, ReapOf, NoReap, Busy
  <1>10. QED
    BY <1>1, <1>2, <1>3, <1>7, <1>8, <1>9
       DEF IInv, Shape, DrivenIsClaimed, DrivenByOne, Driving, Processes

THEOREM Inductive == Spec => []IInv
  BY IInvInit, IInvStep, PTL DEF Spec

-----------------------------------------------------------------------------
(* What follows from it.                                                   *)

\* Rows, accounts and the references of every thread and worker are what the
\* statements of jobs.py and worker.py take them for, whatever is claimed,
\* reaped, canceled or crashed.
THEOREM TypeCorrect == Spec => []TypeOK
  <1>1. IInv => TypeOK
    <2> SUFFICES ASSUME IInv PROVE TypeOK
      OBVIOUS
    <2>1. NoJob \notin JobIds
      BY DEF IInv, Shape, JobIds, NoJob
    <2>2. ASSUME NEW p \in Processes
          PROVE  /\ proc[p].job \in JobIds \cup {NoJob}
                 /\ reap[p].doomed \subseteq JobIds
                 /\ proc[p].at \in {"claimed", "browsing", "polling", "clearing",
                                    "succeeded", "failed", "storing"}
                        => proc[p].job # NoJob
      BY <2>1 DEF IInv, Refs, RefsOf, ReapOf, Busy
    <2>3. QED
      BY <2>2 DEF IInv, Shape, TypeOK
  <1>2. QED
    BY <1>1, Inductive, PTL

\* claim_next (jobs.py:305): however many workers race for the queue, crash
\* and start again, no two of them ever drive a browser for one job.
THEOREM RunsExclusive == Spec => []RunsAreExclusive
  <1>1. IInv => RunsAreExclusive
    BY DEF IInv, DrivenByOne, RunsAreExclusive, InRun, Driving
  <1>2. QED
    BY <1>1, Inductive, PTL

\* cancel_active (jobs.py:289): a job that was called off before any worker had
\* it never gets one.
THEOREM CalledOff == Spec => CalledOffInTime
  <1>1. IInv /\ [Next]_vars =>
            [\A j \in JobIds :
                jobs[j].status \in Final /\ jobs[j].worker = Nobody
                    => jobs'[j].worker = Nobody]_vars
    BY TableStep DEF TableKept, RowKept, Final, Done, Error, Canceled, Queued
  <1>2. QED
    BY <1>1, Inductive, PTL DEF Spec, CalledOffInTime

-----------------------------------------------------------------------------
(* One-time codes.  The argument follows a code from the form to the       *)
(* browser: it is in one hand at a time - the request that stores it, the  *)
(* row, the browser - with one exception, the worker between the two       *)
(* statements of consume_otp, whose row may still show what it has read.   *)

\* A worker between the read and the clearing write of consume_otp.
Clearing(p) == proc[p].at = "clearing"

\* Codes are typed with falling numbers, so that the next one is new.
CodesAreTyped ==
    /\ \A p \in Processes : proc[p].code # NoCode => proc[p].code > left["codes"]
    /\ \A j \in JobIds : jobs[j].otp # NoCode => jobs[j].otp > left["codes"]
    /\ \A n \in DOMAIN used : used[n][1] > left["codes"]

HandsAreApart ==
    /\ \A p, q \in Processes : proc[p].code # NoCode /\ proc[p].code = proc[q].code => p = q
    /\ \A j, k \in JobIds : jobs[j].otp # NoCode /\ jobs[j].otp = jobs[k].otp => j = k
    /\ \A p \in Processes, j \in JobIds :
           proc[p].code # NoCode /\ proc[p].code = jobs[j].otp
               => Clearing(p) /\ proc[p].job = j

UsedIsGone ==
    \A n \in DOMAIN used :
        /\ \A p \in Processes : proc[p].code # used[n][1]
        /\ \A j \in JobIds : jobs[j].otp # used[n][1]

ClearingHasCode == \A p \in Processes : Clearing(p) => p \in Workers /\ proc[p].code # NoCode

CodeInv ==
    /\ used \in Seq(Nat \X Tenants)
    /\ CodesAreTyped /\ HandsAreApart /\ UsedIsGone /\ ClearingHasCode
    /\ CodesAreUsedOnce

-----------------------------------------------------------------------------
(* Steps that move no code.                                                *)

HandsKept ==
    \A p \in Processes :
        \/ proc'[p].code = NoCode /\ proc'[p].at # "clearing"
        \/ /\ proc'[p].code = proc[p].code
           /\ proc'[p].at = "clearing" <=> proc[p].at = "clearing"
           /\ proc[p].at = "clearing" => proc'[p].job = proc[p].job

RowsKeepCodes ==
    \A j \in JobIds' : jobs'[j].otp = NoCode \/ (j \in JobIds /\ jobs'[j].otp = jobs[j].otp)

Quiet == /\ HandsKept /\ RowsKeepCodes
         /\ used' = used /\ left'["codes"] = left["codes"]

LEMMA QuietKeeps == ASSUME Shape, CodeInv, Quiet PROVE CodeInv'
  <1>1. CodesAreTyped'
    BY DEF CodeInv, CodesAreTyped, Quiet, HandsKept, RowsKeepCodes
  <1>2. HandsAreApart'
    BY DEF CodeInv, HandsAreApart, Clearing, Quiet, HandsKept, RowsKeepCodes
  <1>3. UsedIsGone'
    <2>1. \A n \in DOMAIN used : used[n][1] # NoCode
      BY DEF CodeInv, CodesAreTyped, Shape, Bounds, NoCode
    <2>2. QED
      BY <2>1 DEF CodeInv, UsedIsGone, Quiet, HandsKept, RowsKeepCodes
  <1>4. ClearingHasCode'
    BY DEF CodeInv, ClearingHasCode, Clearing, Quiet, HandsKept
  <1>5. QED
    BY <1>1, <1>2, <1>3, <1>4 DEF CodeInv, CodesAreUsedOnce, Quiet

\* One process moves on, or drops what it holds.
LEMMA OneHand ==
    ASSUME Shape, NEW p \in Processes, NEW new,
           proc' = [proc EXCEPT ![p] = new],
           new.at # "clearing",
           new.code = NoCode \/ (new.code = proc[p].code /\ ~ Clearing(p))
    PROVE  HandsKept
  BY DEF HandsKept, Shape, Clearing

LEMMA GoesKeepsHand ==
    ASSUME Shape, NEW p \in Processes, ~ Clearing(p), NEW place, place # "clearing",
           Goes(p, place)
    PROVE  HandsKept
  <1> DEFINE new == [proc[p] EXCEPT !.at = place]
  <1>1. new.at = place /\ new.code = proc[p].code
    BY DEF Shape, Process
  <1>2. proc' = [proc EXCEPT ![p] = new]
    BY DEF Goes
  <1> HIDE DEF new
  <1>3. QED
    BY <1>1, <1>2, OneHand

\* One row is written, and its code is not.
LEMMA OneRow ==
    ASSUME jobs \in Seq(Job), NEW j \in JobIds, NEW row,
           jobs' = [jobs EXCEPT ![j] = row], row.otp = jobs[j].otp
    PROVE  RowsKeepCodes
  BY DEF RowsKeepCodes, JobIds

LEMMA PutKeepsCodes ==
    ASSUME jobs \in Seq(Job), NEW j \in JobIds, NEW status, NEW stale, Put(j, status, stale)
    PROVE  RowsKeepCodes
  <1> DEFINE row == [jobs[j] EXCEPT !.status = status, !.stale = stale,
                                    !.cooling = (status = Error),
                                    !.over = @ \/ status \in Final]
  <1>1. jobs[j] \in Job
    BY DEF JobIds
  <1>2. row.otp = jobs[j].otp
    BY <1>1 DEF Job
  <1>3. jobs' = [jobs EXCEPT ![j] = row]
    BY DEF Put
  <1> HIDE DEF row
  <1>4. QED
    BY <1>2, <1>3, OneRow

LEMMA SpendsNoCode ==
    ASSUME Shape, NEW what \in {"checks", "prompts", "links", "crashes"},
           Spend(what) \/ Clicks(what)
    PROVE  left'["codes"] = left["codes"]
  BY DEF Shape, Spend, Clicks, Bounds

LEMMA QuietReaps ==
    ASSUME IInv, NEW p \in Processes,
           ReapReads(p) \/ ReapMirrors(p) \/ (\E j \in JobIds : ReapFails(p, j))
    PROVE  Quiet
  <1>1. UNCHANGED <<proc, used, left>>
    BY DEF ReapReads, ReapMirrors, ReapFails
  <1>2. HandsKept
    BY <1>1 DEF HandsKept
  <1>3. UNCHANGED jobs \/ \E j \in JobIds : Put(j, Error, TRUE)
    BY DEF ReapReads, ReapMirrors, ReapFails
  <1>4. RowsKeepCodes
    BY <1>3, PutKeepsCodes DEF IInv, Shape, RowsKeepCodes, JobIds
  <1>5. QED
    BY <1>1, <1>2, <1>4 DEF Quiet

LEMMA QuietRequests ==
    ASSUME IInv, NEW r \in Requests,
           \/ Looks(r) \/ Throttles(r) \/ Inserts(r) \/ FindsJob(r) \/ Cancels(r) \/ Polls(r)
           \/ \E t \in Tenants : Checks(r, t) \/ Disconnects(r, t) \/ Connects(r, t)
    PROVE  Quiet
  <1> USE DEF IInv
  <1>0. r \in Processes /\ jobs \in Seq(Job) /\ proc[r] \in Process
    BY DEF Processes, Shape
  <1>1. used' = used
    BY DEF Looks, Throttles, Inserts, FindsJob, Cancels, Polls, Checks, Asks, Disconnects, Connects
  <1>2. left'["codes"] = left["codes"]
    BY SpendsNoCode
       DEF Looks, Throttles, Inserts, FindsJob, Cancels, Polls, Checks, Asks, Disconnects, Connects
  <1>3. RowsKeepCodes
    <2>1. CASE UNCHANGED jobs
      BY <2>1 DEF RowsKeepCodes, JobIds
    <2>2. CASE Inserts(r)
      <3> DEFINE row == [tenant |-> proc[r].tenant, status |-> Queued,
                         stale |-> FALSE, otp |-> NoCode, worker |-> Nobody,
                         old |-> FALSE, cooling |-> FALSE, over |-> FALSE]
      <3>1. jobs' = Append(jobs, row) /\ row.otp = NoCode
        BY <2>2 DEF Inserts
      <3> HIDE DEF row
      <3>2. QED
        <4>1. Len(jobs) \in Nat /\ JobIds = 1 .. Len(jobs) /\ JobIds' = 1 .. Len(jobs) + 1
          BY <1>0, <3>1 DEF JobIds
        <4>2. jobs'[Len(jobs) + 1] = row /\ \A j \in JobIds : jobs'[j] = jobs[j]
          BY <1>0, <3>1, <4>1
        <4>3. QED
          BY <3>1, <4>1, <4>2 DEF RowsKeepCodes
    <2>3. CASE Cancels(r)
      <3>1. ASSUME NEW j \in JobIds
            PROVE  jobs[j] \in Job /\ [jobs[j] EXCEPT !.status = Canceled, !.over = TRUE].otp = jobs[j].otp
        <4>1. jobs[j] \in Job
          BY <1>0 DEF JobIds
        <4>2. QED
          BY <4>1 DEF Job
      <3>2. /\ JobIds' = JobIds
            /\ \A j \in JobIds : \/ jobs'[j] = jobs[j]
                                 \/ jobs'[j] = [jobs[j] EXCEPT !.status = Canceled, !.over = TRUE]
        BY <2>3 DEF Cancels, JobIds
      <3>3. QED
        BY <3>1, <3>2 DEF RowsKeepCodes
    <2>4. QED
      BY <2>1, <2>2, <2>3
         DEF Looks, Throttles, FindsJob, Polls, Checks, Asks, Disconnects, Connects
  <1>4. HandsKept
    <2>1. CASE UNCHANGED proc
      BY <2>1 DEF HandsKept
    <2>2. CASE Looks(r) \/ Throttles(r) \/ Inserts(r) \/ Cancels(r)
      <3>1. /\ ~ Clearing(r)
            /\ \E place \in {"rest", "throttling", "inserting"} : Goes(r, place)
        BY <2>2 DEF Looks, Throttles, Inserts, Cancels, At, Clearing
      <3>2. QED
        BY <1>0, <3>1, GoesKeepsHand
    <2>3. CASE FindsJob(r)
      <3>1. /\ ~ Clearing(r)
            /\ \/ proc' = [proc EXCEPT ![r].at = "rest", ![r].code = NoCode]
               \/ \E j \in ActiveOf(proc[r].tenant) :
                     proc' = [proc EXCEPT ![r].at = "storing", ![r].job = j]
        BY <2>3, Zenon DEF FindsJob, At, Clearing
      <3>2. CASE proc' = [proc EXCEPT ![r].at = "rest", ![r].code = NoCode]
        <4> DEFINE new == [proc[r] EXCEPT !.at = "rest", !.code = NoCode]
        <4>1. new.at = "rest" /\ new.code = NoCode
          BY <1>0 DEF Process
        <4>2. proc' = [proc EXCEPT ![r] = new]
          BY <3>2
        <4> HIDE DEF new
        <4>3. QED
          BY <1>0, <4>1, <4>2, OneHand
      <3>3. ASSUME NEW j, proc' = [proc EXCEPT ![r].at = "storing", ![r].job = j]
            PROVE  HandsKept
        <4> DEFINE new == [proc[r] EXCEPT !.at = "storing", !.job = j]
        <4>1. new.at = "storing" /\ new.code = proc[r].code
          BY <1>0 DEF Process
        <4>2. proc' = [proc EXCEPT ![r] = new]
          BY <3>3
        <4> HIDE DEF new
        <4>3. QED
          BY <1>0, <3>1, <4>1, <4>2, OneHand
      <3>4. QED
        BY <3>1, <3>2, <3>3
    <2>4. ASSUME NEW t \in Tenants, Checks(r, t) PROVE HandsKept
      <3> DEFINE new == [proc[r] EXCEPT !.at = "looking", !.tenant = t, !.code = NoCode]
      <3>1. new.at = "looking" /\ new.code = NoCode
        BY <1>0 DEF Process
      <3>2. proc' = [proc EXCEPT ![r] = new]
        BY <2>4 DEF Checks, Asks
      <3> HIDE DEF new
      <3>3. QED
        BY <1>0, <3>1, <3>2, OneHand
    <2>5. ASSUME NEW t \in Tenants, Disconnects(r, t) PROVE HandsKept
      <3> DEFINE new == [proc[r] EXCEPT !.at = "canceling", !.tenant = t]
      <3>1. new.at = "canceling" /\ new.code = proc[r].code /\ ~ Clearing(r)
        BY <1>0, <2>5 DEF Process, Disconnects, At, Clearing
      <3>2. proc' = [proc EXCEPT ![r] = new]
        BY <2>5 DEF Disconnects
      <3> HIDE DEF new
      <3>3. QED
        BY <1>0, <3>1, <3>2, OneHand
    <2>6. QED
      BY <2>1, <2>2, <2>3, <2>4, <2>5 DEF Polls, Connects
  <1>5. QED
    BY <1>1, <1>2, <1>3, <1>4 DEF Quiet

\* A worker's step on its job, code aside.
LEMMA QuietRuns ==
    ASSUME IInv, NEW w \in Workers,
           \/ Claims(w) \/ Begins(w) \/ Reports(w) \/ Prompts(w)
           \/ Succeeds(w) \/ Fails(w) \/ Mirrors(w)
    PROVE  Quiet
  <1> USE DEF IInv
  <1>0. w \in Processes /\ jobs \in Seq(Job) /\ proc[w] \in Process /\ ~ Clearing(w)
    BY DEF Processes, Shape, Claims, Begins, Reports, Prompts, Succeeds, Fails, Mirrors, At, Clearing
  <1>1. used' = used
    BY DEF Claims, Begins, Reports, Prompts, Succeeds, Fails, Ends, Mirrors
  <1>2. left'["codes"] = left["codes"]
    BY SpendsNoCode DEF Claims, Begins, Reports, Prompts, Succeeds, Fails, Ends, Mirrors
  <1>3. proc[w].job \in JobIds
    BY <1>0 DEF Claims, Begins, Reports, Prompts, Succeeds, Fails, Mirrors, At, Refs, RefsOf, Busy
  <1>4. RowsKeepCodes
    <2>1. CASE UNCHANGED jobs
      BY <2>1 DEF RowsKeepCodes, JobIds
    <2>2. CASE \E status, stale : Put(proc[w].job, status, stale)
      BY <1>0, <1>3, <2>2, PutKeepsCodes
    <2>3. CASE Takes(w, proc[w].job)
      <3> DEFINE j   == proc[w].job
                 row == [jobs[j] EXCEPT !.status = Running, !.worker = proc[w].id,
                                        !.stale = FALSE]
      <3>1. jobs[j] \in Job
        BY <1>0, <1>3 DEF JobIds
      <3>2. row.otp = jobs[j].otp
        BY <3>1 DEF Job
      <3>3. jobs' = [jobs EXCEPT ![j] = row]
        BY <2>3 DEF Takes
      <3> HIDE DEF row
      <3>4. QED
        BY <1>0, <1>3, <3>2, <3>3, OneRow
    <2>4. QED
      BY <2>1, <2>2, <2>3 DEF Claims, Begins, Reports, Prompts, Succeeds, Fails, Ends, Mirrors
  <1>5. HandsKept
    <2>1. CASE UNCHANGED proc
      BY <2>1 DEF HandsKept
    <2>2. CASE \E place \in {"claimed", "browsing", "polling", "succeeded", "failed"} : Goes(w, place)
      BY <1>0, <2>2, GoesKeepsHand
    <2>3. CASE proc' = [proc EXCEPT ![w].at = "idle", ![w].job = NoJob]
      <3> DEFINE new == [proc[w] EXCEPT !.at = "idle", !.job = NoJob]
      <3>1. new.at = "idle" /\ new.code = proc[w].code
        BY <1>0 DEF Process
      <3>2. proc' = [proc EXCEPT ![w] = new]
        BY <2>3
      <3> HIDE DEF new
      <3>3. QED
        BY <1>0, <3>1, <3>2, OneHand
    <2>4. QED
      BY <2>1, <2>2, <2>3
         DEF Claims, Takes, Begins, Reports, Prompts, Succeeds, Fails, Ends, Mirrors
  <1>6. QED
    BY <1>1, <1>2, <1>4, <1>5 DEF Quiet

LEMMA QuietWorkers ==
    ASSUME IInv, NEW w \in Workers, Starts(w) \/ ClaimReads(w) \/ Crash(w)
    PROVE  Quiet
  <1> USE DEF IInv
  <1>0. w \in Processes /\ proc[w] \in Process
    BY DEF Processes, Shape
  <1>1. UNCHANGED <<jobs, used>>
    BY DEF Starts, ClaimReads, Crash
  <1>2. left'["codes"] = left["codes"]
    BY SpendsNoCode DEF Starts, ClaimReads, Crash
  <1>3. RowsKeepCodes
    BY <1>1 DEF RowsKeepCodes, JobIds
  <1>4. ASSUME Starts(w) PROVE HandsKept
    <2>1. ~ Clearing(w) /\ Goes(w, "idle")
      BY <1>4 DEF Starts, At, Clearing
    <2>2. QED
      BY <1>0, <2>1, GoesKeepsHand
  <1>5. ASSUME NEW j, ~ Clearing(w), proc' = [proc EXCEPT ![w].at = "claiming", ![w].job = j]
        PROVE  HandsKept
    <2> DEFINE new == [proc[w] EXCEPT !.at = "claiming", !.job = j]
    <2>1. new.at = "claiming" /\ new.code = proc[w].code
      BY <1>0 DEF Process
    <2>2. proc' = [proc EXCEPT ![w] = new]
      BY <1>5
    <2> HIDE DEF new
    <2>3. QED
      BY <1>0, <1>5, <2>1, <2>2, OneHand
  <1>6. ASSUME Crash(w) PROVE HandsKept
    <2>1. PICK id : proc' = [proc EXCEPT ![w].at = "dead", ![w].id = id,
                                         ![w].job = NoJob, ![w].code = NoCode]
      BY <1>6 DEF Crash
    <2> DEFINE new == [proc[w] EXCEPT !.at = "dead", !.id = id, !.job = NoJob, !.code = NoCode]
    <2>2. new.at = "dead" /\ new.code = NoCode
      BY <1>0 DEF Process
    <2>3. proc' = [proc EXCEPT ![w] = new]
      BY <2>1
    <2> HIDE DEF new
    <2>4. QED
      BY <1>0, <2>2, <2>3, OneHand
  <1>7. HandsKept
    BY <1>4, <1>5, <1>6 DEF ClaimReads, At, Clearing
  <1>8. QED
    BY <1>1, <1>2, <1>3, <1>7 DEF Quiet

LEMMA QuietTime ==
    ASSUME IInv, \/ \E j \in JobIds : JobAges(j) \/ ErrorCools(j)
                 \/ BeaconFades \/ UNCHANGED vars
    PROVE  Quiet
  <1>1. UNCHANGED <<proc, used, left>>
    BY DEF JobAges, ErrorCools, BeaconFades, vars
  <1>2. ASSUME NEW j \in JobIds, JobAges(j) PROVE RowsKeepCodes
    <2> DEFINE row == [jobs[j] EXCEPT !.old = TRUE]
    <2>1. row.otp = jobs[j].otp
      BY DEF IInv, Shape, JobIds, Job
    <2>2. jobs' = [jobs EXCEPT ![j] = row]
      BY <1>2 DEF JobAges
    <2> HIDE DEF row
    <2>3. QED
      BY <2>1, <2>2, OneRow DEF IInv, Shape
  <1>3. ASSUME NEW j \in JobIds, ErrorCools(j) PROVE RowsKeepCodes
    <2> DEFINE row == [jobs[j] EXCEPT !.cooling = FALSE]
    <2>1. row.otp = jobs[j].otp
      BY DEF IInv, Shape, JobIds, Job
    <2>2. jobs' = [jobs EXCEPT ![j] = row]
      BY <1>3 DEF ErrorCools
    <2> HIDE DEF row
    <2>3. QED
      BY <2>1, <2>2, OneRow DEF IInv, Shape
  <1>4. ASSUME BeaconFades \/ UNCHANGED vars PROVE RowsKeepCodes
    <2>1. jobs' = jobs
      BY <1>4 DEF BeaconFades, vars
    <2>2. QED
      BY <2>1 DEF RowsKeepCodes, JobIds
  <1>5. RowsKeepCodes
    BY <1>2, <1>3, <1>4
  <1>6. QED
    BY <1>1, <1>5 DEF Quiet, HandsKept

-----------------------------------------------------------------------------
(* The four steps of a code.                                               *)

\* What one of them does to the process that takes it.
LEMMA HandMoves ==
    ASSUME Shape, NEW p \in Processes, NEW new, proc' = [proc EXCEPT ![p] = new]
    PROVE  proc'[p] = new /\ \A q \in Processes : q # p => proc'[q] = proc[q]
  BY DEF Shape

\* A code that is typed is greater than what is left, hence in no other hand.
LEMMA TypedIsNew ==
    ASSUME IInv, CodeInv, NEW r \in Requests, NEW t \in Tenants, Types(r, t)
    PROVE  CodeInv'
  <1> DEFINE c   == left["codes"]
             new == [proc[r] EXCEPT !.at = "typing", !.tenant = t, !.code = c]
  <1>1. r \in Processes /\ proc[r] \in Process /\ Shape
    BY DEF IInv, Shape, Processes
  <1>2. c \in Nat /\ c > NoCode /\ left'["codes"] = c - 1 /\ UNCHANGED <<jobs, used>>
    BY <1>1 DEF Types, Clicks, Asks, Shape, Bounds, NoCode
  <1>3. new.at = "typing" /\ new.code = c
    BY <1>1 DEF Process
  <1>4. proc' = [proc EXCEPT ![r] = new]
    BY DEF Types, Asks
  <1> HIDE DEF new
  <1>5. proc'[r] = new /\ \A q \in Processes : q # r => proc'[q] = proc[q]
    BY <1>1, <1>4, HandMoves
  <1>6. /\ \A p \in Processes : proc[p].code \in Nat
        /\ \A j \in JobIds : jobs[j].otp \in Nat
        /\ \A n \in DOMAIN used : used[n][1] \in Nat
    <2>1. \A p \in Processes : proc[p].code \in Nat
      BY <1>1 DEF Shape, Process
    <2>2. \A j \in JobIds : jobs[j].otp \in Nat
      <3>1. \A j \in JobIds : jobs[j] \in Job
        BY <1>1 DEF Shape, JobIds
      <3>2. QED
        BY <3>1 DEF Job
    <2>3. ASSUME NEW n \in DOMAIN used PROVE used[n][1] \in Nat
      <3>1. used[n] \in Nat \X Tenants
        BY DEF CodeInv
      <3>2. QED
        BY <3>1
    <2>4. QED
      BY <2>1, <2>2, <2>3
  <1>7. /\ \A p \in Processes : proc[p].code # c
        /\ \A j \in JobIds : jobs[j].otp # c
        /\ \A n \in DOMAIN used : used[n][1] # c
    BY <1>2, <1>6 DEF CodeInv, CodesAreTyped, NoCode
  <1> HIDE DEF c
  <1>8. CodesAreTyped'
    BY <1>2, <1>3, <1>5, <1>6 DEF CodeInv, CodesAreTyped, JobIds, c
  <1>9. HandsAreApart'
    BY <1>2, <1>3, <1>5, <1>7 DEF CodeInv, HandsAreApart, Clearing, JobIds
  <1>10. UsedIsGone' /\ CodesAreUsedOnce'
    BY <1>2, <1>3, <1>5, <1>7 DEF CodeInv, UsedIsGone, CodesAreUsedOnce, JobIds
  <1>11. ClearingHasCode'
    BY <1>3, <1>5 DEF CodeInv, ClearingHasCode, Clearing
  <1>12. QED
    BY <1>2, <1>8, <1>9, <1>10, <1>11 DEF CodeInv

\* submit_otp: from the request to the row; the code that was there is lost.
LEMMA StoredIsMoved ==
    ASSUME IInv, CodeInv, NEW r \in Requests, StoresCode(r)
    PROVE  CodeInv'
  <1> DEFINE c   == proc[r].code
             i   == proc[r].job
             new == [proc[r] EXCEPT !.at = "rest", !.job = NoJob, !.code = NoCode]
             row == [jobs[i] EXCEPT !.otp = c, !.cooling = (jobs[i].status = Error)]
  <1>1. r \in Processes /\ proc[r] \in Process /\ Shape /\ jobs \in Seq(Job)
    BY DEF IInv, Shape, Processes
  <1>2. i \in JobIds /\ ~ Clearing(r) /\ UNCHANGED <<used, left>>
    BY <1>1 DEF IInv, Refs, RefsOf, Busy, StoresCode, At, Clearing
  <1>3. new.at = "rest" /\ new.code = NoCode
    BY <1>1 DEF Process
  <1>4. row.otp = c
    BY <1>1, <1>2 DEF JobIds, Job
  <1>5. proc' = [proc EXCEPT ![r] = new] /\ jobs' = [jobs EXCEPT ![i] = row]
    BY DEF StoresCode
  <1> HIDE DEF new, row
  <1>6. proc'[r] = new /\ \A q \in Processes : q # r => proc'[q] = proc[q]
    BY <1>1, <1>5, HandMoves
  <1>7. /\ JobIds' = JobIds /\ jobs'[i] = row
        /\ \A j \in JobIds : j # i => jobs'[j] = jobs[j]
    BY <1>1, <1>2, <1>5 DEF JobIds
  <1>8. c # NoCode => /\ \A p \in Processes : p # r => proc[p].code # c
                      /\ \A j \in JobIds : jobs[j].otp # c
                      /\ \A n \in DOMAIN used : used[n][1] # c
                      /\ c > left["codes"]
    BY <1>1, <1>2 DEF CodeInv, CodesAreTyped, HandsAreApart, UsedIsGone
  <1> HIDE DEF c, i
  <1>9. CodesAreTyped'
    BY <1>2, <1>3, <1>4, <1>6, <1>7, <1>8 DEF CodeInv, CodesAreTyped
  <1>10. HandsAreApart'
    <2>1. ASSUME NEW p \in Processes, proc'[p].code # NoCode PROVE p # r /\ proc'[p] = proc[p]
      BY <1>3, <1>6, <2>1
    <2>2. ASSUME NEW p \in Processes, NEW q \in Processes,
                 proc'[p].code # NoCode, proc'[p].code = proc'[q].code
          PROVE  p = q
      BY <2>1, <2>2 DEF CodeInv, HandsAreApart
    <2>3. ASSUME NEW j \in JobIds, NEW k \in JobIds,
                 jobs'[j].otp # NoCode, jobs'[j].otp = jobs'[k].otp
          PROVE  j = k
      BY <1>4, <1>7, <1>8, <2>3 DEF CodeInv, HandsAreApart
    <2>4. ASSUME NEW p \in Processes, NEW j \in JobIds,
                 proc'[p].code # NoCode, proc'[p].code = jobs'[j].otp
          PROVE  proc'[p].at = "clearing" /\ proc'[p].job = j
      BY <1>4, <1>7, <1>8, <2>1, <2>4 DEF CodeInv, HandsAreApart, Clearing
    <2>5. QED
      BY <1>7, <2>2, <2>3, <2>4 DEF HandsAreApart, Clearing
  <1>11. \A n \in DOMAIN used : used[n][1] # NoCode
    BY <1>1 DEF CodeInv, CodesAreTyped, Shape, Bounds, NoCode
  <1>12. UsedIsGone' /\ CodesAreUsedOnce'
    BY <1>2, <1>3, <1>4, <1>6, <1>7, <1>8, <1>11 DEF CodeInv, UsedIsGone, CodesAreUsedOnce
  <1>13. ClearingHasCode'
    BY <1>3, <1>6 DEF CodeInv, ClearingHasCode, Clearing
  <1>14. QED
    BY <1>2, <1>9, <1>10, <1>12, <1>13 DEF CodeInv

\* consume_otp reads: nobody else drives the job, so nobody else has read it.
LEMMA ReadIsOnlyOne ==
    ASSUME IInv, CodeInv, NEW w \in Workers, ReadsCode(w)
    PROVE  CodeInv'
  <1> DEFINE i   == proc[w].job
             c   == jobs[i].otp
             new == [proc[w] EXCEPT !.at = "clearing", !.code = c]
  <1>1. w \in Processes /\ proc[w] \in Process /\ Shape
    BY DEF IInv, Shape, Processes
  <1>2. /\ i \in JobIds /\ proc[w].at = "polling" /\ c # NoCode
        /\ UNCHANGED <<jobs, used, left>>
    BY <1>1 DEF IInv, Refs, RefsOf, Busy, ReadsCode, At
  <1>3. new.at = "clearing" /\ new.code = c /\ new.job = i
    BY <1>1 DEF Process
  <1>4. proc' = [proc EXCEPT ![w] = new]
    BY DEF ReadsCode
  <1> HIDE DEF new
  <1>5. proc'[w] = new /\ \A q \in Processes : q # w => proc'[q] = proc[q]
    BY <1>1, <1>4, HandMoves
  <1>6. \A q \in Processes : q # w => proc[q].code # c
    <2>1. ASSUME NEW q \in Processes, q # w, proc[q].code = c PROVE FALSE
      <3>1. Clearing(q) /\ proc[q].job = i
        BY <1>2, <2>1 DEF CodeInv, HandsAreApart
      <3>2. q \in Workers
        BY <3>1 DEF CodeInv, ClearingHasCode
      <3>3. proc[q].at \in Driving /\ proc[w].at \in Driving
        BY <1>2, <3>1 DEF Driving, Clearing
      <3>4. QED
        BY <2>1, <3>1, <3>2, <3>3 DEF IInv, DrivenByOne
    <2>2. QED
      BY <2>1
  <1>7. /\ \A j \in JobIds : jobs[j].otp = c => j = i
        /\ \A n \in DOMAIN used : used[n][1] # c
        /\ c > left["codes"]
    BY <1>2 DEF CodeInv, CodesAreTyped, HandsAreApart, UsedIsGone
  <1> HIDE DEF c, i
  <1>8. CodesAreTyped'
    BY <1>2, <1>3, <1>5, <1>7 DEF CodeInv, CodesAreTyped, JobIds
  <1>9. HandsAreApart'
    BY <1>2, <1>3, <1>5, <1>6, <1>7 DEF CodeInv, HandsAreApart, Clearing, JobIds
  <1>10. UsedIsGone' /\ CodesAreUsedOnce'
    <2>1. ASSUME NEW n \in DOMAIN used, NEW p \in Processes PROVE proc'[p].code # used[n][1]
      BY <1>3, <1>5, <1>7 DEF CodeInv, UsedIsGone
    <2>2. used' = used /\ jobs' = jobs
      BY <1>2
    <2>3. QED
      BY <2>1, <2>2 DEF CodeInv, UsedIsGone, CodesAreUsedOnce, JobIds
  <1>11. ClearingHasCode'
    BY <1>2, <1>3, <1>5 DEF CodeInv, ClearingHasCode, Clearing
  <1>12. QED
    BY <1>2, <1>8, <1>9, <1>10, <1>11 DEF CodeInv

\* consume_otp clears: what the browser gets is in no row and no hand any more.
LEMMA ClearedIsUsed ==
    ASSUME IInv, CodeInv, NEW w \in Workers, ClearsCode(w)
    PROVE  CodeInv'
  <1> DEFINE i   == proc[w].job
             c   == proc[w].code
             use == <<c, TenantOf(w)>>
             new == [proc[w] EXCEPT !.at = "browsing", !.code = NoCode]
             row == [jobs[i] EXCEPT !.otp = NoCode, !.cooling = (jobs[i].status = Error)]
  <1>1. w \in Processes /\ proc[w] \in Process /\ Shape /\ jobs \in Seq(Job)
    BY DEF IInv, Shape, Processes
  <1>2. i \in JobIds /\ Clearing(w) /\ c # NoCode /\ left' = left
    BY <1>1 DEF IInv, Refs, RefsOf, Busy, ClearsCode, At, Clearing, CodeInv, ClearingHasCode
  <1>3. new.at = "browsing" /\ new.code = NoCode
    BY <1>1 DEF Process
  <1>4. row.otp = NoCode /\ use \in Nat \X Tenants /\ use[1] = c
    <2>1. jobs[i] \in Job
      BY <1>1, <1>2 DEF JobIds
    <2>2. row.otp = NoCode /\ TenantOf(w) \in Tenants
      BY <2>1 DEF Job, TenantOf
    <2>3. c \in Nat
      BY <1>1 DEF Process
    <2>4. QED
      BY <2>2, <2>3
  <1>5. /\ proc' = [proc EXCEPT ![w] = new] /\ jobs' = [jobs EXCEPT ![i] = row]
        /\ used' = Append(used, use)
    BY DEF ClearsCode, Uses
  <1> HIDE DEF new, row, use
  <1>6. proc'[w] = new /\ \A q \in Processes : q # w => proc'[q] = proc[q]
    BY <1>1, <1>5, HandMoves
  <1>7. /\ JobIds' = JobIds /\ jobs'[i] = row
        /\ \A j \in JobIds : j # i => jobs'[j] = jobs[j]
    BY <1>1, <1>2, <1>5 DEF JobIds
  <1>8. /\ \A p \in Processes : p # w => proc[p].code # c
        /\ \A j \in JobIds : jobs[j].otp = c => j = i
        /\ \A n \in DOMAIN used : used[n][1] # c
        /\ c > left["codes"]
    BY <1>1, <1>2 DEF CodeInv, CodesAreTyped, HandsAreApart, UsedIsGone
  <1>9. /\ used' \in Seq(Nat \X Tenants)
        /\ \A n \in DOMAIN used' : \/ n \in DOMAIN used /\ used'[n] = used[n]
                                   \/ n = Len(used) + 1 /\ used'[n] = use
        /\ Len(used) + 1 \notin DOMAIN used
    <2>1. used \in Seq(Nat \X Tenants)
      BY DEF CodeInv
    <2>2. /\ Len(used) \in Nat /\ DOMAIN used = 1 .. Len(used)
          /\ DOMAIN used' = 1 .. Len(used) + 1
      BY <1>4, <1>5, <2>1
    <2>3. QED
      BY <1>4, <1>5, <2>1, <2>2
  <1> HIDE DEF c, i
  <1>10. CodesAreTyped'
    BY <1>2, <1>3, <1>4, <1>6, <1>7, <1>8, <1>9 DEF CodeInv, CodesAreTyped
  <1>11. HandsAreApart'
    BY <1>2, <1>3, <1>4, <1>6, <1>7, <1>8 DEF CodeInv, HandsAreApart, Clearing
  <1>12. \A n \in DOMAIN used : used[n][1] # NoCode
    BY <1>1 DEF CodeInv, CodesAreTyped, Shape, Bounds, NoCode
  <1>13. UsedIsGone'
    <2>1. ASSUME NEW n \in DOMAIN used' PROVE used'[n][1] # NoCode
      BY <1>2, <1>4, <1>9, <1>12
    <2>2. ASSUME NEW n \in DOMAIN used', NEW p \in Processes PROVE proc'[p].code # used'[n][1]
      BY <1>3, <1>4, <1>6, <1>8, <1>9, <2>1 DEF CodeInv, UsedIsGone
    <2>3. ASSUME NEW n \in DOMAIN used', NEW j \in JobIds PROVE jobs'[j].otp # used'[n][1]
      BY <1>4, <1>7, <1>8, <1>9, <2>1 DEF CodeInv, UsedIsGone
    <2>4. QED
      BY <1>7, <2>2, <2>3 DEF UsedIsGone
  <1>14. CodesAreUsedOnce'
    BY <1>4, <1>8, <1>9 DEF CodeInv, CodesAreUsedOnce
  <1>15. ClearingHasCode'
    BY <1>3, <1>6 DEF CodeInv, ClearingHasCode, Clearing
  <1>16. QED
    BY <1>9, <1>10, <1>11, <1>13, <1>14, <1>15 DEF CodeInv

-----------------------------------------------------------------------------
LEMMA CodeInit == Init => CodeInv
  <1> SUFFICES ASSUME Init PROVE CodeInv
    OBVIOUS
  <1>1. jobs = << >> /\ used = << >>
    BY DEF Init
  <1>2. \A p \in Processes : proc[p].code = NoCode /\ proc[p].at \in {"dead", "rest"}
    BY DEF Init
  <1>3. CodesAreTyped /\ HandsAreApart /\ UsedIsGone /\ CodesAreUsedOnce
    BY <1>1, <1>2 DEF CodesAreTyped, HandsAreApart, UsedIsGone, CodesAreUsedOnce, JobIds
  <1>4. QED
    BY <1>1, <1>2, <1>3 DEF CodeInv, ClearingHasCode, Clearing

LEMMA CodeStep == IInv /\ CodeInv /\ [Next]_vars => CodeInv'
  <1> SUFFICES ASSUME IInv, CodeInv, [Next]_vars PROVE CodeInv'
    OBVIOUS
  <1>1. Shape
    BY DEF IInv
  <1>2. CASE Quiet
    BY <1>1, <1>2, QuietKeeps
  <1>3. ASSUME NEW r \in Requests,
               \/ RequestStep(r) \/ Polls(r)
               \/ \E t \in Tenants :
                      Checks(r, t) \/ Types(r, t) \/ Disconnects(r, t) \/ Connects(r, t)
        PROVE  CodeInv'
    <2>1. r \in Processes
      BY DEF Processes
    <2>2. QED
      BY <1>2, <1>3, <2>1, QuietReaps, QuietRequests, TypedIsNew, StoredIsMoved DEF RequestStep
  <1>4. ASSUME NEW w \in Workers, WorkerStep(w) \/ Starts(w) \/ Reports(w) \/ Crash(w)
        PROVE  CodeInv'
    <2>1. w \in Processes
      BY DEF Processes
    <2>2. QED
      BY <1>2, <1>4, <2>1, QuietReaps, QuietRuns, QuietWorkers, ReadIsOnlyOne, ClearedIsUsed
         DEF WorkerStep
  <1>5. QED
    BY <1>2, <1>3, <1>4, QuietTime DEF Next

\* consume_otp (jobs.py:346): however codes are replaced, jobs called off and
\* workers killed while a code is being read, the browser gets it once.
THEOREM CodesOnce == Spec => []CodesAreUsedOnce
  <1>1. CodeInv => CodesAreUsedOnce
    BY DEF CodeInv
  <1>2. QED
    BY <1>1, Inductive, CodeInit, CodeStep, PTL DEF Spec

-----------------------------------------------------------------------------
(* Active jobs.  A job is live until it has been final once.  A row that   *)
(* is live came from an insert, and every request that is on its way to an *)
(* insert has found no live job: so the live jobs and those requests make  *)
(* no more than the requests there are.                                    *)

Live(j) == jobs[j].status \in ActiveStates /\ ~ jobs[j].over

FinalIsOver == \A j \in JobIds : jobs[j].status \in Final => jobs[j].over

LiveOf(t) == {j \in JobIds : jobs[j].tenant = t /\ Live(j)}

\* The requests that have looked and not inserted yet.
Looked(t) == {r \in Requests : /\ proc[r].at \in {"throttling", "inserting"}
                               /\ proc[r].tenant = t}

RoomIsLeft(t) == Cardinality(LiveOf(t)) + Cardinality(Looked(t)) <= Cardinality(Requests)

ActiveInv == FinalIsOver /\ \A t \in Tenants : RoomIsLeft(t)

LEMMA StatusIsActiveOrFinal ==
    ASSUME jobs \in Seq(Job), NEW j \in JobIds
    PROVE  /\ jobs[j].status \in ActiveStates \cup Final
           /\ jobs[j].over \in BOOLEAN
           /\ jobs[j].status \in ActiveStates => jobs[j].status \notin Final
  <1>1. jobs[j] \in Job
    BY DEF JobIds
  <1>2. QED
    BY <1>1 DEF Job, ActiveStates, Final, Queued, Running, Waiting, Done, Error, Canceled

\* No row becomes live.
LEMMA LiveOnlyFades ==
    ASSUME IInv, TableKept, FinalIsOver, NEW j \in JobIds
    PROVE  /\ jobs'[j].tenant = jobs[j].tenant
           /\ Live(j)' => Live(j)
           /\ jobs'[j].status \in Final => jobs'[j].over
  <1>1. /\ jobs[j].status \in ActiveStates \/ jobs[j].over
        /\ jobs[j].over => jobs'[j].over
        /\ jobs'[j].status \in Final => jobs'[j].over \/ jobs[j].over
        /\ jobs'[j].tenant = jobs[j].tenant
    BY StatusIsActiveOrFinal DEF IInv, Shape, TableKept, RowKept, FinalIsOver
  <1>2. QED
    BY <1>1 DEF Live

\* One process moves, and not to where a request stands before its insert.
MovesOn(q) ==
    /\ proc'[q].at \notin {"throttling", "inserting"}
    /\ \A p \in Processes \ {q} : proc'[p] = proc[p]

\* How a request comes to stand before its insert.
LEMMA ComesFromLook ==
    ASSUME IInv, [Next]_vars, NEW r \in Requests,
           proc'[r].at \in {"throttling", "inserting"}
    PROVE  proc'[r] = proc[r] \/ Looks(r) \/ Throttles(r)
  <1> USE DEF IInv, Shape
  <1>1. CASE UNCHANGED proc
    BY <1>1
  <1>2. r \in Processes
    BY DEF Processes
  <1>3. ASSUME NEW q \in Processes, MovesOn(q) PROVE proc'[r] = proc[r]
    BY <1>2, <1>3 DEF MovesOn
  <1>4. ASSUME NEW s \in Requests, Looks(s) \/ Throttles(s)
        PROVE  proc'[r] = proc[r] \/ Looks(r) \/ Throttles(r)
    <2>1. CASE s = r
      BY <1>4, <2>1
    <2>2. CASE s # r
      BY <1>4, <2>2 DEF Looks, Throttles, Goes, Processes
    <2>3. QED
      BY <2>1, <2>2
  <1>5. ASSUME NEW s \in Requests,
               Inserts(s) \/ FindsJob(s) \/ StoresCode(s) \/ Cancels(s)
        PROVE  proc'[r] = proc[r]
    <2>1. s \in Processes
      BY DEF Processes
    <2>2. CASE Inserts(s) \/ Cancels(s)
      <3>1. MovesOn(s)
        BY <2>1, <2>2 DEF MovesOn, Process, Inserts, Cancels, Goes
      <3>2. QED
        BY <1>3, <2>1, <3>1
    <2>3. CASE FindsJob(s)
      <3>1. MovesOn(s)
        BY <2>1, <2>3 DEF MovesOn, Process, FindsJob
      <3>2. QED
        BY <1>3, <2>1, <3>1
    <2>4. CASE StoresCode(s)
      <3>1. MovesOn(s)
        BY <2>1, <2>4 DEF MovesOn, Process, StoresCode
      <3>2. QED
        BY <1>3, <2>1, <3>1
    <2>5. QED
      BY <1>5, <2>2, <2>3, <2>4
  <1>6. ASSUME NEW s \in Requests, NEW t \in Tenants,
               Checks(s, t) \/ Types(s, t) \/ Disconnects(s, t) \/ Connects(s, t)
        PROVE  proc'[r] = proc[r]
    <2>1. s \in Processes
      BY DEF Processes
    <2>2. CASE Checks(s, t) \/ Types(s, t)
      <3>1. MovesOn(s)
        BY <2>1, <2>2 DEF MovesOn, Process, Checks, Types, Asks
      <3>2. QED
        BY <1>3, <2>1, <3>1
    <2>3. CASE Disconnects(s, t)
      <3>1. MovesOn(s)
        BY <2>1, <2>3 DEF MovesOn, Process, Disconnects
      <3>2. QED
        BY <1>3, <2>1, <3>1
    <2>4. CASE Connects(s, t)
      BY <1>1, <2>4 DEF Connects
    <2>5. QED
      BY <1>6, <2>2, <2>3, <2>4
  <1>7. ASSUME NEW p \in Processes,
               ReapReads(p) \/ ReapMirrors(p) \/ (\E j \in JobIds : ReapFails(p, j))
        PROVE  UNCHANGED proc
    BY <1>7 DEF ReapReads, ReapMirrors, ReapFails
  <1>8. ASSUME NEW w \in Workers,
               \/ ClaimReads(w) \/ Claims(w) \/ Begins(w) \/ Prompts(w) \/ ReadsCode(w)
               \/ ClearsCode(w) \/ Succeeds(w) \/ Fails(w) \/ Mirrors(w)
               \/ Starts(w) \/ Reports(w) \/ Crash(w)
        PROVE  proc'[r] = proc[r]
    <2>1. w \in Processes
      BY DEF Processes
    <2>2. CASE Begins(w) \/ Prompts(w) \/ Succeeds(w) \/ Fails(w)
      <3>1. MovesOn(w)
        BY <2>1, <2>2 DEF MovesOn, Process, Begins, Prompts, Succeeds, Fails, Ends, Goes
      <3>2. QED
        BY <1>3, <2>1, <3>1
    <2>3. CASE ClaimReads(w) \/ ReadsCode(w) \/ Mirrors(w)
      <3>1. MovesOn(w)
        <4>1. CASE ClaimReads(w)
          <5>1. PICK j : proc' = [proc EXCEPT ![w].at = "claiming", ![w].job = j]
            BY <4>1 DEF ClaimReads
          <5>2. QED
            BY <2>1, <5>1 DEF MovesOn, Process
        <4>2. CASE ReadsCode(w) \/ Mirrors(w)
          BY <2>1, <4>2 DEF MovesOn, Process, ReadsCode, Mirrors
        <4>3. QED
          BY <2>3, <4>1, <4>2
      <3>2. QED
        BY <1>3, <2>1, <3>1
    <2>4. CASE Claims(w)
      <3>1. MovesOn(w)
        BY <2>1, <2>4 DEF MovesOn, Process, Claims, Takes, Goes
      <3>2. QED
        BY <1>3, <2>1, <3>1
    <2>5. CASE ClearsCode(w)
      <3>1. MovesOn(w)
        BY <2>1, <2>5 DEF MovesOn, Process, ClearsCode, Uses
      <3>2. QED
        BY <1>3, <2>1, <3>1
    <2>6. CASE Starts(w)
      <3>1. MovesOn(w)
        BY <2>1, <2>6 DEF MovesOn, Process, Starts, Goes
      <3>2. QED
        BY <1>3, <2>1, <3>1
    <2>7. CASE Reports(w)
      BY <1>1, <2>7 DEF Reports
    <2>8. CASE Crash(w)
      <3>1. MovesOn(w)
        BY <2>1, <2>8 DEF MovesOn, Process, Crash
      <3>2. QED
        BY <1>3, <2>1, <3>1
    <2>9. QED
      BY <1>8, <2>2, <2>3, <2>4, <2>5, <2>6, <2>7, <2>8
  <1>9. QED
    BY <1>1, <1>4, <1>5, <1>6, <1>7, <1>8
       DEF Next, vars, RequestStep, WorkerStep, Polls, JobAges, ErrorCools, BeaconFades, Processes

\* The row an insert adds is the only one that becomes live.
LEMMA InsertAdds ==
    ASSUME IInv, NEW r \in Requests, Inserts(r)
    PROVE  \E n \in Nat :
               /\ n \notin JobIds /\ JobIds' = JobIds \cup {n}
               /\ jobs'[n].tenant = proc[r].tenant /\ jobs'[n].status = Queued
               /\ \A j \in JobIds : jobs'[j] = jobs[j]
               /\ proc[r].at = "inserting" /\ proc'[r].at = "rest"
  <1>1. Len(jobs) \in Nat /\ JobIds = 1 .. Len(jobs)
    BY DEF IInv, Shape, JobIds
  <1>2. JobIds' = JobIds \cup {Len(jobs) + 1} /\ Len(jobs) + 1 \notin JobIds
    BY <1>1 DEF Inserts, IInv, Shape, JobIds
  <1>3. /\ jobs'[Len(jobs) + 1].tenant = proc[r].tenant
        /\ jobs'[Len(jobs) + 1].status = Queued
        /\ \A j \in JobIds : jobs'[j] = jobs[j]
    BY <1>1 DEF Inserts, IInv, Shape, JobIds
  <1>4. proc[r].at = "inserting" /\ proc'[r].at = "rest"
    BY DEF Inserts, At, Goes, IInv, Shape, Processes, Process
  <1>5. QED
    BY <1>1, <1>2, <1>3, <1>4

LEMMA LiveAndLookedAreFinite ==
    ASSUME IInv, NEW t
    PROVE  /\ IsFiniteSet(LiveOf(t)) /\ Cardinality(LiveOf(t)) \in Nat
           /\ IsFiniteSet(Looked(t)) /\ Cardinality(Looked(t)) \in Nat
           /\ IsFiniteSet(Requests) /\ Cardinality(Requests) \in Nat
           /\ Cardinality(Looked(t)) <= Cardinality(Requests)
  <1>1. JobIds = 1 .. Len(jobs) /\ Len(jobs) \in Nat
    BY DEF IInv, Shape, JobIds
  <1>2. IsFiniteSet(JobIds)
    BY <1>1, FS_Interval
  <1>3. LiveOf(t) \subseteq JobIds /\ Looked(t) \subseteq Requests
    BY DEF LiveOf, Looked
  <1>4. QED
    BY <1>2, <1>3, JobsAssumption, FS_Subset, FS_CardinalityType

\* Fewer live jobs and fewer requests before their insert leave more room.
LEMMA RoomStays ==
    ASSUME IInv, NEW t, RoomIsLeft(t),
           LiveOf(t)' \subseteq LiveOf(t), Looked(t)' \subseteq Looked(t)
    PROVE  RoomIsLeft(t)'
  <1>1. /\ Cardinality(LiveOf(t)') <= Cardinality(LiveOf(t))
        /\ Cardinality(Looked(t)') <= Cardinality(Looked(t))
    BY LiveAndLookedAreFinite, FS_Subset
  <1>2. /\ Cardinality(LiveOf(t)') \in Nat /\ Cardinality(Looked(t)') \in Nat
        /\ Cardinality(LiveOf(t)) \in Nat /\ Cardinality(Looked(t)) \in Nat
        /\ Cardinality(Requests) \in Nat
    BY <1>1, LiveAndLookedAreFinite, FS_Subset, FS_CardinalityType
  <1>3. RoomIsLeft(t)' <=>
            Cardinality(LiveOf(t)') + Cardinality(Looked(t)') <= Cardinality(Requests)
    BY DEF RoomIsLeft
  <1>4. QED
    BY <1>1, <1>2, <1>3 DEF RoomIsLeft

LEMMA ActiveStep ==
    ASSUME IInv, ActiveInv, [Next]_vars
    PROVE  ActiveInv'
  <1>1. TableKept
    BY TableStep
  <1>2. \A j \in JobIds : /\ jobs'[j].tenant = jobs[j].tenant
                          /\ Live(j)' => Live(j)
                          /\ jobs'[j].status \in Final => jobs'[j].over
    BY <1>1, LiveOnlyFades DEF ActiveInv
  <1>3. CASE JobIds' = JobIds
    <2>1. FinalIsOver'
      BY <1>2, <1>3 DEF FinalIsOver
    <2>2. ASSUME NEW t \in Tenants PROVE RoomIsLeft(t)'
      <3>1. LiveOf(t)' \subseteq LiveOf(t)
        BY <1>2, <1>3 DEF LiveOf
      <3>2. CASE Looked(t)' \subseteq Looked(t)
        BY <2>2, <3>1, <3>2, RoomStays DEF ActiveInv
      <3>3. ASSUME NEW r \in Looked(t)', r \notin Looked(t) PROVE LiveOf(t) = {}
        <4>1. Looks(r)
          <5>1. r \in Requests /\ proc'[r].at \in {"throttling", "inserting"}
            BY <3>3 DEF Looked
          <5>2. proc'[r] # proc[r]
            BY <3>3 DEF Looked
          <5>3. ~ Throttles(r)
            BY <3>3 DEF Looked, Throttles, At, Goes, IInv, Shape, Processes, Process
          <5>4. QED
            BY <5>1, <5>2, <5>3, ComesFromLook
        <4>2. ActiveOf(t) = {}
          BY <3>3, <4>1 DEF Looked, Looks, Goes, IInv, Shape, Processes, Process
        <4>3. QED
          BY <4>2 DEF LiveOf, Live, ActiveOf, JobsOf
      <3>4. CASE LiveOf(t) = {}
        <4>1. LiveOf(t)' = {}
          BY <3>1, <3>4
        <4>2. Cardinality(LiveOf(t)') = 0
          BY <4>1, FS_EmptySet
        <4>3. Looked(t)' \subseteq Requests
          BY DEF Looked
        <4>4. /\ Cardinality(Looked(t)') <= Cardinality(Requests)
              /\ Cardinality(Looked(t)') \in Nat /\ Cardinality(Requests) \in Nat
          BY <4>3, JobsAssumption, FS_Subset, FS_CardinalityType
        <4>5. QED
          BY <4>2, <4>4 DEF RoomIsLeft
      <3>5. QED
        BY <3>2, <3>3, <3>4
    <2>3. QED
      BY <2>1, <2>2 DEF ActiveInv
  <1>4. ASSUME NEW r \in Requests, Inserts(r) PROVE ActiveInv'
    <2>1. PICK n \in Nat :
              /\ n \notin JobIds /\ JobIds' = JobIds \cup {n}
              /\ jobs'[n].tenant = proc[r].tenant /\ jobs'[n].status = Queued
              /\ \A j \in JobIds : jobs'[j] = jobs[j]
              /\ proc[r].at = "inserting" /\ proc'[r].at = "rest"
      BY <1>4, InsertAdds
    <2>2. FinalIsOver'
      BY <1>2, <2>1 DEF FinalIsOver, Final, Queued, Done, Error, Canceled
    <2>3. \A s \in Requests \ {r} : proc'[s] = proc[s]
      BY <1>4 DEF Inserts, Goes, IInv, Shape, Processes
    <2>4. ASSUME NEW t \in Tenants PROVE RoomIsLeft(t)'
      <3>1. CASE proc[r].tenant # t
        <4>1. LiveOf(t)' \subseteq LiveOf(t)
          BY <1>2, <2>1, <3>1 DEF LiveOf
        <4>2. Looked(t)' \subseteq Looked(t)
          BY <2>1, <2>3 DEF Looked
        <4>3. QED
          BY <2>4, <4>1, <4>2, RoomStays DEF ActiveInv
      <3>2. CASE proc[r].tenant = t
        <4>1. LiveOf(t)' \subseteq LiveOf(t) \cup {n}
          BY <1>2, <2>1 DEF LiveOf
        <4>2. Looked(t)' \subseteq Looked(t) \ {r} /\ r \in Looked(t)
          BY <2>1, <2>3, <3>2 DEF Looked
        <4>3. /\ Cardinality(LiveOf(t)') <= Cardinality(LiveOf(t)) + 1
              /\ Cardinality(LiveOf(t)') \in Nat
          <5> DEFINE more == LiveOf(t) \cup {n}
          <5>1. n \notin LiveOf(t)
            BY <2>1 DEF LiveOf
          <5>2. IsFiniteSet(more) /\ Cardinality(more) = Cardinality(LiveOf(t)) + 1
            BY <5>1, LiveAndLookedAreFinite, FS_AddElement
          <5>3. IsFiniteSet(LiveOf(t)') /\ Cardinality(LiveOf(t)') <= Cardinality(more)
            BY <4>1, <5>2, FS_Subset
          <5>4. QED
            BY <5>2, <5>3, FS_CardinalityType
        <4>4. /\ Cardinality(Looked(t)') <= Cardinality(Looked(t)) - 1
              /\ Cardinality(Looked(t)') \in Nat
          <5> DEFINE fewer == Looked(t) \ {r}
          <5>1. IsFiniteSet(fewer) /\ Cardinality(fewer) = Cardinality(Looked(t)) - 1
            BY <4>2, LiveAndLookedAreFinite, FS_RemoveElement
          <5>2. IsFiniteSet(Looked(t)') /\ Cardinality(Looked(t)') <= Cardinality(fewer)
            BY <4>2, <5>1, FS_Subset
          <5>3. QED
            BY <5>1, <5>2, FS_CardinalityType
        <4>5. /\ Cardinality(LiveOf(t)) \in Nat /\ Cardinality(Looked(t)) \in Nat
              /\ Cardinality(Requests) \in Nat
          BY LiveAndLookedAreFinite
        <4>6. RoomIsLeft(t)
          BY <2>4 DEF ActiveInv
        <4>7. RoomIsLeft(t)' <=>
                  Cardinality(LiveOf(t)') + Cardinality(Looked(t)') <= Cardinality(Requests)
          BY DEF RoomIsLeft
        <4>8. QED
          BY <4>3, <4>4, <4>5, <4>6, <4>7 DEF RoomIsLeft
      <3>3. QED
        BY <3>1, <3>2
    <2>5. QED
      BY <2>2, <2>4 DEF ActiveInv
  <1>5. QED
    BY <1>1, <1>3, <1>4 DEF TableKept

LEMMA ActiveInit == Init => ActiveInv
  <1> SUFFICES ASSUME Init PROVE ActiveInv
    OBVIOUS
  <1>1. JobIds = {} /\ \A r \in Requests : proc[r].at \in {"dead", "rest"}
    BY DEF Init, JobIds, Processes
  <1>2. ASSUME NEW t \in Tenants PROVE RoomIsLeft(t)
    <2>1. LiveOf(t) = {} /\ Looked(t) = {}
      BY <1>1 DEF LiveOf, Looked
    <2>2. Cardinality(LiveOf(t)) = 0 /\ Cardinality(Looked(t)) = 0
      BY <2>1, FS_EmptySet
    <2>3. QED
      BY <2>2, JobsAssumption, FS_CardinalityType DEF RoomIsLeft
  <1>3. QED
    BY <1>1, <1>2 DEF ActiveInv, FinalIsOver

LEMMA ActiveAlways == Spec => [](IInv /\ ActiveInv)
  <1>1. IInv /\ ActiveInv /\ [Next]_vars => ActiveInv'
    BY ActiveStep
  <1>2. QED
    BY <1>1, Inductive, ActiveInit, PTL DEF Spec

\* enqueue (jobs.py:218): however its two statements interleave, a tenant has
\* no more active jobs than there are request threads, except for finished
\* jobs that were brought back.
THEOREM ActiveBounded == Spec => []ActiveAreBounded
  <1>1. IInv /\ ActiveInv => ActiveAreBounded
    <2> SUFFICES ASSUME IInv, ActiveInv, NEW t \in Tenants
                 PROVE  Cardinality(OngoingOf(t)) <= Cardinality(Requests)
      BY DEF ActiveAreBounded
    <2>1. OngoingOf(t) = LiveOf(t)
      BY DEF OngoingOf, ActiveOf, JobsOf, LiveOf, Live
    <2>2. RoomIsLeft(t)
      BY DEF ActiveInv
    <2>3. QED
      BY <2>1, <2>2, LiveAndLookedAreFinite DEF RoomIsLeft
  <1>2. QED
    BY <1>1, ActiveAlways, PTL

\* enqueue's promise itself: while requests do not overlap, a tenant has two
\* active jobs only if one of them had been final before.
THEOREM OneActive ==
    ASSUME \A r, s \in Requests : r = s
    PROVE  Spec => [](\A t \in Tenants : \A j, k \in OngoingOf(t) : j = k)
  <1>1. IInv /\ ActiveInv => \A t \in Tenants : \A j, k \in OngoingOf(t) : j = k
    <2> SUFFICES ASSUME IInv, ActiveInv, NEW t \in Tenants,
                        NEW j \in OngoingOf(t), NEW k \in OngoingOf(t), j # k
                 PROVE  FALSE
      OBVIOUS
    <2>1. {j, k} \subseteq LiveOf(t)
      BY DEF OngoingOf, ActiveOf, JobsOf, LiveOf, Live
    <2>2. IsFiniteSet({j} \cup {k}) /\ Cardinality({j} \cup {k}) = 2
      <3>1. IsFiniteSet({j}) /\ Cardinality({j}) = 1 /\ k \notin {j}
        BY FS_Singleton
      <3>2. QED
        BY <3>1, FS_AddElement
    <2>3. 2 <= Cardinality(LiveOf(t))
      <3>1. {j} \cup {k} \subseteq LiveOf(t)
        BY <2>1
      <3>2. QED
        BY <2>2, <3>1, LiveAndLookedAreFinite, FS_Subset
    <2>4. Cardinality(Requests) <= 1
      <3>1. CASE Requests = {}
        BY <3>1, FS_EmptySet
      <3>2. CASE Requests # {}
        <4>1. PICK r \in Requests : TRUE
          BY <3>2
        <4>2. Requests = {r}
          BY <4>1
        <4>3. QED
          BY <4>2, FS_Singleton
      <3>3. QED
        BY <3>1, <3>2
    <2>5. RoomIsLeft(t)
      BY DEF ActiveInv
    <2>6. QED
      BY <2>3, <2>4, <2>5, LiveAndLookedAreFinite DEF RoomIsLeft
  <1>2. QED
    BY <1>1, ActiveAlways, PTL

-----------------------------------------------------------------------------
(* An account that says `verifying` has somebody who will answer it.       *)

Answered(t) ==
    \/ \E j \in JobsOf(t) : jobs[j].status \in BrowserStates
    \/ \E w \in Workers : InRun(w) /\ TenantOf(w) = t
    \/ \E p \in Processes : reap[p].at = "mirroring" /\ jobs[reap[p].last].tenant = t

\* What each kind of step leaves alone.
LEMMA RequestsLeave ==
    ASSUME NEW r,
           Looks(r) \/ Throttles(r) \/ Inserts(r) \/ FindsJob(r) \/ StoresCode(r) \/ Cancels(r)
    PROVE  UNCHANGED <<account, reap, torn>>
  <1>1. CASE Looks(r) \/ Throttles(r) \/ Inserts(r)
    BY <1>1, Zenon DEF Looks, Throttles, Inserts
  <1>2. CASE FindsJob(r) \/ StoresCode(r) \/ Cancels(r)
    BY <1>2, Zenon DEF FindsJob, StoresCode, Cancels
  <1>3. QED
    BY <1>1, <1>2

LEMMA ClicksLeave ==
    ASSUME NEW r, NEW t, Polls(r) \/ Checks(r, t) \/ Types(r, t) \/ Disconnects(r, t) \/ Connects(r, t)
    PROVE  /\ UNCHANGED <<jobs, torn>>
           /\ At(r, "rest")
           /\ \/ UNCHANGED reap
              \/ UNCHANGED account /\ ReapStarts(r, Nobody, fresh)
  <1>1. CASE Polls(r)
    BY <1>1, Zenon DEF Polls
  <1>2. CASE Checks(r, t) \/ Types(r, t)
    BY <1>2, Zenon DEF Checks, Types, Asks
  <1>3. CASE Disconnects(r, t) \/ Connects(r, t)
    BY <1>3, Zenon DEF Disconnects, Connects
  <1>4. QED
    BY <1>1, <1>2, <1>3

LEMMA PassesLeave ==
    ASSUME NEW p, ReapReads(p) \/ ReapMirrors(p) \/ \E j \in JobIds : ReapFails(p, j)
    PROVE  /\ UNCHANGED <<proc, torn>>
           /\ UNCHANGED jobs \/ \E j \in JobIds : ReapFails(p, j)
           /\ UNCHANGED account \/ ReapMirrors(p)
           /\ reap[p].at = "mirroring" => ReapMirrors(p)
           /\ \E pass : reap' = [reap EXCEPT ![p] = pass]
  <1>1. CASE ReapReads(p)
    <2>1. UNCHANGED <<jobs, account, proc, torn>> /\ reap[p].at = "reading"
      BY <1>1, Zenon DEF ReapReads
    <2>2. \E pass : reap' = [reap EXCEPT ![p] = pass]
      BY <1>1, Zenon DEF ReapReads
    <2>3. QED
      BY <2>1, <2>2
  <1>2. ASSUME NEW j \in JobIds, ReapFails(p, j)
        PROVE  /\ UNCHANGED <<account, proc, torn>> /\ reap[p].at = "failing"
               /\ \E pass : reap' = [reap EXCEPT ![p] = pass]
    <2>1. UNCHANGED <<account, proc, torn>> /\ reap[p].at = "failing"
      BY <1>2, Zenon DEF ReapFails
    <2> DEFINE pass == [reap[p] EXCEPT !.at = "mirroring", !.last = j, !.doomed = @ \ {j}]
    <2>2. reap' = [reap EXCEPT ![p] = pass]
      <3>1. reap' = [reap EXCEPT ![p].at = "mirroring", ![p].last = j,
                                 ![p].doomed = @ \ {j}]
        BY <1>2, Zenon DEF ReapFails
      <3>2. QED
        BY <3>1
    <2> HIDE DEF pass
    <2>3. QED
      BY <2>1, <2>2
  <1>3. CASE ReapMirrors(p)
    <2>1. UNCHANGED <<jobs, proc, torn>>
      BY <1>3, Zenon DEF ReapMirrors
    <2>2. \E pass : reap' = [reap EXCEPT ![p] = pass]
      BY <1>3, Zenon DEF ReapMirrors
    <2>3. QED
      BY <1>3, <2>1, <2>2
  <1>4. QED
    BY <1>1, <1>2, <1>3

LEMMA WorkersLeave ==
    ASSUME NEW w,
           \/ Starts(w) \/ ClaimReads(w) \/ Claims(w) \/ Begins(w) \/ Reports(w)
           \/ Prompts(w) \/ ReadsCode(w) \/ ClearsCode(w) \/ Succeeds(w)
           \/ Fails(w) \/ Mirrors(w)
    PROVE  /\ UNCHANGED torn
           /\ UNCHANGED reap \/ (At(w, "dead") /\ \E id : ReapStarts(w, id, TRUE))
           /\ UNCHANGED account \/ Begins(w) \/ Mirrors(w)
  <1>1. CASE Starts(w)
    BY <1>1, Zenon DEF Starts
  <1>2. CASE ClaimReads(w) \/ Claims(w) \/ Begins(w) \/ Reports(w)
    BY <1>2, Zenon DEF ClaimReads, Claims, Begins, Reports
  <1>3. CASE Prompts(w) \/ ReadsCode(w) \/ ClearsCode(w)
    BY <1>3, Zenon DEF Prompts, ReadsCode, ClearsCode
  <1>4. CASE Succeeds(w) \/ Fails(w) \/ Mirrors(w)
    BY <1>4, Zenon DEF Succeeds, Fails, Ends, Mirrors
  <1>5. QED
    BY <1>1, <1>2, <1>3, <1>4, Zenon

LEMMA TimeLeaves ==
    ASSUME (\E j \in JobIds : JobAges(j) \/ ErrorCools(j)) \/ BeaconFades \/ UNCHANGED vars
    PROVE  UNCHANGED <<account, proc, reap, torn>>
  <1>1. ASSUME NEW j \in JobIds, JobAges(j) \/ ErrorCools(j)
        PROVE  UNCHANGED <<account, proc, reap, torn>>
    BY <1>1, Zenon DEF JobAges, ErrorCools
  <1>2. CASE BeaconFades
    BY <1>2, Zenon DEF BeaconFades
  <1>3. CASE UNCHANGED vars
    BY <1>3 DEF vars
  <1>4. QED
    BY <1>1, <1>2, <1>3

\* The steps of Next, by whose they are.
LEMMA WhoseStep ==
    ASSUME [Next]_vars
    PROVE  \/ \E r \in Requests :
                  Looks(r) \/ Throttles(r) \/ Inserts(r) \/ FindsJob(r) \/ StoresCode(r) \/ Cancels(r)
           \/ \E r \in Requests, t \in Tenants :
                  Polls(r) \/ Checks(r, t) \/ Types(r, t) \/ Disconnects(r, t) \/ Connects(r, t)
           \/ \E p \in Processes : ReapReads(p) \/ ReapMirrors(p) \/ \E j \in JobIds : ReapFails(p, j)
           \/ \E w \in Workers :
                  \/ Starts(w) \/ ClaimReads(w) \/ Claims(w) \/ Begins(w) \/ Reports(w)
                  \/ Prompts(w) \/ ReadsCode(w) \/ ClearsCode(w) \/ Succeeds(w)
                  \/ Fails(w) \/ Mirrors(w)
           \/ \E w \in Workers : Crash(w)
           \/ (\E j \in JobIds : JobAges(j) \/ ErrorCools(j)) \/ BeaconFades \/ UNCHANGED vars
  BY JobsAssumption DEF Next, RequestStep, WorkerStep, Processes

\* Only the begin of a run makes an account `verifying`.
LEMMA VerifyingBegins ==
    ASSUME IInv, [Next]_vars, NEW t \in Tenants,
           account'[t] = "verifying", account[t] # "verifying"
    PROVE  \E w \in Workers : Begins(w) /\ TenantOf(w) = t
  <1> account \in [Tenants -> States]
    BY DEF IInv, Shape
  <1>1. account' # account
    OBVIOUS
  <1>2. ASSUME NEW s, NEW state \in {"connected", "error"}, Mark(s, state)
        PROVE  FALSE
    BY <1>2 DEF Mark, NoRow
  <1>3. ASSUME NEW w \in Workers, Begins(w)
        PROVE  TenantOf(w) = t
    BY <1>3 DEF Begins, Mark
  <1>4. ASSUME NEW r \in Requests, NEW s \in Tenants,
               Polls(r) \/ Checks(r, s) \/ Types(r, s) \/ Disconnects(r, s) \/ Connects(r, s)
        PROVE  FALSE
    <2>1. CASE Disconnects(r, s) \/ Connects(r, s)
      BY <2>1 DEF Disconnects, Connects, NoRow
    <2>2. CASE Polls(r) \/ Checks(r, s) \/ Types(r, s)
      <3>1. UNCHANGED account
        BY <2>2, Zenon DEF Polls, Checks, Types, Asks
      <3>2. QED
        BY <1>1, <3>1
    <2>3. QED
      BY <1>4, <2>1, <2>2
  <1>5. ASSUME NEW p \in Processes, ReapMirrors(p) \/ Mirrors(p)
        PROVE  FALSE
    BY <1>2, <1>5 DEF ReapMirrors, Mirrors
  <1>6. ASSUME NEW w \in Workers, Crash(w)
        PROVE  FALSE
    BY <1>1, <1>6 DEF Crash
  <1>7. QED
    BY <1>1, <1>3, <1>4, <1>5, <1>6, WhoseStep, RequestsLeave, PassesLeave, WorkersLeave,
       TimeLeaves DEF Processes

\* A run that is over has told the account, or its worker is dead.
LEMMA RunsEnd ==
    ASSUME IInv, [Next]_vars, NEW w \in Workers, InRun(w)
    PROVE  \/ InRun(w)' /\ proc'[w].job = proc[w].job
           \/ Mirrors(w) \/ Crash(w)
  <1>1. /\ proc \in [Processes -> Process] /\ w \in Processes /\ proc[w] \in Process
        /\ proc[w].at \in Driving
    BY DEF IInv, Shape, Processes, InRun, Driving
  <1>2. CASE proc'[w] = proc[w]
    BY <1>2 DEF InRun
  <1>3. ASSUME NEW p \in Processes, NEW new, p # w, proc' = [proc EXCEPT ![p] = new]
        PROVE  proc'[w] = proc[w]
    BY <1>1, <1>3
  <1>4. ASSUME NEW place \in Driving, Goes(w, place)
        PROVE  InRun(w)' /\ proc'[w].job = proc[w].job
    BY <1>1, <1>4 DEF Goes, InRun, Driving, Process
  <1>5. ASSUME NEW r \in Requests,
               Looks(r) \/ Throttles(r) \/ Inserts(r) \/ FindsJob(r) \/ StoresCode(r) \/ Cancels(r)
        PROVE  proc'[w] = proc[w]
    <2>1. r \in Processes /\ proc[r].at \notin Driving
      <3>1. CASE Looks(r) \/ Throttles(r) \/ Inserts(r)
        BY <3>1 DEF Looks, Throttles, Inserts, At, Driving, Processes
      <3>2. CASE FindsJob(r) \/ StoresCode(r) \/ Cancels(r)
        <4>1. At(r, "typing") \/ At(r, "storing") \/ At(r, "canceling")
          BY <3>2, Zenon DEF FindsJob, StoresCode, Cancels
        <4>2. QED
          BY <4>1 DEF At, Driving, Processes
      <3>3. QED
        BY <1>5, <3>1, <3>2
    <2>2. r # w
      BY <1>1, <2>1
    <2>3. CASE Looks(r) \/ Throttles(r) \/ Inserts(r) \/ Cancels(r)
      <3>1. PICK place : proc' = [proc EXCEPT ![r].at = place]
        BY <2>3, Zenon DEF Looks, Throttles, Inserts, Cancels, Goes
      <3>2. QED
        BY <1>3, <2>1, <2>2, <3>1
    <2>4. CASE FindsJob(r)
      <3>1. \/ proc' = [proc EXCEPT ![r].at = "rest", ![r].code = NoCode]
            \/ \E j \in ActiveOf(proc[r].tenant) :
                  proc' = [proc EXCEPT ![r].at = "storing", ![r].job = j]
        BY <2>4, Zenon DEF FindsJob
      <3>2. ASSUME NEW j, proc' = [proc EXCEPT ![r].at = "storing", ![r].job = j]
            PROVE  proc'[w] = proc[w]
        <4> DEFINE new == [proc[r] EXCEPT !.at = "storing", !.job = j]
        <4>1. proc' = [proc EXCEPT ![r] = new]
          BY <3>2
        <4> HIDE DEF new
        <4>2. QED
          BY <1>3, <2>1, <2>2, <4>1
      <3>3. CASE proc' = [proc EXCEPT ![r].at = "rest", ![r].code = NoCode]
        BY <1>1, <2>2, <3>3
      <3>4. QED
        BY <3>1, <3>2, <3>3
    <2>5. CASE StoresCode(r)
      <3>1. proc' = [proc EXCEPT ![r].at = "rest", ![r].job = NoJob, ![r].code = NoCode]
        BY <2>5, Zenon DEF StoresCode
      <3>2. QED
        BY <1>1, <2>2, <3>1
    <2>6. QED
      BY <1>5, <2>3, <2>4, <2>5
  <1>6. ASSUME NEW r \in Requests, NEW t \in Tenants,
               Polls(r) \/ Checks(r, t) \/ Types(r, t) \/ Disconnects(r, t) \/ Connects(r, t)
        PROVE  proc'[w] = proc[w]
    <2>1. r # w
      BY <1>1, <1>6, ClicksLeave DEF At, Driving
    <2>2. CASE Polls(r) \/ Connects(r, t)
      BY <2>2 DEF Polls, Connects
    <2>3. CASE Checks(r, t) \/ Types(r, t) \/ Disconnects(r, t)
      BY <1>1, <2>1, <2>3 DEF Checks, Types, Disconnects, Asks
    <2>4. QED
      BY <1>6, <2>2, <2>3
  <1>7. ASSUME NEW v \in Workers,
               \/ Starts(v) \/ ClaimReads(v) \/ Claims(v) \/ Begins(v) \/ Reports(v)
               \/ Prompts(v) \/ ReadsCode(v) \/ ClearsCode(v) \/ Succeeds(v)
               \/ Fails(v) \/ Mirrors(v) \/ Crash(v),
               v # w
        PROVE  proc'[w] = proc[w]
    <2>1. CASE \/ Starts(v) \/ ClaimReads(v) \/ Begins(v) \/ Reports(v) \/ Prompts(v)
               \/ ReadsCode(v) \/ Mirrors(v)
      BY <1>1, <1>7, <2>1 DEF Starts, ClaimReads, Begins, Reports, Prompts, ReadsCode, Mirrors, Goes
    <2>2. CASE Claims(v) \/ ClearsCode(v) \/ Succeeds(v) \/ Fails(v) \/ Crash(v)
      BY <1>1, <1>7, <2>2 DEF Claims, Takes, ClearsCode, Uses, Succeeds, Fails, Ends, Crash, Goes
    <2>3. QED
      BY <1>7, <2>1, <2>2
  <1>8. CASE Begins(w) \/ Prompts(w) \/ Succeeds(w) \/ Fails(w)
    BY <1>4, <1>8 DEF Begins, Prompts, Succeeds, Fails, Ends, Driving
  <1>9. CASE ReadsCode(w) \/ ClearsCode(w)
    <2>1. /\ proc'[w].at \in {"clearing", "browsing"}
          /\ proc'[w].job = proc[w].job
      BY <1>1, <1>9 DEF ReadsCode, ClearsCode, Uses, Process
    <2>2. QED
      BY <2>1 DEF InRun
  <1>10. CASE Reports(w)
    BY <1>2, <1>10 DEF Reports
  <1>11. ~ (Starts(w) \/ ClaimReads(w) \/ Claims(w))
    BY <1>1 DEF Starts, ClaimReads, Claims, At, Driving
  <1>12. QED
    BY <1>2, <1>5, <1>6, <1>7, <1>8, <1>9, <1>10, <1>11, WhoseStep, PassesLeave, TimeLeaves

\* A reap pass that owes the account an answer gives it, or dies.
LEMMA PassesEnd ==
    ASSUME IInv, [Next]_vars, NEW p \in Processes, reap[p].at = "mirroring"
    PROVE  reap'[p] = reap[p] \/ ReapMirrors(p) \/ (p \in Workers /\ Crash(p))
  <1> reap \in [Processes -> Reaping]
    BY DEF IInv, Shape
  <1>1. ASSUME NEW q \in Processes, NEW me, NEW online, At(q, "rest") \/ At(q, "dead"),
               ReapStarts(q, me, online)
        PROVE  reap'[p] = reap[p]
    BY <1>1 DEF At, ReapStarts
  <1>2. ASSUME NEW q \in Processes,
               ReapReads(q) \/ ReapMirrors(q) \/ (\E j \in JobIds : ReapFails(q, j))
        PROVE  reap'[p] = reap[p] \/ ReapMirrors(p)
    <2>1. PICK pass : reap' = [reap EXCEPT ![q] = pass]
      BY <1>2, PassesLeave
    <2>2. QED
      BY <1>2, <2>1, PassesLeave
  <1>3. ASSUME NEW w \in Workers, Crash(w)
        PROVE  reap'[p] = reap[p] \/ p = w
    BY <1>3 DEF Crash
  <1>4. QED
    BY <1>1, <1>2, <1>3, WhoseStep, RequestsLeave, ClicksLeave, WorkersLeave, TimeLeaves
       DEF Processes

\* A job leaves the browser states when a pass fails it, a disconnect calls it
\* off, or its run ends.
LEMMA BrowsingEnds ==
    ASSUME IInv, [Next]_vars, NEW j \in JobIds,
           jobs[j].status \in BrowserStates, jobs'[j].status \notin BrowserStates
    PROVE  \/ \E p \in Processes : ReapFails(p, j)
           \/ \E r \in Requests : Cancels(r) /\ j \in ActiveOf(proc[r].tenant)
           \/ \E w \in Workers : (Succeeds(w) \/ Fails(w)) /\ proc[w].job = j
  <1> jobs \in Seq(Job) /\ jobs[j] \in Job
    BY DEF IInv, Shape, JobIds
  <1>1. jobs'[j].status # jobs[j].status /\ jobs'[j] # jobs[j] /\ jobs' # jobs
    OBVIOUS
  <1>2. ASSUME NEW k \in JobIds, NEW status, NEW stale, Put(k, status, stale)
        PROVE  k = j /\ status \notin BrowserStates
    BY <1>1, <1>2 DEF Put, Job, JobIds
  <1>3. ASSUME NEW w \in Workers, proc[w].at \in Busy
        PROVE  proc[w].job \in JobIds
    BY <1>3 DEF IInv, Refs, RefsOf, Processes
  <1>4. ASSUME NEW r \in Requests, Looks(r) \/ Throttles(r) \/ FindsJob(r)
        PROVE  FALSE
    BY <1>1, <1>4, Zenon DEF Looks, Throttles, FindsJob
  <1>5. ASSUME NEW r \in Requests, Inserts(r)
        PROVE  FALSE
    BY <1>1, <1>5 DEF Inserts, JobIds
  <1>6. ASSUME NEW r \in Requests, StoresCode(r)
        PROVE  FALSE
    <2> DEFINE k == proc[r].job
    <2>1. jobs' = [jobs EXCEPT ![k].otp = proc[r].code,
                               ![k].cooling = (jobs[k].status = Error)]
      BY <1>6, Zenon DEF StoresCode
    <2> HIDE DEF k
    <2>2. jobs'[j].status = jobs[j].status
      BY <2>1 DEF JobIds, Job
    <2>3. QED
      BY <1>1, <2>2
  <1>7. ASSUME NEW r \in Requests, Cancels(r)
        PROVE  j \in ActiveOf(proc[r].tenant)
    <2> DEFINE active == ActiveOf(proc[r].tenant)
    <2>1. jobs' = [k \in JobIds |->
              IF k \in active
              THEN [jobs[k] EXCEPT !.status = Canceled, !.over = TRUE]
              ELSE jobs[k]]
      BY <1>7, Zenon DEF Cancels
    <2> HIDE DEF active
    <2>2. CASE j \notin active
      <3>1. jobs'[j] = jobs[j]
        BY <2>1, <2>2, Zenon
      <3>2. QED
        BY <1>1, <3>1
    <2>3. QED
      BY <2>2, Zenon DEF active
  <1>8. ASSUME NEW p \in Processes, NEW k \in JobIds, ReapFails(p, k)
        PROVE  ReapFails(p, j)
    BY <1>2, <1>8 DEF ReapFails
  <1>9. ASSUME NEW w \in Workers,
               Starts(w) \/ ClaimReads(w) \/ Begins(w) \/ ReadsCode(w) \/ Mirrors(w) \/ Crash(w)
        PROVE  FALSE
    <2>1. UNCHANGED jobs
      BY <1>9, Zenon DEF Starts, ClaimReads, Begins, ReadsCode, Mirrors, Crash
    <2>2. QED
      BY <1>1, <2>1
  <1>10. ASSUME NEW w \in Workers, Claims(w)
         PROVE  FALSE
    <2>1. jobs[proc[w].job].status = Queued /\ Takes(w, proc[w].job)
      BY <1>1, <1>10, Zenon DEF Claims
    <2>2. proc[w].job # j
      BY <2>1 DEF BrowserStates, Queued, Running, Waiting
    <2>3. QED
      BY <1>1, <2>1, <2>2 DEF Takes, JobIds
  <1>11. ASSUME NEW w \in Workers, Reports(w) \/ Prompts(w)
         PROVE  FALSE
    <2>1. proc[w].job \in JobIds
      BY <1>3, <1>11 DEF Reports, Prompts, At, Busy
    <2>2. QED
      BY <1>2, <1>11, <2>1 DEF Reports, Prompts, BrowserStates
  <1>12. ASSUME NEW w \in Workers, ClearsCode(w)
         PROVE  FALSE
    <2> DEFINE k == proc[w].job
    <2>1. jobs' = [jobs EXCEPT ![k].otp = NoCode,
                               ![k].cooling = (jobs[k].status = Error)]
      BY <1>12, Zenon DEF ClearsCode
    <2> HIDE DEF k
    <2>2. jobs'[j].status = jobs[j].status
      BY <2>1 DEF JobIds, Job
    <2>3. QED
      BY <1>1, <2>2
  <1>13. ASSUME NEW w \in Workers, Succeeds(w) \/ Fails(w)
         PROVE  proc[w].job = j
    <2>1. proc[w].job \in JobIds
      BY <1>3, <1>13 DEF Succeeds, Fails, At, Busy
    <2>2. QED
      BY <1>2, <1>13, <2>1 DEF Succeeds, Fails, Ends
  <1>14. ASSUME NEW k \in JobIds, JobAges(k) \/ ErrorCools(k)
         PROVE  FALSE
    BY <1>1, <1>14 DEF JobAges, ErrorCools, JobIds, Job
  <1>15. ~ (BeaconFades \/ UNCHANGED vars)
    BY <1>1 DEF BeaconFades, vars
  <1>16. ASSUME NEW p \in Processes, ReapReads(p) \/ ReapMirrors(p)
         PROVE  FALSE
    <2>1. UNCHANGED jobs
      BY <1>16, Zenon DEF ReapReads, ReapMirrors
    <2>2. QED
      BY <1>1, <2>1
  <1>17. QED
    BY <1>1, <1>4, <1>5, <1>6, <1>7, <1>8, <1>9, <1>10, <1>11, <1>12, <1>13, <1>14, <1>15, <1>16,
       WhoseStep, ClicksLeave

\* The premise: nobody connects a tenant whose disconnect is not through, so
\* the jobs a disconnect calls off belong to an account that has no row.
ConnectsAfterDisconnect ==
    \A r \in Requests : proc[r].at = "canceling" => account[proc[r].tenant] = NoRow

LEMMA TornStays ==
    ASSUME [Next]_vars, torn
    PROVE  torn'
  <1>1. ASSUME NEW w \in Workers, Crash(w)
        PROVE  torn'
    BY <1>1, Zenon DEF Crash
  <1>2. QED
    BY <1>1, WhoseStep, RequestsLeave, ClicksLeave, PassesLeave, WorkersLeave, TimeLeaves

\* Who drives a job of t in the next state answers for it.
LEMMA DriverAnswers ==
    ASSUME IInv, TableKept, NEW t \in Tenants, NEW w \in Workers,
           proc[w].at \in Driving, TenantOf(w) = t,
           InRun(w)', proc'[w].job = proc[w].job
    PROVE  Answered(t)'
  <1>1. proc[w].job \in JobIds
    BY DEF IInv, Refs, RefsOf, Processes, Driving, Busy
  <1>2. TenantOf(w)' = t
    BY <1>1 DEF TenantOf, TableKept, RowKept
  <1>3. QED
    BY <1>2 DEF Answered

\* Whoever answers for an account still does after a step that leaves it
\* `verifying`, or somebody else does.
LEMMA AnswerGoesOn ==
    ASSUME IInv, [Next]_vars, ConnectsAfterDisconnect, NEW t \in Tenants,
           account[t] = "verifying", Answered(t), account'[t] = "verifying", ~ torn'
    PROVE  Answered(t)'
  <1> TableKept
    BY TableStep
  <1> account \in [Tenants -> States] /\ proc \in [Processes -> Process]
      /\ reap \in [Processes -> Reaping] /\ jobs \in Seq(Job)
    BY DEF IInv, Shape
  <1>1. ASSUME NEW state \in {"connected", "error"}
        PROVE  ~ Mark(t, state)
    BY <1>1 DEF Mark, NoRow
  <1>2. ASSUME NEW j \in JobsOf(t), jobs[j].status \in BrowserStates
        PROVE  Answered(t)'
    <2>1. j \in JobIds /\ j \in JobIds' /\ jobs[j].tenant = t /\ jobs'[j].tenant = t
      BY DEF JobsOf, TableKept, RowKept
    <2>2. CASE jobs'[j].status \in BrowserStates
      BY <2>1, <2>2 DEF Answered, JobsOf
    <2>3. ASSUME NEW p \in Processes, ReapFails(p, j)
          PROVE  Answered(t)'
      <3>1. reap' = [reap EXCEPT ![p].at = "mirroring", ![p].last = j,
                                 ![p].doomed = @ \ {j}]
        BY <2>3, Zenon DEF ReapFails
      <3>2. reap'[p].at = "mirroring" /\ reap'[p].last = j
        BY <3>1 DEF Reaping
      <3>3. QED
        BY <2>1, <3>2 DEF Answered
    <2>4. ASSUME NEW r \in Requests, Cancels(r), j \in ActiveOf(proc[r].tenant)
          PROVE  FALSE
      <3>1. proc[r].at = "canceling"
        BY <2>4, Zenon DEF Cancels, At
      <3>2. jobs[j].tenant = proc[r].tenant
        BY <2>4, Zenon DEF ActiveOf, JobsOf
      <3>3. account[t] = NoRow
        BY <2>1, <3>1, <3>2 DEF ConnectsAfterDisconnect
      <3>4. QED
        BY <3>3 DEF NoRow
    <2>5. ASSUME NEW w \in Workers, Succeeds(w) \/ Fails(w), proc[w].job = j
          PROVE  Answered(t)'
      <3>1. proc[w].at \in Driving
        BY <2>5 DEF Succeeds, Fails, At, Driving
      <3>2. InRun(w)' /\ proc'[w].job = proc[w].job
        BY <2>5 DEF Succeeds, Fails, Ends, Goes, InRun, Processes, Process
      <3>3. TenantOf(w) = t
        BY <2>1, <2>5 DEF TenantOf
      <3>4. QED
        BY <3>1, <3>2, <3>3, DriverAnswers
    <2>6. CASE jobs'[j].status \notin BrowserStates
      <3>1. \/ \E p \in Processes : ReapFails(p, j)
            \/ \E r \in Requests : Cancels(r) /\ j \in ActiveOf(proc[r].tenant)
            \/ \E w \in Workers : (Succeeds(w) \/ Fails(w)) /\ proc[w].job = j
        BY <1>2, <2>1, <2>6, BrowsingEnds
      <3>2. QED
        BY <2>3, <2>4, <2>5, <3>1, Zenon
    <2>7. QED
      BY <2>2, <2>6
  <1>3. ASSUME NEW w \in Workers, InRun(w), TenantOf(w) = t
        PROVE  Answered(t)'
    <2>1. proc[w].at \in Driving
      BY <1>3 DEF InRun, Driving
    <2>2. CASE InRun(w)' /\ proc'[w].job = proc[w].job
      BY <1>3, <2>1, <2>2, DriverAnswers
    <2>3. CASE Mirrors(w)
      BY <1>1, <1>3, <2>3 DEF Mirrors
    <2>4. CASE Crash(w)
      <3> DEFINE j == proc[w].job
      <3>1. j \in JobIds /\ j # NoJob /\ proc[w].at # "claiming"
        BY <2>1 DEF IInv, Refs, RefsOf, Processes, Driving, Busy, JobIds, NoJob
      <3>2. torn \/ (j # NoJob /\ proc[w].at # "claiming" /\ jobs[j].status \in Final) => torn'
        BY <2>4, Zenon DEF Crash
      <3>3. jobs[j] \in Job /\ jobs[j].status # Queued /\ jobs[j].status \notin Final
        BY <2>1, <3>1, <3>2 DEF JobIds, IInv, DrivenIsClaimed
      <3>4. jobs[j].status \in BrowserStates
        BY <3>3 DEF Job, ActiveStates, BrowserStates
      <3>5. jobs' = jobs
        BY <2>4, Zenon DEF Crash
      <3>6. jobs[j].tenant = t
        BY <1>3 DEF TenantOf
      <3> HIDE DEF j
      <3>7. QED
        BY <3>1, <3>4, <3>5, <3>6 DEF Answered, JobsOf, JobIds
    <2>5. QED
      BY <1>3, <2>2, <2>3, <2>4, RunsEnd
  <1>4. ASSUME NEW p \in Processes, reap[p].at = "mirroring", jobs[reap[p].last].tenant = t
        PROVE  Answered(t)'
    <2>1. CASE reap'[p] = reap[p]
      <3>1. reap[p].last \in JobIds
        BY <1>4 DEF IInv, Refs, ReapOf
      <3>2. jobs'[reap'[p].last].tenant = t
        BY <1>4, <2>1, <3>1 DEF TableKept, RowKept
      <3>3. QED
        BY <1>4, <2>1, <3>2 DEF Answered
    <2>2. CASE ReapMirrors(p)
      BY <1>1, <1>4, <2>2 DEF ReapMirrors
    <2>3. CASE p \in Workers /\ Crash(p)
      <3>1. reap[p].at = "mirroring" => torn'
        BY <2>3, Zenon DEF Crash
      <3>2. QED
        BY <1>4, <3>1
    <2>4. QED
      BY <1>4, <2>1, <2>2, <2>3, PassesEnd
  <1>5. QED
    BY <1>2, <1>3, <1>4 DEF Answered

LEMMA VerifyingStep ==
    ASSUME IInv, [Next]_vars, ConnectsAfterDisconnect, VerifyingIsAnswered
    PROVE  VerifyingIsAnswered'
  <1>1. SUFFICES ASSUME NEW t \in Tenants, account'[t] = "verifying", ~ torn'
                 PROVE  Answered(t)'
    BY DEF VerifyingIsAnswered, Answered
  <1>2. CASE account[t] = "verifying"
    <2>1. Answered(t)
      BY <1>1, <1>2, TornStays DEF VerifyingIsAnswered, Answered
    <2>2. QED
      BY <1>1, <1>2, <2>1, AnswerGoesOn
  <1>3. CASE account[t] # "verifying"
    <2>1. PICK w \in Workers : Begins(w) /\ TenantOf(w) = t
      BY <1>1, <1>3, VerifyingBegins
    <2>2. proc[w].at \in Driving
      BY <2>1 DEF Begins, At, Driving
    <2>3. InRun(w)' /\ proc'[w].job = proc[w].job
      BY <2>1 DEF Begins, Goes, InRun, IInv, Shape, Processes, Process
    <2>4. QED
      BY <2>1, <2>2, <2>3, TableStep, DriverAnswers
  <1>4. QED
    BY <1>2, <1>3

\* VerifyingIsAnswered as long as nobody connects a tenant whose disconnect is
\* not through: cancel_active would then call off the job that the account,
\* being there again, waits for, and a worker that dies leaves it to nobody.
THEOREM VerifyingAnswered ==
    Spec /\ []ConnectsAfterDisconnect => []VerifyingIsAnswered
  <1>1. Init => VerifyingIsAnswered
    BY DEF Init, VerifyingIsAnswered
  <1>2. IInv /\ ConnectsAfterDisconnect /\ VerifyingIsAnswered /\ [Next]_vars
            => VerifyingIsAnswered'
    BY VerifyingStep
  <1>3. QED
    BY <1>1, <1>2, Inductive, PTL DEF Spec

\* With one request thread the premise holds by itself.
LEMMA DisconnectsAlone ==
    ASSUME \A r, s \in Requests : r = s, IInv, [Next]_vars, ConnectsAfterDisconnect
    PROVE  ConnectsAfterDisconnect'
  <1> account \in [Tenants -> States] /\ proc \in [Processes -> Process]
      /\ Requests \subseteq Processes /\ Workers \subseteq Processes
    BY DEF IInv, Shape, Processes
  <1>1. SUFFICES ASSUME NEW r \in Requests, proc'[r].at = "canceling"
                 PROVE  account'[proc'[r].tenant] = NoRow
    BY DEF ConnectsAfterDisconnect
  <1>2. proc[r] \in Process /\ proc[r].tenant \in Tenants
    BY DEF Process
  <1>3. ASSUME NEW s, NEW state, Mark(s, state)
        PROVE  \A t \in Tenants : account[t] = NoRow => account'[t] = NoRow
    BY <1>3 DEF Mark
  <1>4. CASE proc'[r] = proc[r] /\ (UNCHANGED account \/ \E s, state : Mark(s, state))
    BY <1>1, <1>2, <1>3, <1>4 DEF ConnectsAfterDisconnect
  <1>5. ASSUME NEW s \in Requests,
               Looks(s) \/ Throttles(s) \/ Inserts(s) \/ FindsJob(s) \/ StoresCode(s) \/ Cancels(s)
        PROVE  FALSE
    <2>1. s = r
      OBVIOUS
    <2>2. CASE Looks(s) \/ Throttles(s) \/ Inserts(s) \/ Cancels(s)
      <3>1. PICK place \in {"rest", "throttling", "inserting"} : Goes(s, place)
        BY <2>2, Zenon DEF Looks, Throttles, Inserts, Cancels
      <3>2. QED
        BY <1>1, <2>1, <3>1 DEF Goes
    <2>3. CASE FindsJob(s)
      <3>1. \/ proc' = [proc EXCEPT ![s].at = "rest", ![s].code = NoCode]
            \/ \E j \in ActiveOf(proc[s].tenant) :
                  proc' = [proc EXCEPT ![s].at = "storing", ![s].job = j]
        BY <2>3, Zenon DEF FindsJob
      <3>2. ASSUME NEW j, proc' = [proc EXCEPT ![s].at = "storing", ![s].job = j]
            PROVE  FALSE
        BY <1>1, <1>2, <2>1, <3>2 DEF Process
      <3>3. CASE proc' = [proc EXCEPT ![s].at = "rest", ![s].code = NoCode]
        BY <1>1, <1>2, <2>1, <3>3 DEF Process
      <3>4. QED
        BY <3>1, <3>2, <3>3
    <2>4. CASE StoresCode(s)
      <3>1. proc' = [proc EXCEPT ![s].at = "rest", ![s].job = NoJob, ![s].code = NoCode]
        BY <2>4, Zenon DEF StoresCode
      <3>2. QED
        BY <1>1, <1>2, <2>1, <3>1 DEF Process
    <2>5. QED
      BY <1>5, <2>2, <2>3, <2>4
  <1>6. ASSUME NEW s \in Requests, NEW t \in Tenants,
               Polls(s) \/ Checks(s, t) \/ Types(s, t) \/ Disconnects(s, t) \/ Connects(s, t)
        PROVE  account'[proc'[r].tenant] = NoRow
    <2>1. s = r /\ proc[s].at = "rest"
      BY <1>6, ClicksLeave DEF At
    <2>2. CASE Polls(s) \/ Connects(s, t)
      BY <1>1, <2>1, <2>2 DEF Polls, Connects
    <2>3. CASE Checks(s, t) \/ Types(s, t)
      BY <1>1, <1>2, <2>1, <2>3 DEF Checks, Types, Asks, Process
    <2>4. CASE Disconnects(s, t)
      BY <1>2, <2>1, <2>4 DEF Disconnects, Process
    <2>5. QED
      BY <1>6, <2>2, <2>3, <2>4
  <1>7. ASSUME NEW w \in Workers,
               \/ Starts(w) \/ ClaimReads(w) \/ Claims(w) \/ Begins(w) \/ Reports(w)
               \/ Prompts(w) \/ ReadsCode(w) \/ ClearsCode(w) \/ Succeeds(w)
               \/ Fails(w) \/ Mirrors(w) \/ Crash(w)
        PROVE  proc'[r] = proc[r] /\ (UNCHANGED account \/ \E s, state : Mark(s, state))
    <2>1. CASE \/ Starts(w) \/ ClaimReads(w) \/ Begins(w) \/ Reports(w) \/ Prompts(w)
               \/ ReadsCode(w) \/ Mirrors(w)
      <3>1. proc'[r] = proc[r]
        BY <1>1, <2>1 DEF Starts, ClaimReads, Begins, Reports, Prompts, ReadsCode, Mirrors, Goes,
                          Process
      <3>2. UNCHANGED account \/ \E s, state : Mark(s, state)
        BY <2>1, Zenon DEF Starts, ClaimReads, Begins, Reports, Prompts, ReadsCode, Mirrors
      <3>3. QED
        BY <3>1, <3>2
    <2>2. CASE Claims(w) \/ ClearsCode(w) \/ Succeeds(w) \/ Fails(w) \/ Crash(w)
      <3>1. proc'[r] = proc[r]
        <4>1. CASE Claims(w) \/ Succeeds(w) \/ Fails(w)
          BY <1>1, <4>1 DEF Claims, Takes, Succeeds, Fails, Ends, Goes, Process
        <4>2. CASE ClearsCode(w)
          <5>1. proc' = [proc EXCEPT ![w].at = "browsing", ![w].code = NoCode]
            BY <4>2, Zenon DEF ClearsCode, Uses
          <5>2. QED
            BY <1>1, <5>1 DEF Process
        <4>3. CASE Crash(w)
          BY <1>1, <4>3 DEF Crash, Process
        <4>4. QED
          BY <2>2, <4>1, <4>2, <4>3
      <3>2. UNCHANGED account
        BY <2>2, Zenon DEF Claims, Takes, ClearsCode, Succeeds, Fails, Ends, Crash
      <3>3. QED
        BY <3>1, <3>2
    <2>3. QED
      BY <1>7, <2>1, <2>2
  <1>8. ASSUME NEW p \in Processes,
               ReapReads(p) \/ ReapMirrors(p) \/ \E j \in JobIds : ReapFails(p, j)
        PROVE  proc'[r] = proc[r] /\ (UNCHANGED account \/ \E s, state : Mark(s, state))
    <2>1. ReapMirrors(p) => \E s, state : Mark(s, state)
      BY Zenon DEF ReapMirrors
    <2>2. QED
      BY <1>8, <2>1, PassesLeave
  <1>9. QED
    BY <1>4, <1>5, <1>6, <1>7, <1>8, WhoseStep, TimeLeaves

\* VerifyingIsAnswered where one request thread serves the dashboard.
THEOREM VerifyingAnsweredAlone ==
    ASSUME \A r, s \in Requests : r = s
    PROVE  Spec => []VerifyingIsAnswered
  <1>1. Init => ConnectsAfterDisconnect
    BY DEF Init, ConnectsAfterDisconnect, Processes
  <1>2. IInv /\ [Next]_vars /\ ConnectsAfterDisconnect => ConnectsAfterDisconnect'
    BY DisconnectsAlone
  <1>3. QED
    BY <1>1, <1>2, Inductive, VerifyingAnswered, PTL DEF Spec

-----------------------------------------------------------------------------
(* The life of a job: Jobs implements JobLife.                             *)

LEMMA AppendIs ==
    ASSUME NEW T, NEW s \in Seq(T), NEW e \in T
    PROVE  Append(s, e) = [j \in 1 .. Len(s) + 1 |-> IF j = Len(s) + 1 THEN e ELSE s[j]]
  <1> DEFINE n == Len(s) + 1
             a == Append(s, e)
             f == [j \in 1 .. n |-> IF j = n THEN e ELSE s[j]]
  <1>1. a \in Seq(T) /\ Len(a) = n /\ n \in Nat
    OBVIOUS
  <1>2. \A j \in 1 .. n : a[j] = f[j]
    OBVIOUS
  <1> HIDE DEF a, n
  <1>3. a = [j \in 1 .. n |-> a[j]]
    BY <1>1
  <1>4. f = [j \in 1 .. n |-> f[j]]
    OBVIOUS
  <1> HIDE DEF f
  <1>5. a = f
    BY <1>2, <1>3, <1>4
  <1>6. QED
    BY <1>5 DEF a, f, n

\* What a statement does to the status column when it writes one row.
Written(j, status) ==
    /\ JobIds' = JobIds
    /\ jobs'[j].status = status
    /\ \A k \in JobIds : k # j => jobs'[k].status = jobs[k].status

LEMMA PhaseValues ==
    /\ PhaseOf(Queued) = "queued"
    /\ \A s \in BrowserStates : PhaseOf(s) = "going"
    /\ \A s \in Final : PhaseOf(s) = "over"
  BY DEF PhaseOf, BrowserStates, Final, Queued, Running, Waiting, Done, Error, Canceled

\* One row is written, and with it one phase.
LEMMA PhaseWritten ==
    ASSUME jobs \in Seq(Job), NEW j \in JobIds, NEW status, Written(j, status)
    PROVE  Phases' = [Phases EXCEPT ![j] = PhaseOf(status)]
  BY DEF Phases, Written

LEMMA PutWrites ==
    ASSUME jobs \in Seq(Job), NEW j \in JobIds, NEW status, NEW stale, Put(j, status, stale)
    PROVE  Written(j, status)
  <1>1. jobs[j] \in Job
    BY DEF JobIds
  <1>2. QED
    BY <1>1 DEF Put, Written, JobIds, Job

\* Nobody picks up a job, or lets go of one.
LEMMA DrivesKept ==
    ASSUME \A w \in Workers : /\ InRun(w)' <=> InRun(w)
                              /\ InRun(w) => proc'[w].job = proc[w].job
    PROVE  Drives' = Drives
  BY DEF Drives

\* A process that is not in a run moves, and does not begin one.
LEMMA OutsideMoves ==
    ASSUME NEW p \in Processes, ~ InRun(p), ~ InRun(p)',
           \A q \in Processes \ {p} : proc'[q] = proc[q]
    PROVE  Drives' = Drives
  <1>1. \A w \in Workers : /\ InRun(w)' <=> InRun(w)
                           /\ InRun(w) => proc'[w].job = proc[w].job
    BY DEF InRun, Processes
  <1>2. QED
    BY <1>1, DrivesKept

\* A process goes on within its run, or outside of one.
LEMMA GoesOnDriving ==
    ASSUME IInv, NEW p \in Processes, NEW place, Goes(p, place),
           InRun(p) <=> place \in Driving
    PROVE  Drives' = Drives
  <1>1. /\ proc'[p].at = place /\ proc'[p].job = proc[p].job
        /\ \A q \in Processes \ {p} : proc'[q] = proc[q]
    BY DEF Goes, IInv, Shape, Process
  <1>2. \A w \in Workers : /\ InRun(w)' <=> InRun(w)
                           /\ InRun(w) => proc'[w].job = proc[w].job
    BY <1>1 DEF InRun, Driving, Processes
  <1>3. QED
    BY <1>2, DrivesKept

\* A worker is through with what it has, if it has anything.
LEMMA DrivesLess ==
    ASSUME IInv, NEW w \in Workers, ~ InRun(w)',
           \A q \in Processes \ {w} : proc'[q] = proc[q], UNCHANGED Phases
    PROVE  [Life!Next]_(Life!lifeVars)
  <1>1. CASE ~ InRun(w)
    BY <1>1, OutsideMoves DEF Life!lifeVars, Processes
  <1>2. CASE InRun(w)
    <2> DEFINE j == proc[w].job
    <2>1. j \in JobIds
      BY <1>2 DEF IInv, Refs, RefsOf, InRun, Busy, Processes
    <2>2. Drives' = Drives \ {<<w, j>>}
      <3>1. \A v \in Workers : v # w => proc'[v] = proc[v] /\ (InRun(v)' <=> InRun(v))
        BY DEF InRun, Processes
      <3>2. QED
        BY <3>1 DEF Drives
    <2>3. Life!LetGo(w, j) /\ j \in Life!Jobs
      BY <2>1, <2>2 DEF Life!LetGo, Life!Jobs, Phases
    <2>4. QED
      BY <2>3 DEF Life!Next
  <1>3. QED
    BY <1>1, <1>2

\* A worker writes the row it drives.
LEMMA RunTells ==
    ASSUME IInv, NEW w \in Workers, InRun(w), UNCHANGED Drives,
           NEW status \in BrowserStates \cup Final, Written(proc[w].job, status)
    PROVE  Life!Next
  <1> DEFINE j == proc[w].job
  <1>1. j \in JobIds /\ j \in Life!Jobs
    BY DEF IInv, Refs, RefsOf, InRun, Busy, Processes, Life!Jobs, Phases
  <1>2. Phases' = [Phases EXCEPT ![j] = PhaseOf(status)]
    BY <1>1, PhaseWritten DEF IInv, Shape
  <1>3. PhaseOf(status) \in {"going", "over"}
    BY PhaseValues
  <1>4. <<w, j>> \in Drives
    BY DEF Drives
  <1>5. Life!Tell(w, j)
    BY <1>2, <1>3, <1>4 DEF Life!Tell
  <1>6. QED
    BY <1>1, <1>5 DEF Life!Next

\* Rows are written and keep their status.
LEMMA NothingHappens ==
    ASSUME UNCHANGED Drives, JobIds' = JobIds,
           \A j \in JobIds : jobs'[j].status = jobs[j].status
    PROVE  UNCHANGED Life!lifeVars
  BY DEF Life!lifeVars, Phases

LEMMA LifeInit == Init => Life!Init
  <1> SUFFICES ASSUME Init PROVE Life!Init
    OBVIOUS
  <1>1. JobIds = {}
    BY DEF Init, JobIds
  <1>2. \A w \in Workers : ~ InRun(w)
    BY DEF Init, InRun, Processes
  <1>3. Phases = << >>
    BY <1>1 DEF Phases
  <1>4. Drives = {}
    BY <1>2 DEF Drives
  <1>5. QED
    BY <1>3, <1>4 DEF Life!Init

\* A reap pass or a disconnect ends jobs, whoever works on them.
LEMMA JobsCalledOff ==
    ASSUME UNCHANGED Drives, JobIds' = JobIds, NEW S \in SUBSET JobIds,
           \A j \in S : jobs'[j].status \in Final,
           \A j \in JobIds \ S : jobs'[j].status = jobs[j].status
    PROVE  Life!Next
  <1>1. Life!Jobs = JobIds
    BY DEF Life!Jobs, Phases
  <1>2. \A j \in S : PhaseOf(jobs'[j].status) = "over"
    BY PhaseValues
  <1>3. Phases' = [j \in JobIds |-> IF j \in S THEN "over" ELSE Phases[j]]
    BY <1>2 DEF Phases
  <1>4. Life!CallOff(S)
    BY <1>1, <1>3 DEF Life!CallOff
  <1>5. QED
    BY <1>1, <1>4 DEF Life!Next

\* The steps of requests.
LEMMA RequestLives ==
    ASSUME IInv, NEW r \in Requests,
           Looks(r) \/ Throttles(r) \/ Inserts(r) \/ FindsJob(r) \/ StoresCode(r) \/ Cancels(r)
    PROVE  [Life!Next]_(Life!lifeVars)
  <1>0. r \in Processes /\ proc \in [Processes -> Process] /\ jobs \in Seq(Job)
    BY DEF Processes, IInv, Shape
  <1>1. CASE Looks(r) \/ Throttles(r)
    <2>1. PICK place \in {"rest", "throttling", "inserting"} : Goes(r, place)
      BY <1>1 DEF Looks, Throttles
    <2>2. ~ InRun(r) /\ UNCHANGED jobs
      BY <1>1 DEF Looks, Throttles, At, InRun
    <2>3. UNCHANGED Drives
      BY <1>0, <2>1, <2>2, GoesOnDriving DEF Driving
    <2>4. QED
      BY <2>2, <2>3, NothingHappens DEF JobIds
  <1>2. CASE Inserts(r)
    <2>1. UNCHANGED Drives
      BY <1>0, <1>2, GoesOnDriving DEF Inserts, At, InRun, Driving
    <2>2. PICK row : row.status = Queued /\ jobs' = Append(jobs, row)
      BY <1>2 DEF Inserts
    <2>3. /\ JobIds = 1 .. Len(jobs) /\ JobIds' = 1 .. Len(jobs) + 1 /\ Len(jobs) \in Nat
          /\ jobs'[Len(jobs) + 1] = row
          /\ \A j \in JobIds : jobs'[j] = jobs[j]
      BY <1>0, <2>2 DEF JobIds
    <2>4. Phases' = Append(Phases, "queued")
      <3> DEFINE Part == {"queued", "going", "over"}
      <3>1. Phases \in Seq(Part) /\ Len(Phases) = Len(jobs)
        <4>1. \A j \in JobIds : jobs[j].status \in {Queued} \cup BrowserStates \cup Final
          <5>1. \A j \in JobIds : jobs[j] \in Job
            BY <1>0 DEF JobIds
          <5>2. QED
            BY <5>1 DEF Job, ActiveStates, BrowserStates
        <4>2. \A j \in JobIds : PhaseOf(jobs[j].status) \in Part
          BY <4>1, PhaseValues
        <4> HIDE DEF Part
        <4>3. QED
          BY <2>3, <4>2 DEF Phases
      <3>2. \A j \in JobIds' : Phases'[j] = IF j = Len(jobs) + 1 THEN "queued" ELSE Phases[j]
        BY <2>2, <2>3, PhaseValues DEF Phases
      <3>3. Phases' = [j \in 1 .. Len(jobs) + 1 |->
                          IF j = Len(jobs) + 1 THEN "queued" ELSE Phases[j]]
        BY <2>3, <3>2 DEF Phases
      <3>4. Append(Phases, "queued") = [j \in 1 .. Len(jobs) + 1 |->
                          IF j = Len(jobs) + 1 THEN "queued" ELSE Phases[j]]
        BY <3>1, AppendIs
      <3>5. QED
        BY <3>3, <3>4
    <2>5. Life!Ask
      BY <2>1, <2>4 DEF Life!Ask
    <2>6. QED
      BY <2>5 DEF Life!Next
  <1>3. CASE FindsJob(r)
    <2>1. /\ proc'[r].at \in {"rest", "storing"} /\ proc[r].at = "typing"
          /\ \A q \in Processes \ {r} : proc'[q] = proc[q]
      <3>1. \/ proc' = [proc EXCEPT ![r].at = "rest", ![r].code = NoCode]
            \/ \E j \in JobIds : proc' = [proc EXCEPT ![r].at = "storing", ![r].job = j]
        BY <1>3 DEF FindsJob, ActiveOf, JobsOf
      <3>2. QED
        BY <1>0, <1>3, <3>1 DEF FindsJob, At, Process
    <2>2. UNCHANGED Drives
      BY <1>0, <2>1, OutsideMoves DEF InRun
    <2>3. QED
      BY <1>3, <2>2, NothingHappens DEF FindsJob, JobIds
  <1>4. CASE StoresCode(r)
    <2> DEFINE j   == proc[r].job
               row == [jobs[j] EXCEPT !.otp = proc[r].code,
                                      !.cooling = (jobs[j].status = Error)]
    <2>1. j \in JobIds /\ jobs' = [jobs EXCEPT ![j] = row]
      BY <1>4 DEF StoresCode, At, IInv, Refs, RefsOf, Busy, Processes
    <2>2. jobs[j] \in Job
      BY <1>0, <2>1 DEF JobIds
    <2>3. row.status = jobs[j].status
      BY <2>2 DEF Job
    <2>4. proc'[r].at = "rest" /\ \A q \in Processes \ {r} : proc'[q] = proc[q]
      BY <1>0, <1>4 DEF StoresCode, Process
    <2>5. UNCHANGED Drives
      BY <1>0, <1>4, <2>4, OutsideMoves DEF StoresCode, At, InRun
    <2> HIDE DEF row, j
    <2>6. JobIds' = JobIds /\ \A k \in JobIds : jobs'[k].status = jobs[k].status
      BY <1>0, <2>1, <2>3 DEF JobIds
    <2>7. QED
      BY <2>5, <2>6, NothingHappens
  <1>5. CASE Cancels(r)
    <2> DEFINE S == ActiveOf(proc[r].tenant)
    <2>1. UNCHANGED Drives
      BY <1>0, <1>5, GoesOnDriving DEF Cancels, At, InRun, Driving
    <2>2. S \in SUBSET JobIds
      BY DEF ActiveOf, JobsOf
    <2>3. JobIds' = JobIds
      BY <1>5 DEF Cancels, JobIds
    <2>4. \A j \in JobIds : jobs[j] \in Job
      BY <1>0 DEF JobIds
    <2>5. /\ \A j \in S : jobs'[j].status \in Final
          /\ \A j \in JobIds \ S : jobs'[j].status = jobs[j].status
      BY <1>5, <2>2, <2>4 DEF Cancels, Job, Final
    <2> HIDE DEF S
    <2>6. QED
      BY <2>1, <2>2, <2>3, <2>5, JobsCalledOff
  <1>6. QED
    BY <1>1, <1>2, <1>3, <1>4, <1>5

\* The steps of workers.
LEMMA WorkerLives ==
    ASSUME IInv, NEW w \in Workers,
           \/ ClaimReads(w) \/ Claims(w) \/ Begins(w) \/ Prompts(w) \/ ReadsCode(w)
           \/ ClearsCode(w) \/ Succeeds(w) \/ Fails(w) \/ Mirrors(w)
           \/ Starts(w) \/ Reports(w) \/ Crash(w)
    PROVE  [Life!Next]_(Life!lifeVars)
  <1>0. w \in Processes /\ proc \in [Processes -> Process] /\ jobs \in Seq(Job)
    BY DEF Processes, IInv, Shape
  <1>1. CASE ClaimReads(w) \/ Starts(w)
    <2>1. /\ proc'[w].at \in {"idle", "claiming"} /\ proc[w].at \in {"idle", "dead"}
          /\ \A q \in Processes \ {w} : proc'[q] = proc[q]
          /\ UNCHANGED jobs
      <3>1. CASE ClaimReads(w)
        <4>1. PICK j : proc' = [proc EXCEPT ![w].at = "claiming", ![w].job = j]
          BY <3>1 DEF ClaimReads
        <4>2. proc[w].at = "idle" /\ UNCHANGED jobs
          BY <3>1 DEF ClaimReads, At
        <4>3. proc'[w].at = "claiming" /\ \A q \in Processes \ {w} : proc'[q] = proc[q]
          BY <1>0, <4>1 DEF Process
        <4>4. QED
          BY <4>2, <4>3
      <3>2. CASE Starts(w)
        <4>1. proc' = [proc EXCEPT ![w].at = "idle"] /\ proc[w].at = "dead" /\ UNCHANGED jobs
          BY <3>2 DEF Starts, Goes, At
        <4>2. QED
          BY <1>0, <4>1 DEF Process
      <3>3. QED
        BY <1>1, <3>1, <3>2
    <2>2. UNCHANGED Drives
      BY <1>0, <2>1, OutsideMoves DEF InRun
    <2>3. QED
      BY <2>1, <2>2, NothingHappens DEF JobIds
  <1>2. CASE Claims(w)
    <2> DEFINE j == proc[w].job
    <2>1. proc[w].at = "claiming" /\ j \in JobIds /\ ~ InRun(w)
      BY <1>0, <1>2 DEF Claims, At, IInv, Refs, RefsOf, Busy, InRun
    <2>2. CASE jobs[j].status = Queued /\ Takes(w, j)
      <3>1. /\ proc'[w].at = "claimed" /\ proc'[w].job = j
            /\ \A q \in Processes \ {w} : proc'[q] = proc[q]
        BY <1>0, <2>2 DEF Takes, Goes, Process
      <3>2. Drives' = Drives \cup {<<w, j>>}
        <4>1. InRun(w)' /\ \A v \in Workers : v # w => proc'[v] = proc[v] /\ (InRun(v)' <=> InRun(v))
          BY <3>1 DEF InRun, Processes
        <4>2. QED
          BY <2>1, <3>1, <4>1 DEF Drives
      <3>3. Written(j, Running)
        <4> DEFINE row == [jobs[j] EXCEPT !.status = Running, !.worker = proc[w].id,
                                          !.stale = FALSE]
        <4>1. jobs[j] \in Job
          BY <1>0, <2>1 DEF JobIds
        <4>2. row.status = Running /\ jobs' = [jobs EXCEPT ![j] = row]
          BY <2>2, <4>1 DEF Takes, Job
        <4> HIDE DEF row
        <4>3. QED
          BY <1>0, <2>1, <4>2 DEF Written, JobIds
      <3>4. Phases' = [Phases EXCEPT ![j] = "going"] /\ Phases[j] = "queued"
        <4>1. Phases' = [Phases EXCEPT ![j] = PhaseOf(Running)]
          BY <1>0, <2>1, <3>3, PhaseWritten
        <4>2. PhaseOf(Running) = "going"
          BY PhaseValues DEF BrowserStates
        <4>3. QED
          BY <2>1, <2>2, <4>1, <4>2, PhaseValues DEF Phases
      <3>5. \A k \in Life!Jobs : <<w, k>> \notin Drives
        BY <2>1 DEF Drives
      <3>6. Life!Take(w, j) /\ j \in Life!Jobs
        BY <2>1, <3>2, <3>4, <3>5 DEF Life!Take, Life!Jobs, Phases
      <3>7. QED
        BY <3>6 DEF Life!Next
    <2>3. CASE /\ proc' = [proc EXCEPT ![w].at = "idle", ![w].job = NoJob]
               /\ UNCHANGED jobs
      <3>1. proc'[w].at = "idle" /\ \A q \in Processes \ {w} : proc'[q] = proc[q]
        BY <1>0, <2>3 DEF Process
      <3>2. UNCHANGED Drives
        BY <1>0, <2>1, <3>1, OutsideMoves DEF InRun
      <3>3. QED
        BY <2>3, <3>2, NothingHappens DEF JobIds
    <2>4. QED
      BY <1>2, <2>2, <2>3 DEF Claims
  <1>3. CASE Begins(w)
    <2>1. UNCHANGED Drives
      BY <1>0, <1>3, GoesOnDriving DEF Begins, At, InRun, Driving
    <2>2. QED
      BY <1>3, <2>1, NothingHappens DEF Begins, JobIds
  <1>4. CASE Reports(w) \/ Prompts(w) \/ Succeeds(w) \/ Fails(w)
    <2> DEFINE j == proc[w].job
    <2>1. InRun(w) /\ j \in JobIds
      BY <1>0, <1>4
         DEF Reports, Prompts, Succeeds, Fails, At, InRun, IInv, Refs, RefsOf, Busy
    <2>2. UNCHANGED Drives
      <3>1. CASE Reports(w)
        BY <3>1 DEF Reports, Drives, InRun
      <3>2. CASE Prompts(w) \/ Succeeds(w) \/ Fails(w)
        <4>1. PICK place \in Driving : Goes(w, place)
          BY <3>2 DEF Prompts, Succeeds, Fails, Ends, Driving
        <4>2. QED
          BY <1>0, <2>1, <4>1, GoesOnDriving
      <3>3. QED
        BY <1>4, <3>1, <3>2
    <2>3. PICK status \in BrowserStates \cup Final : Put(j, status, FALSE)
      BY <1>4 DEF Reports, Prompts, Succeeds, Fails, Ends, BrowserStates, Final
    <2>4. Written(j, status)
      BY <1>0, <2>1, <2>3, PutWrites
    <2>5. QED
      BY <2>1, <2>2, <2>4, RunTells
  <1>5. CASE ReadsCode(w)
    <2>1. proc' = [proc EXCEPT ![w].at = "clearing", ![w].code = jobs[proc[w].job].otp]
          /\ proc[w].at = "polling"
      BY <1>5 DEF ReadsCode, At
    <2>2. /\ proc'[w].at = "clearing" /\ proc'[w].job = proc[w].job
          /\ \A q \in Processes \ {w} : proc'[q] = proc[q]
      BY <1>0, <2>1 DEF Process
    <2>3. \A v \in Workers : /\ InRun(v)' <=> InRun(v)
                             /\ InRun(v) => proc'[v].job = proc[v].job
      BY <2>1, <2>2 DEF InRun, Processes
    <2>4. UNCHANGED Drives
      BY <2>3, DrivesKept
    <2>5. QED
      BY <1>5, <2>4, NothingHappens DEF ReadsCode, JobIds
  <1>6. CASE ClearsCode(w)
    <2> DEFINE j   == proc[w].job
               row == [jobs[j] EXCEPT !.otp = NoCode,
                                      !.cooling = (jobs[j].status = Error)]
    <2>1. j \in JobIds /\ jobs' = [jobs EXCEPT ![j] = row] /\ proc[w].at = "clearing"
      BY <1>6 DEF ClearsCode, At, IInv, Refs, RefsOf, Busy, Processes
    <2>2. jobs[j] \in Job
      BY <1>0, <2>1 DEF JobIds
    <2>3. row.status = jobs[j].status
      BY <2>2 DEF Job
    <2>4. /\ proc'[w].at = "browsing" /\ proc'[w].job = proc[w].job
          /\ \A q \in Processes \ {w} : proc'[q] = proc[q]
      BY <1>0, <1>6 DEF ClearsCode, Uses, Process
    <2>5. \A v \in Workers : /\ InRun(v)' <=> InRun(v)
                             /\ InRun(v) => proc'[v].job = proc[v].job
      BY <2>1, <2>4 DEF InRun, Processes
    <2>6. UNCHANGED Drives
      BY <2>5, DrivesKept
    <2> HIDE DEF row, j
    <2>7. JobIds' = JobIds /\ \A k \in JobIds : jobs'[k].status = jobs[k].status
      BY <1>0, <2>1, <2>3 DEF JobIds
    <2>8. QED
      BY <2>6, <2>7, NothingHappens
  <1>7. CASE Mirrors(w) \/ Crash(w)
    <2>1. /\ proc'[w].at \in {"idle", "dead"} /\ UNCHANGED jobs
          /\ \A q \in Processes \ {w} : proc'[q] = proc[q]
      BY <1>0, <1>7 DEF Mirrors, Crash, Process
    <2>2. ~ InRun(w)' /\ UNCHANGED Phases
      BY <2>1 DEF InRun, Phases, JobIds
    <2>3. QED
      BY <2>1, <2>2, DrivesLess
  <1>8. QED
    BY <1>1, <1>2, <1>3, <1>4, <1>5, <1>6, <1>7

\* Every step is a step in the life of one job or more, or none.
LEMMA LifeStep ==
    ASSUME IInv, [Next]_vars
    PROVE  [Life!Next]_(Life!lifeVars)
  <1>0. jobs \in Seq(Job)
    BY DEF IInv, Shape
  <1>1. ASSUME UNCHANGED <<jobs, proc>>
        PROVE  [Life!Next]_(Life!lifeVars)
    BY <1>1 DEF Life!lifeVars, Phases, Drives, InRun, JobIds
  <1>2. ASSUME NEW p \in Processes, NEW j \in JobIds, ReapFails(p, j)
        PROVE  [Life!Next]_(Life!lifeVars)
    <2>1. Written(j, Error) /\ UNCHANGED Drives
      BY <1>0, <1>2, PutWrites DEF ReapFails, Drives, InRun
    <2>2. Error \in Final /\ {j} \in SUBSET JobIds
      BY DEF Final
    <2>3. QED
      BY <2>1, <2>2, JobsCalledOff DEF Written
  <1>3. ASSUME NEW r \in Requests, NEW t \in Tenants,
               Checks(r, t) \/ Types(r, t) \/ Disconnects(r, t) \/ Connects(r, t)
        PROVE  [Life!Next]_(Life!lifeVars)
    <2>1. CASE Connects(r, t)
      BY <1>1, <2>1 DEF Connects
    <2>2. CASE Checks(r, t) \/ Types(r, t) \/ Disconnects(r, t)
      <3>1. /\ proc'[r].at \in {"looking", "typing", "canceling"} /\ proc[r].at = "rest"
            /\ \A q \in Processes \ {r} : proc'[q] = proc[q]
            /\ UNCHANGED jobs /\ r \in Processes
        BY <2>2 DEF Checks, Types, Disconnects, Asks, At, IInv, Shape, Processes, Process
      <3>2. UNCHANGED Drives
        BY <3>1, OutsideMoves DEF InRun
      <3>3. QED
        BY <3>1, <3>2, NothingHappens DEF JobIds
    <2>3. QED
      BY <1>3, <2>1, <2>2
  <1>4. ASSUME NEW j \in JobIds, JobAges(j) \/ ErrorCools(j)
        PROVE  [Life!Next]_(Life!lifeVars)
    <2>1. jobs[j] \in Job
      BY <1>0 DEF JobIds
    <2>2. JobIds' = JobIds /\ \A k \in JobIds : jobs'[k].status = jobs[k].status
      BY <1>0, <1>4, <2>1 DEF JobAges, ErrorCools, JobIds, Job
    <2>3. UNCHANGED Drives
      BY <1>4 DEF JobAges, ErrorCools, Drives, InRun
    <2>4. QED
      BY <2>2, <2>3, NothingHappens
  <1>5. CASE UNCHANGED vars
    BY <1>1, <1>5 DEF vars
  <1>6. ASSUME NEW p \in Processes, ReapReads(p) \/ ReapMirrors(p)
        PROVE  [Life!Next]_(Life!lifeVars)
    BY <1>1, <1>6 DEF ReapReads, ReapMirrors
  <1>7. CASE BeaconFades
    BY <1>1, <1>7 DEF BeaconFades
  <1>8. ASSUME NEW r \in Requests, RequestStep(r) \/ Polls(r)
        PROVE  [Life!Next]_(Life!lifeVars)
    BY <1>1, <1>2, <1>6, <1>8, RequestLives DEF RequestStep, Polls, Processes
  <1>9. ASSUME NEW w \in Workers, WorkerStep(w) \/ Starts(w) \/ Reports(w) \/ Crash(w)
        PROVE  [Life!Next]_(Life!lifeVars)
    BY <1>2, <1>6, <1>9, WorkerLives DEF WorkerStep, Processes
  <1>10. QED
    BY <1>3, <1>4, <1>5, <1>7, <1>8, <1>9 DEF Next

\* Jobs implements JobLife: a job is taken once, whoever races for it, and
\* what is over stays over unless the run still at work on it says otherwise.
THEOREM ImplementsJobLife == Spec => JobLifeSpec
  <1>1. IInv /\ [Next]_vars => [Life!Next]_(Life!lifeVars)
    BY LifeStep
  <1>2. QED
    BY <1>1, Inductive, LifeInit, PTL DEF Spec, JobLifeSpec, Life!Spec

\* What JobLife alone is good for: a job at work is not queued, so nobody else
\* takes it.
PromiseInv ==
    /\ Phases \in Seq({"queued", "going", "over"})
    /\ Drives \subseteq Workers \X DOMAIN Phases
    /\ \A d \in Drives : Phases[d[2]] # "queued"
    /\ \A d, e \in Drives : d[2] = e[2] => d = e

LEMMA PromiseKept ==
    ASSUME PromiseInv, [Life!Next]_(Life!lifeVars)
    PROVE  PromiseInv'
  <1> USE DEF PromiseInv, Life!Jobs
  <1>1. CASE UNCHANGED Life!lifeVars
    BY <1>1 DEF Life!lifeVars
  <1>2. CASE Life!Ask
    BY <1>2 DEF Life!Ask
  <1>3. ASSUME NEW S \in SUBSET Life!Jobs, Life!CallOff(S)
        PROVE  PromiseInv'
    BY <1>3 DEF Life!CallOff
  <1>4. ASSUME NEW w \in Workers, NEW j \in Life!Jobs, Life!Take(w, j)
        PROVE  PromiseInv'
    BY <1>4 DEF Life!Take
  <1>5. ASSUME NEW w \in Workers, NEW j \in Life!Jobs, Life!Tell(w, j)
        PROVE  PromiseInv'
    BY <1>5 DEF Life!Tell
  <1>6. ASSUME NEW w \in Workers, NEW j \in Life!Jobs, Life!LetGo(w, j)
        PROVE  PromiseInv'
    BY <1>6 DEF Life!LetGo
  <1>7. QED
    BY <1>1, <1>2, <1>3, <1>4, <1>5, <1>6 DEF Life!Next

\* RunsAreExclusive follows from the promise, and needs nothing else of Jobs.
THEOREM PromiseIsExclusive == JobLifeSpec => []RunsAreExclusive
  <1>1. Life!Init => PromiseInv
    BY DEF Life!Init, PromiseInv
  <1>2. PromiseInv /\ [Life!Next]_(Life!lifeVars) => PromiseInv'
    BY PromiseKept
  <1>3. PromiseInv => RunsAreExclusive
    <2>1. SUFFICES ASSUME PromiseInv, NEW v \in Workers, NEW w \in Workers,
                          InRun(v), InRun(w), proc[v].job = proc[w].job
                   PROVE  v = w
      BY DEF RunsAreExclusive
    <2>2. <<v, proc[v].job>> \in Drives /\ <<w, proc[w].job>> \in Drives
      BY <2>1 DEF Drives
    <2>3. QED
      BY <2>1, <2>2 DEF PromiseInv
  <1>4. QED
    BY <1>1, <1>2, <1>3, PTL DEF JobLifeSpec, Life!Spec
=============================================================================
