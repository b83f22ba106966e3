-------------------------------- MODULE Jobs --------------------------------
(***************************************************************************)
(* The browser-job queue of jobs.py: a dashboard that has no browser puts  *)
(* a job into the shared database, worker.py claims it, drives the         *)
(* FurnishedFinder login, asks for the one-time code through the job's row *)
(* and mirrors the outcome into the tenant's account state (ff_account.py).*)
(* A reap pass, run before most requests and when a worker starts, fails   *)
(* the jobs a dead worker has left behind.                                 *)
(*                                                                         *)
(* One action is one SQL statement.  A process is a request thread of the  *)
(* dashboard or a worker; both run reap passes, so every process has a     *)
(* place in `reap` besides its own in `proc`.  Times are the facts the     *)
(* code derives from them: whether the beacon is fresh, whether a job is   *)
(* older than MAX_ACTIVE_JOB_SECONDS, whether an error still cools down.   *)
(***************************************************************************)
EXTENDS Integers, Sequences, FiniteSets

CONSTANTS
    Tenants,     \* tenants other than the operator, who has no account row
    Requests,    \* request threads of the dashboard
    Workers,     \* worker.py processes (the documented deployment has one)
    MaxChecks,   \* "Check now" clicks
    MaxCodes,    \* codes typed into the dashboard
    MaxPrompts,  \* times FurnishedFinder asks for a code
    MaxLinks,    \* times the account is disconnected
    MaxCrashes,  \* worker crashes
    MaxClicks    \* clicks, codes and disconnects together

ASSUME JobsAssumption ==
    /\ Tenants # {}
    /\ IsFiniteSet(Workers) /\ IsFiniteSet(Requests)
    /\ MaxChecks \in Nat /\ MaxCodes \in Nat /\ MaxPrompts \in Nat
    /\ MaxLinks \in Nat /\ MaxCrashes \in Nat /\ MaxClicks \in Nat

VARIABLES
    jobs,        \* table ff_jobs; the index is the id
    fresh,       \* ff_worker.last_seen lies within WORKER_TTL_SECONDS
    account,     \* table ff_accounts: the state column, or no row
    proc,        \* what every process is doing
    reap,        \* the reap pass it runs, if any
    used,        \* codes handed to the browser, with the run they went to
    torn,        \* a worker died when a job was over and the account not told
    left         \* what is left of every bound

vars == <<jobs, fresh, account, proc, reap, used, torn, left>>

-----------------------------------------------------------------------------
Queued   == "queued"
Running  == "running"
Waiting  == "waiting_for_otp"
Done     == "done"
Error    == "error"
Canceled == "canceled"

\* Slip: a job that waits for its code does not count as active.
ActiveStates_NotWaiting == {Queued, Running}
ActiveStates  == {Queued, Running, Waiting}
BrowserStates == {Running, Waiting}
Final         == {Done, Error, Canceled}

NoRow  == "not_connected"
States == {NoRow, "needs_verification", "verifying", "connected", "error"}

NoCode == 0
NoJob  == 0
Nobody == 0

\* `stale` is message = STALE_JOB_MESSAGE; `over` remembers that the job has
\* been final once.
Job == [tenant  : Tenants,
        status  : ActiveStates \cup Final,
        stale   : BOOLEAN,
        otp     : Nat,
        worker  : Nat,
        old     : BOOLEAN,
        cooling : BOOLEAN,
        over    : BOOLEAN]

Processes == Requests \cup Workers
JobIds    == DOMAIN jobs

At(p, place) == proc[p].at = place /\ reap[p].at = "off"
Goes(p, place) == proc' = [proc EXCEPT ![p].at = place]

Spend(what) ==
    /\ left[what] > 0
    /\ left' = [left EXCEPT ![what] = @ - 1]

\* Checks, codes and disconnects have a bound in common, too.
Clicks(what) ==
    /\ left[what] > 0 /\ left["clicks"] > 0
    /\ left' = [left EXCEPT ![what] = @ - 1, !["clicks"] = @ - 1]

-----------------------------------------------------------------------------
(* Statements.                                                             *)

\* set_status: whatever the job's state is.
Put(j, status, stale) ==
    jobs' = [jobs EXCEPT ![j].status = status, ![j].stale = stale,
                         ![j].cooling = (status = Error),
                         ![j].over = @ \/ status \in Final]

\* mark_state updates a row, and never makes one.
Mark(t, state) ==
    account' = [account EXCEPT ![t] = IF @ = NoRow THEN NoRow ELSE state]

IsLatest(j, S) == j \in S /\ \A k \in S : k <= j
IsOldest(j, S) == j \in S /\ \A k \in S : j <= k

JobsOf(t)   == {j \in JobIds : jobs[j].tenant = t}
ActiveOf(t) == {j \in JobsOf(t) : jobs[j].status \in ActiveStates}

\* _cooldown_remaining: only an error of a real login attempt cools down.
CoolsDown(j) == jobs[j].status = Error /\ ~ jobs[j].stale /\ jobs[j].cooling

-----------------------------------------------------------------------------
(* reap_stale.                                                             *)

\* Slip: no backstop for a job whose worker still heartbeats.
Stranded_NoBackstop(j, me, online) ==
    /\ jobs[j].status \in BrowserStates
    /\ \/ me # Nobody /\ jobs[j].worker # me
       \/ ~ online

\* A worker that starts passes its own id, everybody else passes none.
Stranded(j, me, online) ==
    /\ jobs[j].status \in BrowserStates
    /\ \/ me # Nobody /\ jobs[j].worker # me
       \/ ~ online
       \/ jobs[j].old

NoReap == [at |-> "off", me |-> Nobody, online |-> TRUE, doomed |-> {}, last |-> NoJob]

ReapStarts(p, me, online) ==
    reap' = [reap EXCEPT ![p] = [NoReap EXCEPT !.at = "reading", !.me = me,
                                               !.online = online]]

ReapReads(p) ==
    LET doomed == {j \in JobIds : Stranded(j, reap[p].me, reap[p].online)}
    IN  /\ reap[p].at = "reading"
        /\ reap' = [reap EXCEPT ![p] =
               IF doomed = {} THEN NoReap
               ELSE [NoReap EXCEPT !.at = "failing", !.doomed = doomed]]
        /\ UNCHANGED <<jobs, fresh, account, proc, used, torn, left>>

\* Slip: a job whose worker is gone is queued for the next one.
ReapFails_Requeues(p, j) ==
    /\ reap[p].at = "failing" /\ j \in reap[p].doomed
    /\ Put(j, Queued, FALSE)
    /\ reap' = [reap EXCEPT ![p].at = "mirroring", ![p].last = j,
                            ![p].doomed = @ \ {j}]
    /\ UNCHANGED <<fresh, account, proc, used, torn, left>>

\* _fail_stale_job, in two statements.
ReapFails(p, j) ==
    /\ reap[p].at = "failing" /\ j \in reap[p].doomed
    /\ Put(j, Error, TRUE)
    /\ reap' = [reap EXCEPT ![p].at = "mirroring", ![p].last = j,
                            ![p].doomed = @ \ {j}]
    /\ UNCHANGED <<fresh, account, proc, used, torn, left>>

\* Slip: a reaped job is not mirrored into the account.
ReapMirrors_Not(p) ==
    /\ reap[p].at = "mirroring"
    /\ reap' = [reap EXCEPT ![p] =
           IF reap[p].doomed = {} THEN NoReap
           ELSE [@ EXCEPT !.at = "failing", !.last = NoJob]]
    /\ UNCHANGED <<jobs, fresh, account, proc, used, torn, left>>

ReapMirrors(p) ==
    /\ reap[p].at = "mirroring"
    /\ Mark(jobs[reap[p].last].tenant, "error")
    /\ reap' = [reap EXCEPT ![p] =
           IF reap[p].doomed = {} THEN NoReap
           ELSE [@ EXCEPT !.at = "failing", !.last = NoJob]]
    /\ UNCHANGED <<jobs, fresh, proc, used, torn, left>>

-----------------------------------------------------------------------------
(* Requests.  Each of them is a reap pass followed by its own statements.  *)

Asks(r, t, place, code) ==
    /\ At(r, "rest")
    /\ account[t] # NoRow
    /\ proc' = [proc EXCEPT ![r].at = place, ![r].tenant = t, ![r].code = code]
    /\ ReapStarts(r, Nobody, fresh)
    /\ UNCHANGED <<jobs, fresh, account, used, torn>>

\* GET /api/status: public_state writes nothing but what it reaps.
Polls(r) ==
    /\ At(r, "rest")
    /\ ReapStarts(r, Nobody, fresh)
    /\ UNCHANGED <<jobs, fresh, account, proc, used, torn, left>>

\* POST /refresh: enqueue reads the active job, then the latest, then inserts.
Checks(r, t) == Clicks("checks") /\ Asks(r, t, "looking", NoCode)

Looks(r) ==
    /\ At(r, "looking")
    /\ Goes(r, IF ActiveOf(proc[r].tenant) = {} THEN "throttling" ELSE "rest")
    /\ UNCHANGED <<jobs, fresh, account, reap, used, torn, left>>

Throttles(r) ==
    LET mine == JobsOf(proc[r].tenant)
    IN  /\ At(r, "throttling")
        /\ Goes(r, IF \E j \in mine : IsLatest(j, mine) /\ CoolsDown(j)
                   THEN "rest" ELSE "inserting")
        /\ UNCHANGED <<jobs, fresh, account, reap, used, torn, left>>

Inserts(r) ==
    /\ At(r, "inserting")
    /\ jobs' = Append(jobs, [tenant |-> proc[r].tenant, status |-> Queued,
                             stale |-> FALSE, otp |-> NoCode, worker |-> Nobody,
                             old |-> FALSE, cooling |-> FALSE, over |-> FALSE])
    /\ Goes(r, "rest")
    /\ UNCHANGED <<fresh, account, reap, used, torn, left>>

\* POST /otp: submit_otp reads the active job, then writes the code into it.
Types(r, t) == Clicks("codes") /\ Asks(r, t, "typing", left["codes"])

\* Slip: no job is active, and the code is stored all the same.
FindsJob_OrNot(r) ==
    LET active == ActiveOf(proc[r].tenant)
    IN  /\ At(r, "typing")
        /\ \E j \in active \cup {NoJob} :
               /\ j = NoJob => active = {}
               /\ proc' = [proc EXCEPT ![r].at = "storing", ![r].job = j]
        /\ UNCHANGED <<jobs, fresh, account, reap, used, torn, left>>

FindsJob(r) ==
    LET active == ActiveOf(proc[r].tenant)
    IN  /\ At(r, "typing")
        /\ \/ /\ active = {}
              /\ proc' = [proc EXCEPT ![r].at = "rest", ![r].code = NoCode]
           \/ \E j \in active :
                 /\ IsLatest(j, active)
                 /\ proc' = [proc EXCEPT ![r].at = "storing", ![r].job = j]
        /\ UNCHANGED <<jobs, fresh, account, reap, used, torn, left>>

StoresCode(r) ==
    /\ At(r, "storing")
    /\ jobs' = [jobs EXCEPT ![proc[r].job].otp = proc[r].code,
                            ![proc[r].job].cooling = (jobs[proc[r].job].status = Error)]
    /\ proc' = [proc EXCEPT ![r].at = "rest", ![r].job = NoJob, ![r].code = NoCode]
    /\ UNCHANGED <<fresh, account, reap, used, torn, left>>

\* POST /disconnect: the account's row goes first, then cancel_active.
Disconnects(r, t) ==
    /\ At(r, "rest")
    /\ account[t] # NoRow
    /\ Clicks("links")
    /\ account' = [account EXCEPT ![t] = NoRow]
    /\ proc' = [proc EXCEPT ![r].at = "canceling", ![r].tenant = t]
    /\ UNCHANGED <<jobs, fresh, reap, used, torn>>

Cancels(r) ==
    LET active == ActiveOf(proc[r].tenant)
    IN  /\ At(r, "canceling")
        /\ jobs' = [j \in JobIds |->
               IF j \in active
               THEN [jobs[j] EXCEPT !.status = Canceled, !.over = TRUE]
               ELSE jobs[j]]
        /\ Goes(r, "rest")
        /\ UNCHANGED <<fresh, account, reap, used, torn, left>>

\* POST /connect and the onboarding form: one upsert, which also takes a
\* connected, failed or `verifying` account back to the start.
Connects(r, t) ==
    /\ At(r, "rest")
    /\ account' = [account EXCEPT ![t] = "needs_verification"]
    /\ UNCHANGED <<jobs, fresh, proc, reap, used, torn, left>>

RequestStep(r) ==
    \/ Looks(r) \/ Throttles(r) \/ Inserts(r)
    \/ FindsJob(r) \/ StoresCode(r) \/ Cancels(r)
    \/ ReapReads(r) \/ ReapMirrors(r) \/ \E j \in JobIds : ReapFails(r, j)

-----------------------------------------------------------------------------
(* worker.py.                                                              *)

\* A heartbeat, then the start-up reap.
Starts(w) ==
    /\ At(w, "dead")
    /\ Goes(w, "idle")
    /\ ReapStarts(w, proc[w].id, TRUE)
    /\ fresh' = TRUE
    /\ UNCHANGED <<jobs, account, used, torn, left>>

\* claim_next: read the oldest queued job, then a compare-and-set.
ClaimReads(w) ==
    LET queued == {j \in JobIds : jobs[j].status = Queued}
    IN  /\ At(w, "idle")
        /\ \E j \in queued :
               /\ IsOldest(j, queued)
               /\ proc' = [proc EXCEPT ![w].at = "claiming", ![w].job = j]
        /\ UNCHANGED <<jobs, fresh, account, reap, used, torn, left>>

Takes(w, j) ==
    /\ jobs' = [jobs EXCEPT ![j].status = Running, ![j].worker = proc[w].id,
                            ![j].stale = FALSE]
    /\ Goes(w, "claimed")

\* Slip: the claim without its compare-and-set.
Claims_Blind(w) ==
    /\ At(w, "claiming")
    /\ Takes(w, proc[w].job)
    /\ UNCHANGED <<fresh, account, reap, used, torn, left>>

Claims(w) ==
    /\ At(w, "claiming")
    /\ \/ /\ jobs[proc[w].job].status = Queued
          /\ Takes(w, proc[w].job)
       \/ /\ jobs[proc[w].job].status # Queued
          /\ proc' = [proc EXCEPT ![w].at = "idle", ![w].job = NoJob]
          /\ UNCHANGED jobs
    /\ UNCHANGED <<fresh, account, reap, used, torn, left>>

TenantOf(w) == jobs[proc[w].job].tenant

Begins(w) ==
    /\ At(w, "claimed")
    /\ Mark(TenantOf(w), "verifying")
    /\ Goes(w, "browsing")
    /\ UNCHANGED <<jobs, fresh, reap, used, torn, left>>

\* The progress callback: launching, checking and done all write `running`.
Reports(w) ==
    /\ At(w, "browsing")
    /\ Put(proc[w].job, Running, FALSE)
    /\ UNCHANGED <<fresh, account, proc, reap, used, torn, left>>

\* _prompt_for_otp: the callback writes `waiting_for_otp`, then the provider
\* polls the row.
Prompts(w) ==
    /\ At(w, "browsing")
    /\ Spend("prompts")
    /\ Put(proc[w].job, Waiting, FALSE)
    /\ Goes(w, "polling")
    /\ UNCHANGED <<fresh, account, reap, used, torn>>

\* consume_otp: a read, then the clearing write.
ReadsCode(w) ==
    /\ At(w, "polling")
    /\ jobs[proc[w].job].otp # NoCode
    /\ proc' = [proc EXCEPT ![w].at = "clearing", ![w].code = jobs[proc[w].job].otp]
    /\ UNCHANGED <<jobs, fresh, account, reap, used, torn, left>>

Uses(w) ==
    /\ used' = Append(used, <<proc[w].code, TenantOf(w)>>)
    /\ proc' = [proc EXCEPT ![w].at = "browsing", ![w].code = NoCode]

\* Slip: the code stays in the row.
ClearsCode_Not(w) ==
    /\ At(w, "clearing")
    /\ Uses(w)
    /\ UNCHANGED <<jobs, fresh, account, reap, torn, left>>

ClearsCode(w) ==
    /\ At(w, "clearing")
    /\ jobs' = [jobs EXCEPT ![proc[w].job].otp = NoCode,
                            ![proc[w].job].cooling = (jobs[proc[w].job].status = Error)]
    /\ Uses(w)
    /\ UNCHANGED <<fresh, account, reap, torn, left>>

\* The scrape returns or raises; a code that does not come raises, too.
Ends(w, status, place) ==
    /\ Put(proc[w].job, status, FALSE)
    /\ Goes(w, place)
    /\ UNCHANGED <<fresh, account, reap, used, torn, left>>

Succeeds(w) == At(w, "browsing") /\ Ends(w, Done, "succeeded")

Fails(w) == (At(w, "browsing") \/ At(w, "polling")) /\ Ends(w, Error, "failed")

Mirrors(w) ==
    /\ \/ At(w, "succeeded") /\ Mark(TenantOf(w), "connected")
       \/ At(w, "failed") /\ Mark(TenantOf(w), "error")
    /\ proc' = [proc EXCEPT ![w].at = "idle", ![w].job = NoJob]
    /\ UNCHANGED <<jobs, fresh, reap, used, torn, left>>

\* A worker id is host and pid: in a container the process that is started in
\* its place may well have the id of this one.
Crash(w) ==
    /\ proc[w].at # "dead"
    /\ Spend("crashes")
    /\ torn' = (torn \/ /\ proc[w].job # NoJob
                        /\ proc[w].at # "claiming"
                        /\ jobs[proc[w].job].status \in Final
                     \/ reap[w].at = "mirroring")
    /\ \E id \in {proc[w].id, proc[w].id + Cardinality(Workers)} :
           proc' = [proc EXCEPT ![w].at = "dead", ![w].id = id,
                                ![w].job = NoJob, ![w].code = NoCode]
    /\ reap' = [reap EXCEPT ![w] = NoReap]
    /\ UNCHANGED <<jobs, fresh, account, used>>

WorkerStep(w) ==
    \/ ClaimReads(w) \/ Claims(w) \/ Begins(w) \/ Prompts(w)
    \/ ReadsCode(w) \/ ClearsCode(w) \/ Succeeds(w) \/ Fails(w) \/ Mirrors(w)
    \/ ReapReads(w) \/ ReapMirrors(w) \/ \E j \in JobIds : ReapFails(w, j)

-----------------------------------------------------------------------------
(* Time.  The heartbeat thread of a live worker keeps the beacon fresh.    *)

BeaconFades ==
    /\ fresh
    /\ \A w \in Workers : proc[w].at = "dead"
    /\ fresh' = FALSE
    /\ UNCHANGED <<jobs, account, proc, reap, used, torn, left>>

JobAges(j) ==
    /\ ~ jobs[j].old /\ jobs[j].status \in ActiveStates
    /\ jobs' = [jobs EXCEPT ![j].old = TRUE]
    /\ UNCHANGED <<fresh, account, proc, reap, used, torn, left>>

ErrorCools(j) ==
    /\ CoolsDown(j)
    /\ jobs' = [jobs EXCEPT ![j].cooling = FALSE]
    /\ UNCHANGED <<fresh, account, proc, reap, used, torn, left>>

-----------------------------------------------------------------------------
Init ==
    /\ jobs = << >>
    /\ fresh = FALSE
    /\ account = [t \in Tenants |-> "needs_verification"]
    /\ \E id \in [Workers -> 1 .. Cardinality(Workers)] :
           /\ \A v, w \in Workers : v # w => id[v] # id[w]
           /\ proc = [p \in Processes |->
                 [at |-> IF p \in Workers THEN "dead" ELSE "rest",
                  id |-> IF p \in Workers THEN id[p] ELSE Nobody,
                  tenant |-> CHOOSE t \in Tenants : TRUE,
                  job |-> NoJob, code |-> NoCode]]
    /\ reap = [p \in Processes |-> NoReap]
    /\ used = << >>
    /\ torn = FALSE
    /\ left = [checks |-> MaxChecks, codes |-> MaxCodes, prompts |-> MaxPrompts,
               links |-> MaxLinks, crashes |-> MaxCrashes, clicks |-> MaxClicks]

Next ==
    \/ \E r \in Requests : RequestStep(r) \/ Polls(r)
    \/ \E r \in Requests, t \in Tenants :
           Checks(r, t) \/ Types(r, t) \/ Disconnects(r, t) \/ Connects(r, t)
    \/ \E w \in Workers : WorkerStep(w) \/ Starts(w) \/ Reports(w) \/ Crash(w)
    \/ \E j \in JobIds : JobAges(j) \/ ErrorCools(j)
    \/ BeaconFades

Spec == Init /\ [][Next]_vars

\* A request thread and a live worker get on with their work, an open
\* dashboard polls /api/status, and time passes.
Fairness ==
    /\ \A r \in Requests : WF_vars(RequestStep(r)) /\ WF_vars(Polls(r))
    /\ \A w \in Workers : WF_vars(WorkerStep(w))
    /\ WF_vars(\E j \in JobIds : JobAges(j))
    /\ WF_vars(BeaconFades)

FairSpec == Spec /\ Fairness

-----------------------------------------------------------------------------
(* Properties.                                                             *)

TypeOK ==
    /\ jobs \in Seq(Job)
    /\ fresh \in BOOLEAN
    /\ account \in [Tenants -> States]
    /\ \A p \in Processes :
           /\ proc[p].job \in JobIds \cup {NoJob}
           /\ reap[p].doomed \subseteq JobIds
           /\ proc[p].at \in {"claimed", "browsing", "polling", "clearing",
                              "succeeded", "failed", "storing"}
                  => proc[p].job # NoJob

InRun(w) == proc[w].at \in {"claimed", "browsing", "polling", "clearing",
                            "succeeded", "failed"}

\* cancel_active (jobs.py:289) against claim_next: a job that was called off
\* while it was queued never reaches a browser.
CalledOffInTime ==
    [][\A j \in JobIds :
           jobs[j].status \in Final /\ jobs[j].worker = Nobody
               => jobs'[j].worker = Nobody]_vars

\* claim_next (jobs.py:305): two workers racing for the same row cannot both
\* win, so no two live runs ever drive a browser for one job.
RunsAreExclusive ==
    \A v, w \in Workers : v # w /\ InRun(v) /\ InRun(w) => proc[v].job # proc[w].job

\* Active jobs that have not been final before.
OngoingOf(t) == {j \in ActiveOf(t) : ~ jobs[j].over}

\* enqueue (jobs.py:218) means to keep one active job per tenant, but looks and
\* inserts in two statements.  However requests overlap, and whatever workers
\* and reap passes do meanwhile, a tenant has no more active jobs than there
\* are request threads, not counting jobs that were called off or reaped and
\* written again by the run that still works on them.
ActiveAreBounded ==
    \A t \in Tenants : Cardinality(OngoingOf(t)) <= Cardinality(Requests)

\* consume_otp (jobs.py:346): a code is handed to the browser once at most,
\* even when it is replaced, or its job called off, while it is being read.
CodesAreUsedOnce ==
    \A m, n \in DOMAIN used : used[m][1] = used[n][1] => m = n

PhaseOf(status) ==
    CASE status = Queued           -> "queued"
      [] status \in BrowserStates  -> "going"
      [] status \in Final          -> "over"

Phases == [j \in JobIds |-> PhaseOf(jobs[j].status)]
Drives == {<<w, proc[w].job>> : w \in {v \in Workers : InRun(v)}}

Life == INSTANCE JobLife WITH phase <- Phases, drives <- Drives

\* Whatever requests, reap passes, other workers and crashes do to its row in
\* between, a job goes through the life of JobLife: it is taken once, and what
\* is over stays over unless the run still at work on it says otherwise.
JobLifeSpec == Life!Spec

\* _reconcile_ff_error (jobs.py:146) and worker.py's _mark_ff: an account that
\* says `verifying` has somebody who will tell it how that ended: the run still
\* at work, the reap pass that has failed its job, or, its worker being gone, a
\* job that the next pass will find; but for a worker that died with the job
\* over and the account not told.
VerifyingIsAnswered ==
    \A t \in Tenants :
        account[t] = "verifying" /\ ~ torn
            => \/ \E j \in JobsOf(t) : jobs[j].status \in BrowserStates
               \/ \E w \in Workers : InRun(w) /\ TenantOf(w) = t
               \/ \E p \in Processes : /\ reap[p].at = "mirroring"
                                       /\ jobs[reap[p].last].tenant = t

InBrowser(j) == j \in JobIds /\ jobs[j].status \in BrowserStates

\* reap_stale (jobs.py:164): a job does not stay in a browser state for ever,
\* whatever became of its worker, the id of the next one included.
StrandedJobsEnd ==
    \A j \in 1 .. MaxChecks : InBrowser(j) ~> ~ InBrowser(j)

\* _reconcile_ff_error (jobs.py:146): an account never lingers in `verifying`,
\* unless its worker died between the end of the job and telling the account.
VerifyingEnds ==
    \A t \in Tenants : account[t] = "verifying" ~> (account[t] # "verifying" \/ torn)
=============================================================================
