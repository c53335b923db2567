--------------------------- MODULE CheckScheduling ---------------------------
(***************************************************************************)
(* When a monitor is checked, by whom, and under which lock.               *)
(*                                                                         *)
(* The actors are the cron job run_due_monitor_checks, the arq jobs        *)
(* run_monitor_check (scheduled and manual), the HTTP requests that edit,  *)
(* delete or check a monitor, and the clock.  They meet in the monitors    *)
(* table, in the Redis URL lock and in the arq queue.                      *)
(*                                                                         *)
(* Time is kept as countdowns: next[m] is the number of ticks until        *)
(* next_check_at, ttl[u] until the Redis key of URL u expires, left[j]     *)
(* until arq cancels job j.  A tick stands for a minute.  A due monitor    *)
(* has next[m] = 0 in the tick in which it falls due and a negative number *)
(* afterwards, of which only the order is kept: the smaller, the longer    *)
(* overdue.                                                                *)
(*                                                                         *)
(* A database transaction is a step, except for the read of the monitor    *)
(* that precedes it: the read opens a read view that lasts until the       *)
(* commit, and MariaDB (REPEATABLE READ with innodb_snapshot_isolation,    *)
(* the default of the deployed version) refuses to lock or write a row     *)
(* that changed after it.  A view holds the status that was read, or       *)
(* "stale" once another transaction has written the row.                   *)
(***************************************************************************)
EXTENDS Integers, FiniteSets

CONSTANTS
  Monitor,      \* ids of monitors
  Url,          \* monitor URLs
  UrlOf,        \* the URL of each monitor (never edited)
  Job,          \* slots for arq jobs run_monitor_check: bounds queue + running
  Request,      \* slots for HTTP requests: bounds concurrent requests
  LockTtl,      \* check_lock_ttl_seconds: lease, lock TTL and job timeout
  RetryDelay,   \* check_lock_retry_delay_seconds
  Interval,     \* check_interval_seconds
  BatchSize,    \* check_batch_size
  MaxTries,     \* check_max_retries
  MaxJobs,      \* WorkerSettings.max_jobs
  MaxFaults,    \* bound: crashes and shutdowns in one behaviour
  NoTime,       \* next_check_at IS NULL
  NoJob,        \* the lock key does not exist
  NoMonitor     \* an unused slot

ASSUME SchedulingAssumption ==
  /\ IsFiniteSet(Monitor)
  /\ UrlOf \in [Monitor -> Url]
  /\ LockTtl \in Nat \ {0}
  /\ RetryDelay \in Nat \ {0}
  /\ Interval \in Nat \ {0}
  /\ BatchSize \in Nat \ {0}
  /\ MaxTries \in Nat \ {0}
  /\ MaxJobs \in Nat \ {0}
  /\ MaxFaults \in Nat
  /\ NoTime \notin Int
  /\ NoJob \notin Job
  /\ NoMonitor \notin Monitor

VARIABLES
  status,   \* monitors.status; "absent" before the row, "deleted" with deleted_at
  next,     \* monitors.next_check_at
  claimed,  \* monitors leased by the running cron job and not yet enqueued
  lock,     \* the owner whose token the Redis key of a URL holds
  ttl,      \* ticks until that key expires
  phase,    \* where an arq job is
  mon,      \* its monitor
  manual,   \* TRUE for the job id run_monitor_check:manual:<id>
  tries,    \* arq job_try
  left,     \* ticks until its timeout; for an orphan until it may run again
  view,     \* its read view of the monitor
  rphase, rmon, rview,  \* the same for an HTTP request
  faults    \* crashes and shutdowns so far

rowVars == <<status, next>>
lockVars == <<lock, ttl>>
jobVars == <<phase, mon, manual, tries, left, view>>
reqVars == <<rphase, rmon, rview>>
vars == <<status, next, claimed, lock, ttl, phase, mon, manual, tries, left,
          view, rphase, rmon, rview, faults>>

(* "disabled" stands for every other status a user may set: draft,         *)
(* triggered, failed, disabled, error and unsupported by hand, and deleted *)
(* without deleted_at.  The code treats them alike; "error" and            *)
(* "unsupported" are those a check has set.                                *)
Status == {"absent", "active", "paused", "disabled", "error", "unsupported",
           "deleted"}
EditStatus == {"active", "paused", "disabled"}
Missing == {"absent", "deleted"}
Time == Int \cup {NoTime}
View == Status \cup {"none", "stale"}

(* Phases in which a job runs before it has the lock, with the lock, and   *)
(* in the finally block of acquire_redis_lock.                             *)
Outside == {"starting", "lost"}
Inside == {"locked", "fetching", "committed", "dying", "marking"}
Leaving == {"releasing", "cancelled"}
Running == Outside \cup Inside \cup Leaving
JobPhase == Running \cup {"free", "queued", "orphan", "kept"}

(* arq cancels a check after the lock's TTL.  The variant cancels later.   *)
LateTimeout == LockTtl + 1
JobTimeout == LockTtl

url(j) == UrlOf[mon[j]]
Present(m) == status[m] \notin Missing
Runs(j) == phase[j] \in Outside \cup Inside /\ left[j] > 0

(* The views of the monitors S after another transaction wrote their rows. *)
(* The variant is a database that does not compare them with the row.      *)
StaledNever(S, views, of) == views
Staled(S, views, of) ==
  [x \in DOMAIN views |->
     IF of[x] \in S /\ views[x] # "none" THEN "stale" ELSE views[x]]

(* The database accepts a write to the row that was read through view v.   *)
Current(v) == v \notin {"none", "stale"}

Write(m, s, n) ==
  /\ status' = [status EXCEPT ![m] = s]
  /\ next' = [next EXCEPT ![m] = n]

(* Every open view of m but the writer's own becomes stale.                *)
StaleOthers(m) ==
  /\ view' = Staled({m}, view, mon)
  /\ rview' = Staled({m}, rview, rmon)

Init ==
  /\ status = [m \in Monitor |-> "absent"]
  /\ next = [m \in Monitor |-> NoTime]
  /\ claimed = {}
  /\ lock = [u \in Url |-> NoJob]
  /\ ttl = [u \in Url |-> 0]
  /\ phase = [j \in Job |-> "free"]
  /\ mon = [j \in Job |-> NoMonitor]
  /\ manual = [j \in Job |-> FALSE]
  /\ tries = [j \in Job |-> 0]
  /\ left = [j \in Job |-> 0]
  /\ view = [j \in Job |-> "none"]
  /\ rphase = [r \in Request |-> "idle"]
  /\ rmon = [r \in Request |-> NoMonitor]
  /\ rview = [r \in Request |-> "none"]
  /\ faults = 0

-----------------------------------------------------------------------------
(* How long ago next_check_at passed, up to the order among the monitors.  *)
FallenDueAfter(m) ==
  {k \in Monitor : next[k] # NoTime /\ next[k] <= 0 /\ next[k] > next[m]}

Aged(m) ==
  IF next[m] = NoTime THEN NoTime
  ELSE IF next[m] > 0 THEN next[m] - 1
  ELSE -1 - Cardinality(FallenDueAfter(m))

(* The clock.  A timed-out job is cancelled before time goes on: asyncio   *)
(* delivers the cancellation at the deadline, while the release that       *)
(* follows it may take any time.                                           *)
Tick ==
  /\ \A j \in Job : phase[j] \in Outside \cup Inside => left[j] > 0
  /\ next' = [m \in Monitor |-> Aged(m)]
  /\ ttl' = [u \in Url |-> IF ttl[u] = 0 THEN 0 ELSE ttl[u] - 1]
  /\ lock' = [u \in Url |-> IF ttl[u] <= 1 THEN NoJob ELSE lock[u]]
  /\ left' = [j \in Job |-> IF left[j] = 0 THEN 0 ELSE left[j] - 1]
  /\ UNCHANGED <<status, claimed, phase, mon, manual, tries, view, reqVars,
                 faults>>

-----------------------------------------------------------------------------
(* The cron job.  claim_due takes at most BatchSize due monitors, the      *)
(* longest overdue first (equal times: any, where the code takes the       *)
(* smaller id), and skips a row that another transaction has locked.  It   *)
(* commits the lease before the first job is enqueued.                     *)
(* The variant takes the due monitors in any order.                        *)
Due ==
  {m \in Monitor : status[m] = "active" /\ next[m] # NoTime /\ next[m] <= 0}

MayBeLocked(m) ==
  \/ \E j \in Job : view[j] # "none" /\ mon[j] = m
  \/ \E r \in Request : rview[r] # "none" /\ rmon[r] = m

Unordered(S) == TRUE
LongestOverdue(S) ==
  \A m \in S, k \in Due \ S : next[m] <= next[k] \/ MayBeLocked(k)

Leased(S) == [m \in Monitor |-> IF m \in S THEN LockTtl ELSE next[m]]

ClaimDue(S) ==
  /\ claimed = {}
  /\ S # {}
  /\ S \subseteq Due
  /\ Cardinality(S) <= BatchSize
  /\ \/ Cardinality(S) = BatchSize
     \/ \A m \in Due \ S : MayBeLocked(m)
  /\ LongestOverdue(S)
  /\ next' = Leased(S)
  /\ claimed' = S
  /\ view' = Staled(S, view, mon)
  /\ rview' = Staled(S, rview, rmon)
  /\ UNCHANGED <<status, lockVars, phase, mon, manual, tries, left, rphase,
                 rmon, faults>>

Enqueue(j, m, byHand) ==
  /\ phase[j] = "free"
  /\ phase' = [phase EXCEPT ![j] = "queued"]
  /\ mon' = [mon EXCEPT ![j] = m]
  /\ manual' = [manual EXCEPT ![j] = byHand]
  /\ UNCHANGED <<rowVars, lockVars, tries, left, view, reqVars, faults>>

(* The job id carries the lease's timestamp, so it is always a new job.    *)
EnqueueClaimed(j, m) ==
  /\ m \in claimed
  /\ Enqueue(j, m, FALSE)
  /\ claimed' = claimed \ {m}

(* The cron job fails on Redis or is killed; it has one try.               *)
SchedulerDies ==
  /\ claimed # {}
  /\ faults < MaxFaults
  /\ faults' = faults + 1
  /\ claimed' = {}
  /\ UNCHANGED <<rowVars, lockVars, jobVars, reqVars>>

(* The administrator's "check" action.  arq drops an enqueue whose job id  *)
(* is queued, running or has a kept result.                                *)
EnqueueManual(j, m) ==
  /\ Present(m)
  /\ \A k \in Job : mon[k] = m => ~manual[k]
  /\ Enqueue(j, m, TRUE)
  /\ UNCHANGED claimed

-----------------------------------------------------------------------------
(* run_monitor_check.                                                      *)

(* The job ends.  arq keeps the result of a manual job under its id for    *)
(* an hour; the id of a scheduled job is never used again.                 *)
Finish(j) ==
  /\ phase' = [phase EXCEPT ![j] = IF manual[j] THEN "kept" ELSE "free"]
  /\ mon' = [mon EXCEPT ![j] = IF manual[j] THEN mon[j] ELSE NoMonitor]
  /\ tries' = [tries EXCEPT ![j] = 0]
  /\ left' = [left EXCEPT ![j] = 0]
  /\ UNCHANGED manual

ResultExpires(j) ==
  /\ phase[j] = "kept"
  /\ phase' = [phase EXCEPT ![j] = "free"]
  /\ mon' = [mon EXCEPT ![j] = NoMonitor]
  /\ manual' = [manual EXCEPT ![j] = FALSE]
  /\ UNCHANGED <<rowVars, claimed, lockVars, tries, left, view, reqVars,
                 faults>>

(* arq takes the job, and the job reads its monitor in a first session.    *)
(* A job past its last try is dropped, one whose monitor is missing or     *)
(* not active returns.                                                     *)
Start(j) ==
  /\ phase[j] = "queued"
  /\ Cardinality({k \in Job : phase[k] \in Running}) < MaxJobs
  /\ IF tries[j] >= MaxTries \/ status[mon[j]] # "active"
     THEN Finish(j)
     ELSE /\ phase' = [phase EXCEPT ![j] = "starting"]
          /\ tries' = [tries EXCEPT ![j] = tries[j] + 1]
          /\ left' = [left EXCEPT ![j] = JobTimeout]
          /\ UNCHANGED <<mon, manual>>
  /\ UNCHANGED <<rowVars, claimed, lockVars, view, reqVars, faults>>

(* SET key token NX EX ttl.                                                *)
Acquire(j) ==
  /\ phase[j] = "starting" /\ Runs(j)
  /\ IF lock[url(j)] = NoJob
     THEN /\ lock' = [lock EXCEPT ![url(j)] = j]
          /\ ttl' = [ttl EXCEPT ![url(j)] = LockTtl]
          /\ phase' = [phase EXCEPT ![j] = "locked"]
     ELSE /\ phase' = [phase EXCEPT ![j] = "lost"]
          /\ UNCHANGED lockVars
  /\ UNCHANGED <<rowVars, claimed, mon, manual, tries, left, view, reqVars,
                 faults>>

(* The lock is held elsewhere: reschedule_after, in a session of its own.  *)
Reschedule(j) ==
  /\ phase[j] = "lost" /\ Runs(j)
  /\ IF status[mon[j]] = "active"
     THEN /\ next' = [next EXCEPT ![mon[j]] = RetryDelay]
          /\ StaleOthers(mon[j])
     ELSE UNCHANGED <<next, view, rview>>
  /\ Finish(j)
  /\ UNCHANGED <<status, claimed, lockVars, rphase, rmon, faults>>

(* The second session: the runtime settings, then get_or_raise.            *)
OpenView(j) ==
  /\ phase[j] = "locked" /\ Runs(j)
  /\ Present(mon[j])
  /\ view' = [view EXCEPT ![j] = status[mon[j]]]
  /\ phase' = [phase EXCEPT ![j] = "fetching"]
  /\ UNCHANGED <<rowVars, claimed, lockVars, mon, manual, tries, left,
                 reqVars, faults>>

(* Another check stores the product source of this URL first: the insert   *)
(* fails, get_or_create_source rolls back, and its next SELECT opens a new *)
(* view.                                                                   *)
RenewView(j) ==
  /\ phase[j] = "fetching" /\ Runs(j)
  /\ Present(mon[j])
  /\ view' = [view EXCEPT ![j] = status[mon[j]]]
  /\ UNCHANGED <<rowVars, claimed, lockVars, phase, mon, manual, tries, left,
                 reqVars, faults>>

(* What a check writes to its monitor: a new next_check_at, or the status  *)
(* unsupported when the provider does not know the URL.                    *)
CheckOutcome(m, n) ==
  \/ Write(m, status[m], n)
  \/ Write(m, "unsupported", NoTime)

(* The fetch is over: get_for_update, then the check's writes and the      *)
(* commit.  It succeeds only if the row is as it was read, and active.     *)
(* The variant does not look at the status.                                *)
AnyStatusAccepted(v) == Current(v)
CheckAccepted(v) == v = "active"

CommitCheck(j) ==
  /\ phase[j] = "fetching" /\ Runs(j)
  /\ CheckAccepted(view[j])
  /\ CheckOutcome(mon[j], Interval)
  /\ view' = [Staled({mon[j]}, view, mon) EXCEPT ![j] = "none"]
  /\ rview' = Staled({mon[j]}, rview, rmon)
  /\ phase' = [phase EXCEPT ![j] = "committed"]
  /\ UNCHANGED <<claimed, lockVars, mon, manual, tries, left, rphase, rmon,
                 faults>>

(* send_notification is enqueued for what the check created; then the      *)
(* lock is released.                                                       *)
EnqueueNotifications(j) ==
  /\ phase[j] = "committed" /\ Runs(j)
  /\ phase' = [phase EXCEPT ![j] = "releasing"]
  /\ UNCHANGED <<rowVars, claimed, lockVars, mon, manual, tries, left, view,
                 reqVars, faults>>

(* An exception under the lock: the monitor is missing, its row changed    *)
(* after the read view (error 1020), it was read as not active (the        *)
(* rolled-back instance cannot be read again), the database or Redis       *)
(* fails.  arq does not run the job again for it.  The variant counts one  *)
(* try too few.                                                            *)
IsFinalTryEarly(j) == tries[j] + 1 >= MaxTries
IsFinalTry(j) == tries[j] >= MaxTries

Raise(j) ==
  /\ phase[j] \in {"locked", "fetching", "committed"} /\ Runs(j)
  /\ phase' = [phase EXCEPT ![j] = IF IsFinalTry(j) THEN "dying"
                                                    ELSE "releasing"]
  /\ view' = [view EXCEPT ![j] = "none"]
  /\ UNCHANGED <<rowVars, claimed, lockVars, mon, manual, tries, left,
                 reqVars, faults>>

(* LPUSH and LTRIM of dead:price_checks, which may fail on Redis.          *)
DeadLetter(j) ==
  /\ phase[j] = "dying" /\ Runs(j)
  /\ \E p \in {"marking", "releasing"} : phase' = [phase EXCEPT ![j] = p]
  /\ UNCHANGED <<rowVars, claimed, lockVars, mon, manual, tries, left, view,
                 reqVars, faults>>

(* _mark_monitor_error, in a fresh session and whatever the status is.     *)
MarkMonitorError(j) ==
  /\ phase[j] = "marking" /\ Runs(j)
  /\ IF Present(mon[j])
     THEN /\ Write(mon[j], "error", NoTime)
          /\ StaleOthers(mon[j])
     ELSE UNCHANGED <<rowVars, view, rview>>
  /\ phase' = [phase EXCEPT ![j] = "releasing"]
  /\ UNCHANGED <<claimed, lockVars, mon, manual, tries, left, rphase, rmon,
                 faults>>

(* The release script deletes the key only if it holds the job's token.    *)
(* The variant is a plain DEL.                                             *)
ReleasedByAnyone(j) == [lock EXCEPT ![url(j)] = NoJob]
Released(j) ==
  [lock EXCEPT ![url(j)] = IF lock[url(j)] = j THEN NoJob ELSE lock[url(j)]]

(* The finally block; a cancelled job goes back to the queue.              *)
Release(j) ==
  /\ phase[j] \in Leaving
  /\ lock' = Released(j)
  /\ ttl' = [u \in Url |-> IF lock'[u] = NoJob THEN 0 ELSE ttl[u]]
  /\ \/ phase[j] = "releasing" /\ Finish(j)
     \/ /\ phase[j] = "cancelled"
        /\ phase' = [phase EXCEPT ![j] = "queued"]
        /\ left' = [left EXCEPT ![j] = 0]
        /\ UNCHANGED <<mon, manual, tries>>
  /\ UNCHANGED <<rowVars, claimed, view, reqVars, faults>>

(* The deadline: the job is cancelled and arq records a TimeoutError.      *)
(* The open transaction is rolled back before the lock is released.        *)
TimeOut(j) ==
  /\ left[j] = 0
  /\ \/ phase[j] \in Outside /\ Finish(j)
     \/ /\ phase[j] \in Inside
        /\ phase' = [phase EXCEPT ![j] = "releasing"]
        /\ UNCHANGED <<mon, manual, tries, left>>
  /\ view' = [view EXCEPT ![j] = "none"]
  /\ UNCHANGED <<rowVars, claimed, lockVars, reqVars, faults>>

(* The worker shuts down and cancels the job, which will be run again.     *)
Cancel(j) ==
  /\ Runs(j)
  /\ faults < MaxFaults
  /\ faults' = faults + 1
  /\ phase' = [phase EXCEPT ![j] = IF phase[j] \in Inside THEN "cancelled"
                                                          ELSE "queued"]
  /\ left' = [left EXCEPT ![j] = IF phase[j] \in Inside THEN left[j] ELSE 0]
  /\ view' = [view EXCEPT ![j] = "none"]
  /\ UNCHANGED <<rowVars, claimed, lockVars, mon, manual, tries, reqVars>>

(* The worker process dies with all its jobs and the cron run.  The locks  *)
(* stay, and so do arq's in-progress keys, which outlive the timeout.      *)
Crash ==
  /\ \E j \in Job : phase[j] \in Running
  /\ faults < MaxFaults
  /\ faults' = faults + 1
  /\ claimed' = {}
  /\ phase' = [j \in Job |-> IF phase[j] \in Running THEN "orphan"
                                                     ELSE phase[j]]
  /\ view' = [j \in Job |-> "none"]
  /\ UNCHANGED <<rowVars, lockVars, mon, manual, tries, left, reqVars>>

RunAgain(j) ==
  /\ phase[j] = "orphan"
  /\ left[j] = 0
  /\ phase' = [phase EXCEPT ![j] = "queued"]
  /\ UNCHANGED <<rowVars, claimed, lockVars, mon, manual, tries, left, view,
                 reqVars, faults>>

-----------------------------------------------------------------------------
(* HTTP requests.                                                          *)

(* MonitorRepository.create.                                               *)
CreateMonitor(m) ==
  /\ status[m] = "absent"
  /\ Write(m, "active", Interval)
  /\ UNCHANGED <<claimed, lockVars, jobVars, reqVars, faults>>

(* A request reads its monitor: to edit or delete it, or to check it       *)
(* through the internal API, which takes no URL lock.                      *)
OpenRequest(r, m, p) ==
  /\ rphase[r] = "idle"
  /\ Present(m)
  /\ rphase' = [rphase EXCEPT ![r] = p]
  /\ rmon' = [rmon EXCEPT ![r] = m]
  /\ rview' = [rview EXCEPT ![r] = status[m]]
  /\ UNCHANGED <<rowVars, claimed, lockVars, jobVars, faults>>

RenewRequestView(r) ==
  /\ rphase[r] = "checking"
  /\ Present(rmon[r])
  /\ rview' = [rview EXCEPT ![r] = status[rmon[r]]]
  /\ UNCHANGED <<rowVars, claimed, lockVars, jobVars, rphase, rmon, faults>>

EndRequest(r, views) ==
  /\ rphase' = [rphase EXCEPT ![r] = "idle"]
  /\ rmon' = [rmon EXCEPT ![r] = NoMonitor]
  /\ rview' = [views EXCEPT ![r] = "none"]

CommitRequest(r) ==
  /\ view' = Staled({rmon[r]}, view, mon)
  /\ EndRequest(r, Staled({rmon[r]}, rview, rmon))
  /\ UNCHANGED <<claimed, lockVars, phase, mon, manual, tries, left, faults>>

(* next_check_at after an edit to status s, n being its value before the   *)
(* status is looked at.  The variant resumes without "or now".             *)
NextAfterResume(s, n) == IF s = "paused" THEN NoTime ELSE n
NextAfterEdit(s, n) ==
  IF s = "paused" THEN NoTime
  ELSE IF s = "active" /\ n = NoTime THEN 0
  ELSE n

(* MonitorRepository.update: the edit may set the status, the interval or  *)
(* neither (target price, channel).                                        *)
SaveEdit(r) ==
  /\ rphase[r] = "editing"
  /\ Current(rview[r])
  /\ \E s \in EditStatus \cup {rview[r]}, n \in {Interval, next[rmon[r]]} :
       Write(rmon[r], s, NextAfterEdit(s, n))
  /\ CommitRequest(r)

SoftDelete(r) ==
  /\ rphase[r] = "editing"
  /\ Current(rview[r])
  /\ Write(rmon[r], "deleted", NoTime)
  /\ CommitRequest(r)

(* PriceCheckService.run_check in the API process.                         *)
CommitApiCheck(r) ==
  /\ rphase[r] = "checking"
  /\ CheckAccepted(rview[r])
  /\ CheckOutcome(rmon[r], Interval)
  /\ CommitRequest(r)

(* The request ends without a write: an error, or error 1020.              *)
FailRequest(r) ==
  /\ rphase[r] # "idle"
  /\ EndRequest(r, rview)
  /\ UNCHANGED <<rowVars, claimed, lockVars, jobVars, faults>>

-----------------------------------------------------------------------------
JobStep(j) ==
  \/ Start(j) \/ Acquire(j) \/ Reschedule(j) \/ OpenView(j)
  \/ CommitCheck(j) \/ EnqueueNotifications(j) \/ Raise(j) \/ DeadLetter(j)
  \/ MarkMonitorError(j) \/ Release(j) \/ TimeOut(j)

Next ==
  \/ Tick
  \/ SchedulerDies
  \/ Crash
  \/ \E S \in SUBSET Monitor : ClaimDue(S)
  \/ \E m \in Monitor : CreateMonitor(m)
  \/ \E j \in Job : \/ JobStep(j)
                    \/ ResultExpires(j)
                    \/ RenewView(j)
                    \/ Cancel(j)
                    \/ RunAgain(j)
                    \/ \E m \in Monitor : EnqueueClaimed(j, m)
                    \/ \E m \in Monitor : EnqueueManual(j, m)
  \/ \E r \in Request :
       \/ \E m \in Monitor, p \in {"editing", "checking"} :
            OpenRequest(r, m, p)
       \/ RenewRequestView(r)
       \/ SaveEdit(r)
       \/ SoftDelete(r)
       \/ CommitApiCheck(r)
       \/ FailRequest(r)

Spec == Init /\ [][Next]_vars

(* The clock runs, the cron job fires every minute and enqueues what it    *)
(* claimed, arq polls its queue, a running job goes on, and Redis drops a  *)
(* kept result at the end of its time.  Nothing is assumed of users, of    *)
(* failures or of the order in which jobs are taken.                       *)
Fairness ==
  /\ WF_vars(Tick)
  /\ WF_vars(\E S \in SUBSET Monitor : ClaimDue(S))
  /\ WF_vars(\E j \in Job, m \in Monitor : EnqueueClaimed(j, m))
  /\ \A j \in Job : /\ WF_vars(JobStep(j))
                     /\ WF_vars(RunAgain(j))
                     /\ WF_vars(ResultExpires(j))

FairSpec == Spec /\ Fairness
-----------------------------------------------------------------------------
(* Every variable has its type: the counters within their limits, a used   *)
(* slot with a monitor, an unused one without.                             *)
TypeOK ==
  /\ status \in [Monitor -> Status]
  /\ next \in [Monitor -> Time]
  /\ claimed \in SUBSET Monitor
  /\ lock \in [Url -> Job \cup {NoJob}]
  /\ ttl \in [Url -> 0..LockTtl]
  /\ phase \in [Job -> JobPhase]
  /\ mon \in [Job -> Monitor \cup {NoMonitor}]
  /\ manual \in [Job -> BOOLEAN]
  /\ tries \in [Job -> 0..MaxTries]
  /\ left \in [Job -> 0..LockTtl]
  /\ view \in [Job -> View]
  /\ rphase \in [Request -> {"idle", "editing", "checking"}]
  /\ rmon \in [Request -> Monitor \cup {NoMonitor}]
  /\ rview \in [Request -> View]
  /\ faults \in 0..MaxFaults
  /\ \A j \in Job : phase[j] # "free" <=> mon[j] # NoMonitor
  /\ \A r \in Request : rphase[r] # "idle" <=> rmon[r] # NoMonitor

(* A job that holds the URL lock and may still act (it can still commit,   *)
(* dead-letter or mark an error).                                          *)
Holds(j) == phase[j] \in Inside /\ left[j] > 0

(* Two worker jobs never work on one URL at a time: not after a timeout, a *)
(* crash, a lock expiry or a late release (acquire_redis_lock).            *)
LockExclusion ==
  \A j, k \in Job : Holds(j) /\ Holds(k) /\ url(j) = url(k) => j = k

(* The lock never expires under a job that may still act: its Redis key    *)
(* holds the job's token and outlives the job's timeout.                   *)
HolderOwnsLock ==
  \A j \in Job : Holds(j) => lock[url(j)] = j /\ left[j] <= ttl[url(j)]

(* The refinement of UrlLock: who works on a URL is the job of which       *)
(* HolderOwnsLock speaks.                                                  *)
working == [u \in Url |-> {j \in Job : Holds(j) /\ url(j) = u}]

Lock == INSTANCE UrlLock WITH owner <- lock

(* The Redis key does what UrlLock promises the jobs: it is taken when it  *)
(* is free and nobody works on the URL, and lost only by its owner, or by  *)
(* expiry when nobody works there any more, whatever becomes of timeouts,  *)
(* crashes and late releases.                                              *)
LockIsKept == Lock!Spec

(* A read view that would still be accepted by the database shows the row  *)
(* as it is.                                                               *)
ViewsAgree ==
  /\ \A j \in Job :
       /\ view[j] # "none" => phase[j] = "fetching"
       /\ Current(view[j]) => view[j] = status[mon[j]]
  /\ \A r \in Request :
       /\ rview[r] # "none" => rphase[r] # "idle"
       /\ Current(rview[r]) => rview[r] = status[rmon[r]]

(* An active monitor always has a next check, whatever sequence of edits,  *)
(* checks and errors led to it; without one claim_due never selects it.    *)
ActiveIsScheduled ==
  \A m \in Monitor : status[m] = "active" => next[m] # NoTime

(* A paused or deleted monitor has no next check, even if a check or a     *)
(* reschedule of it was under way when the user stopped it.                *)
StoppedIsIdle ==
  \A m \in Monitor : status[m] \in {"paused", "deleted"} => next[m] = NoTime

(* When a monitor is checked next follows from its status, whatever        *)
(* sequence of edits, checks, reschedules and errors led to it.            *)
NextFollowsStatus == ActiveIsScheduled /\ StoppedIsIdle

(* A check is recorded only against a monitor that is active at that       *)
(* moment, by a worker and by the internal API alike.                      *)
CheckLandsOnActive ==
  [][/\ \A j \in Job :
          phase[j] = "fetching" /\ phase'[j] = "committed"
            => status[mon[j]] = "active"
     /\ \A r \in Request :
          rphase[r] = "checking" /\ rphase'[r] = "idle" /\ rowVars' # rowVars
            => status[rmon[r]] = "active"]_vars

(* What a user has stopped only a user restarts: the one other step that   *)
(* changes the status of a monitor that is not active is the error mark of *)
(* a job on its last try.                                                  *)
StoppedStaysStopped ==
  [][\A m \in Monitor :
       status[m] \notin {"absent", "active"} /\ status'[m] # status[m]
         => \/ \E r \in Request : rphase[r] = "editing" /\ rmon[r] = m
            \/ /\ status'[m] = "error"
               /\ \E j \in Job : /\ phase[j] = "marking"
                                 /\ mon[j] = m
                                 /\ tries[j] = MaxTries]_vars

(* An active monitor is never forgotten: after any crash between lease and *)
(* enqueue, any failed job and any lost lock, and with more monitors due   *)
(* than a batch takes, a job for it starts again.                          *)
NeverForgotten ==
  \A m \in Monitor :
    status[m] = "active"
      ~> \/ status[m] # "active"
         \/ \E j \in Job : phase[j] = "starting" /\ mon[j] = m
=============================================================================
