------------------------ MODULE CheckSchedulingProofs ------------------------
(* Proofs about CheckScheduling for every set of monitors, jobs and        *)
(* requests and every lock TTL, interval and retry limit.                  *)
EXTENDS CheckScheduling, FiniteSetTheorems, TLAPS

USE SchedulingAssumption

(* The order kept of overdue monitors is a number.                         *)
LEMMA AgedType ==
  ASSUME next \in [Monitor -> Time]
  PROVE  /\ [m \in Monitor |-> Aged(m)] \in [Monitor -> Time]
         /\ \A m \in Monitor : next[m] # NoTime => Aged(m) # NoTime
         /\ \A m \in Monitor : next[m] = NoTime => Aged(m) = NoTime
<1> SUFFICES ASSUME NEW m \in Monitor
             PROVE  /\ Aged(m) \in Time
                    /\ next[m] # NoTime <=> Aged(m) # NoTime
  OBVIOUS
<1>1. FallenDueAfter(m) \in SUBSET Monitor
  BY DEF FallenDueAfter
<1>2. Cardinality(FallenDueAfter(m)) \in Nat
  BY <1>1, FS_Subset, FS_CardinalityType
<1> QED
  BY <1>2 DEF Aged, Time

(* Everything stays in its type: the counters within the limits the code   *)
(* sets (tries, lock TTL, job timeout), a used slot with a monitor.        *)
THEOREM TypeCorrect == Spec => []TypeOK
<1>1. Init => TypeOK
  BY DEF Init, TypeOK, Status, Time, View, JobPhase
<1>2. TypeOK /\ [Next]_vars => TypeOK'
  <2> SUFFICES ASSUME TypeOK, [Next]_vars
               PROVE  TypeOK'
    OBVIOUS
  <2> USE DEF TypeOK
  <2>1. CASE Tick
    <3>1. next' \in [Monitor -> Time]
      BY <2>1, AgedType DEF Tick
    <3>2. /\ ttl' \in [Url -> 0..LockTtl]
          /\ lock' \in [Url -> Job \cup {NoJob}]
      BY <2>1 DEF Tick
    <3>3. left' \in [Job -> 0..LockTtl]
      BY <2>1 DEF Tick
    <3>4. UNCHANGED <<status, claimed, phase, mon, manual, tries, view, rphase,
                      rmon, rview, faults>>
      BY <2>1 DEF Tick, reqVars
    <3> QED
      BY <3>1, <3>2, <3>3, <3>4
  <2>2. CASE SchedulerDies
    BY <2>2 DEF SchedulerDies, rowVars, lockVars, jobVars, reqVars
  <2>3. CASE Crash
    <3>1. phase' \in [Job -> JobPhase]
      BY <2>3 DEF Crash, JobPhase
    <3>2. \A j \in Job : phase'[j] # "free" <=> phase[j] # "free"
      BY <2>3 DEF Crash, Running, Outside, Inside, Leaving
    <3> QED
      BY <2>3, <3>1, <3>2 DEF Crash, rowVars, lockVars, reqVars, View
  <2>4. ASSUME NEW S \in SUBSET Monitor, ClaimDue(S)
        PROVE  TypeOK'
    BY <2>4 DEF ClaimDue, Leased, Staled, lockVars, Time, View
  <2>5. ASSUME NEW m \in Monitor, CreateMonitor(m)
        PROVE  TypeOK'
    BY <2>5 DEF CreateMonitor, Write, lockVars, jobVars, reqVars, Status, Time
  <2>6. ASSUME NEW j \in Job, JobStep(j)
        PROVE  TypeOK'
    <3>0. Finish(j) => /\ phase' \in [Job -> JobPhase]
                       /\ mon' \in [Job -> Monitor \cup {NoMonitor}]
                       /\ manual' \in [Job -> BOOLEAN]
                       /\ tries' \in [Job -> 0..MaxTries]
                       /\ left' \in [Job -> 0..LockTtl]
                       /\ (phase[j] # "free") =>
                            \A k \in Job : phase'[k] # "free" <=> mon'[k] # NoMonitor
      BY DEF Finish, JobPhase
    <3>1. CASE Start(j)
      BY <3>0, <3>1 DEF Start, JobTimeout, rowVars, lockVars, reqVars,
           JobPhase, Running, Outside
    <3>2. CASE Acquire(j)
      BY <3>2 DEF Acquire, Runs, url, rowVars, lockVars, reqVars,
           JobPhase, Running, Outside, Inside
    <3>3. CASE Reschedule(j)
      <4>1. phase[j] # "free"
        BY <3>3 DEF Reschedule
      <4>2. /\ next' \in [Monitor -> Time]
            /\ view' \in [Job -> View]
            /\ rview' \in [Request -> View]
        BY <3>3, <4>1 DEF Reschedule, StaleOthers, Staled, Time, View
      <4> QED
        BY <3>0, <3>3, <4>1, <4>2 DEF Reschedule, lockVars
    <3>4. CASE OpenView(j)
      BY <3>4 DEF OpenView, Present, rowVars, lockVars, reqVars, View,
           JobPhase, Running, Inside
    <3>5. CASE CommitCheck(j)
      <4>1. /\ status' \in [Monitor -> Status]
            /\ next' \in [Monitor -> Time]
        BY <3>5 DEF CommitCheck, CheckOutcome, Write, Status, Time
      <4>2. /\ view' \in [Job -> View]
            /\ rview' \in [Request -> View]
        BY <3>5 DEF CommitCheck, Staled, View
      <4> QED
        BY <3>5, <4>1, <4>2 DEF CommitCheck, lockVars, JobPhase, Running,
             Inside
    <3>6. CASE EnqueueNotifications(j)
      BY <3>6 DEF EnqueueNotifications, rowVars, lockVars, reqVars,
           JobPhase, Running, Leaving
    <3>7. CASE Raise(j)
      BY <3>7 DEF Raise, rowVars, lockVars, reqVars, View,
           JobPhase, Running, Inside, Leaving
    <3>8. CASE DeadLetter(j)
      BY <3>8 DEF DeadLetter, rowVars, lockVars, reqVars,
           JobPhase, Running, Inside, Leaving
    <3>9. CASE MarkMonitorError(j)
      <4>1. mon[j] \in Monitor
        BY <3>9 DEF MarkMonitorError
      <4>2. /\ status' \in [Monitor -> Status]
            /\ next' \in [Monitor -> Time]
            /\ view' \in [Job -> View]
            /\ rview' \in [Request -> View]
        BY <3>9, <4>1 DEF MarkMonitorError, Write, StaleOthers, Staled,
             rowVars, Status, Time, View
      <4> QED
        BY <3>9, <4>2 DEF MarkMonitorError, lockVars, JobPhase, Running,
             Leaving
    <3>10. CASE Release(j)
      <4>1. phase[j] # "free" /\ mon[j] \in Monitor
        BY <3>10 DEF Release, Leaving
      <4>2. /\ lock' \in [Url -> Job \cup {NoJob}]
            /\ ttl' \in [Url -> 0..LockTtl]
        BY <3>10, <4>1 DEF Release, Released, url
      <4>3. CASE phase[j] = "releasing" /\ Finish(j)
        BY <3>0, <3>10, <4>1, <4>2, <4>3 DEF Release, rowVars, reqVars
      <4>4. CASE phase[j] = "cancelled"
        BY <3>10, <4>1, <4>2, <4>4 DEF Release, rowVars, reqVars, JobPhase
      <4> QED
        BY <3>10, <4>3, <4>4 DEF Release
    <3>11. CASE TimeOut(j)
      <4>1. CASE phase[j] \in Outside /\ Finish(j)
        BY <3>0, <3>11, <4>1 DEF TimeOut, Outside, rowVars, lockVars,
             reqVars, View
      <4>2. CASE phase[j] \in Inside
        BY <3>11, <4>2 DEF TimeOut, Inside, Outside, Leaving, Running,
             JobPhase, rowVars, lockVars, reqVars, View
      <4> QED
        BY <3>11, <4>1, <4>2 DEF TimeOut
    <3> QED
      BY <2>6, <3>1, <3>2, <3>3, <3>4, <3>5, <3>6, <3>7, <3>8, <3>9, <3>10,
         <3>11 DEF JobStep
  <2>7. ASSUME NEW j \in Job, ResultExpires(j)
        PROVE  TypeOK'
    BY <2>7 DEF ResultExpires, rowVars, lockVars, reqVars, JobPhase
  <2>8. ASSUME NEW j \in Job, Cancel(j)
        PROVE  TypeOK'
    BY <2>8 DEF Cancel, Runs, rowVars, lockVars, reqVars, View,
         JobPhase, Running, Inside, Outside, Leaving
  <2>9. ASSUME NEW j \in Job, RunAgain(j)
        PROVE  TypeOK'
    BY <2>9 DEF RunAgain, rowVars, lockVars, reqVars, JobPhase
  <2>14. ASSUME NEW j \in Job, RenewView(j)
         PROVE  TypeOK'
    BY <2>14 DEF RenewView, Present, rowVars, lockVars, reqVars, View
  <2>10. ASSUME NEW j \in Job, NEW m \in Monitor, EnqueueClaimed(j, m)
         PROVE  TypeOK'
    BY <2>10 DEF EnqueueClaimed, Enqueue, rowVars, lockVars, reqVars, JobPhase
  <2>11. ASSUME NEW j \in Job, NEW m \in Monitor, EnqueueManual(j, m)
         PROVE  TypeOK'
    BY <2>11 DEF EnqueueManual, Enqueue, rowVars, lockVars, reqVars, JobPhase
  <2>12. ASSUME NEW r \in Request,
                \/ \E m \in Monitor, p \in {"editing", "checking"} :
                     OpenRequest(r, m, p)
                \/ RenewRequestView(r) \/ SaveEdit(r) \/ SoftDelete(r)
                \/ CommitApiCheck(r) \/ FailRequest(r)
         PROVE  TypeOK'
    <3>0. ASSUME CommitRequest(r), rphase[r] # "idle"
          PROVE  /\ view' \in [Job -> View]
                 /\ rphase' \in [Request -> {"idle", "editing", "checking"}]
                 /\ rmon' \in [Request -> Monitor \cup {NoMonitor}]
                 /\ rview' \in [Request -> View]
                 /\ \A q \in Request : rphase'[q] # "idle" <=> rmon'[q] # NoMonitor
      BY <3>0 DEF CommitRequest, EndRequest, Staled, View
    <3>1. ASSUME NEW m \in Monitor, NEW p \in {"editing", "checking"},
                 OpenRequest(r, m, p)
          PROVE  TypeOK'
      BY <3>1 DEF OpenRequest, Present, rowVars, lockVars, jobVars, View
    <3>2. CASE SaveEdit(r)
      <4>1. rmon[r] \in Monitor /\ rphase[r] # "idle"
        BY <3>2 DEF SaveEdit
      <4>2. PICK s \in EditStatus \cup {rview[r]},
                 n \in {Interval, next[rmon[r]]} :
                   Write(rmon[r], s, NextAfterEdit(s, n))
        BY <3>2 DEF SaveEdit
      <4>3. NextAfterEdit(s, n) \in Time
        BY <4>1 DEF NextAfterEdit, Time
      <4>4. CommitRequest(r) /\ Current(rview[r])
        BY <3>2 DEF SaveEdit
      <4>5. rview[r] \in Status
        BY <4>4 DEF View, Current
      <4> QED
        BY <3>0, <4>1, <4>2, <4>3, <4>4, <4>5
          DEF CommitRequest, Write, lockVars, EditStatus, Status
    <3>3. CASE SoftDelete(r)
      BY <3>0, <3>3 DEF SoftDelete, Write, CommitRequest, lockVars, Status, Time
    <3>4. CASE CommitApiCheck(r)
      <4>1. /\ status' \in [Monitor -> Status]
            /\ next' \in [Monitor -> Time]
        BY <3>4 DEF CommitApiCheck, CheckOutcome, Write, Status, Time
      <4> QED
        BY <3>0, <3>4, <4>1 DEF CommitApiCheck, CommitRequest, lockVars
    <3>5. CASE FailRequest(r)
      BY <3>5 DEF FailRequest, EndRequest, rowVars, lockVars, jobVars, View
    <3>6. CASE RenewRequestView(r)
      BY <3>6 DEF RenewRequestView, Present, rowVars, lockVars, jobVars, View
    <3> QED
      BY <2>12, <3>1, <3>2, <3>3, <3>4, <3>5, <3>6
  <2>13. CASE UNCHANGED vars
    BY <2>13 DEF vars
  <2> QED
    BY <2>1, <2>2, <2>3, <2>4, <2>5, <2>6, <2>7, <2>8, <2>9, <2>10, <2>11,
       <2>12, <2>13, <2>14 DEF Next
<1> QED
  BY <1>1, <1>2, PTL DEF Spec

-----------------------------------------------------------------------------
(* Mutual exclusion.  HolderOwnsLock is the inductive invariant: time      *)
(* takes as much from a job's timeout as from its lock's TTL, and the      *)
(* timeout starts no later, so the lock cannot expire first; no other job  *)
(* removes the key, since release compares tokens.                         *)

LEMMA HolderStep ==
  ASSUME TypeOK, TypeOK', HolderOwnsLock, [Next]_vars
  PROVE  HolderOwnsLock'
<1> USE DEF TypeOK, HolderOwnsLock, Holds, url
<1>1. CASE Tick
  <2> SUFFICES ASSUME NEW j \in Job, phase'[j] \in Inside, left'[j] > 0
               PROVE  lock'[url(j)'] = j /\ left'[j] <= ttl'[url(j)']
    OBVIOUS
  <2>1. UNCHANGED <<phase, mon>>
    BY <1>1 DEF Tick
  <2>2. mon[j] \in Monitor /\ UrlOf[mon[j]] \in Url
    BY <2>1 DEF Inside
  <2>3. left[j] > 1 /\ left'[j] = left[j] - 1
    BY <1>1 DEF Tick
  <2>4. lock[url(j)] = j /\ left[j] <= ttl[url(j)]
    BY <2>1, <2>3
  <2>5. ttl'[url(j)] = ttl[url(j)] - 1 /\ lock'[url(j)] = lock[url(j)]
    BY <1>1, <2>2, <2>3, <2>4 DEF Tick
  <2> QED
    BY <2>1, <2>2, <2>3, <2>4, <2>5
<1>2. CASE SchedulerDies
  BY <1>2 DEF SchedulerDies, lockVars, jobVars
<1>3. CASE Crash
  BY <1>3 DEF Crash, Running, Inside
<1>4. CASE \E S \in SUBSET Monitor : ClaimDue(S)
  BY <1>4 DEF ClaimDue, lockVars
<1>5. CASE \E m \in Monitor : CreateMonitor(m)
  BY <1>5 DEF CreateMonitor, lockVars, jobVars
<1>6. ASSUME NEW j \in Job, JobStep(j)
      PROVE  HolderOwnsLock'
  <2>0. Finish(j) /\ UNCHANGED lockVars => HolderOwnsLock'
    BY DEF Finish, Inside, lockVars
  <2>1. CASE Start(j)
    BY <1>6, <2>0, <2>1 DEF Start, lockVars, Inside
  <2>2. CASE Acquire(j)
    BY <2>2 DEF Acquire, lockVars, Inside
  <2>3. CASE Reschedule(j)
    BY <2>0, <2>3 DEF Reschedule
  <2>4. CASE OpenView(j)
    BY <2>4 DEF OpenView, lockVars, Inside
  <2>5. CASE CommitCheck(j)
    BY <2>5 DEF CommitCheck, lockVars, Inside
  <2>6. CASE EnqueueNotifications(j)
    BY <2>6 DEF EnqueueNotifications, lockVars, Inside
  <2>7. CASE Raise(j)
    BY <2>7 DEF Raise, lockVars, Inside
  <2>8. CASE DeadLetter(j)
    BY <2>8 DEF DeadLetter, lockVars, Inside
  <2>9. CASE MarkMonitorError(j)
    BY <2>9 DEF MarkMonitorError, lockVars, Inside
  <2>10. CASE Release(j)
    <3>1. \A u \in Url : lock[u] # j /\ lock[u] # NoJob
                         => lock'[u] = lock[u] /\ ttl'[u] = ttl[u]
      BY <2>10 DEF Release, Released
    <3>2. \A k \in Job : phase'[k] \in Inside
            => k # j /\ phase[k] \in Inside /\ left'[k] = left[k]
                      /\ mon'[k] = mon[k]
      BY <2>10 DEF Release, Finish, Inside, Leaving
    <3>3. \A k \in Job : phase[k] \in Inside => mon[k] \in Monitor
      BY DEF Inside
    <3> QED
      BY <3>1, <3>2, <3>3
  <2>11. CASE TimeOut(j)
    BY <2>0, <2>11 DEF TimeOut, lockVars, Inside
  <2> QED
    BY <1>6, <2>1, <2>2, <2>3, <2>4, <2>5, <2>6, <2>7, <2>8, <2>9, <2>10,
       <2>11 DEF JobStep
<1>7. ASSUME NEW j \in Job,
             ResultExpires(j) \/ RenewView(j) \/ Cancel(j) \/ RunAgain(j)
      PROVE  HolderOwnsLock'
  BY <1>7 DEF ResultExpires, RenewView, Cancel, RunAgain, lockVars, Inside
<1>8. ASSUME NEW j \in Job, NEW m \in Monitor,
             EnqueueClaimed(j, m) \/ EnqueueManual(j, m)
      PROVE  HolderOwnsLock'
  BY <1>8 DEF EnqueueClaimed, EnqueueManual, Enqueue, lockVars, Inside
<1>9. ASSUME NEW r \in Request,
             \/ \E m \in Monitor, p \in {"editing", "checking"} :
                  OpenRequest(r, m, p)
             \/ RenewRequestView(r) \/ SaveEdit(r) \/ SoftDelete(r) \/ CommitApiCheck(r)
             \/ FailRequest(r)
      PROVE  HolderOwnsLock'
  <2>1. UNCHANGED <<lock, ttl, phase, mon, left>>
    BY <1>9 DEF OpenRequest, RenewRequestView, SaveEdit, SoftDelete, CommitApiCheck,
         CommitRequest, FailRequest, lockVars, jobVars
  <2> QED
    BY <2>1
<1>10. CASE UNCHANGED vars
  BY <1>10 DEF vars
<1> QED
  BY <1>1, <1>2, <1>3, <1>4, <1>5, <1>6, <1>7, <1>8, <1>9, <1>10 DEF Next

(* A job that may still act owns its lock, and the lock outlives it.       *)
THEOREM LockOwnership == Spec => []HolderOwnsLock
<1>1. Init => HolderOwnsLock
  BY DEF Init, HolderOwnsLock, Holds, Inside
<1> QED
  BY <1>1, TypeCorrect, HolderStep, PTL DEF Spec

(* Two worker jobs never work on one URL at a time.                        *)
THEOREM MutualExclusion == Spec => []LockExclusion
<1>1. HolderOwnsLock => LockExclusion
  BY DEF HolderOwnsLock, LockExclusion
<1> QED
  BY <1>1, LockOwnership, PTL

-----------------------------------------------------------------------------
(* The Redis key is the lock that UrlLock describes: a successful SET NX   *)
(* takes it, and every other step at most ends work or frees keys that     *)
(* nobody works under.                                                     *)

(* No key changes hands, and no job begins to work.                        *)
OnlyLetsGo ==
  /\ \A u \in Url : lock'[u] \in {lock[u], NoJob}
  /\ \A j \in Job : Holds(j)' => Holds(j) /\ mon'[j] = mon[j]

Obtains(j) == Acquire(j) /\ lock[url(j)] = NoJob

LEMMA OthersOnlyLetGo ==
  ASSUME TypeOK, [Next]_vars, \A j \in Job : ~Obtains(j)
  PROVE  OnlyLetsGo
<1> USE DEF TypeOK, OnlyLetsGo, Holds
<1>1. CASE Tick
  BY <1>1 DEF Tick
<1>2. CASE SchedulerDies
  BY <1>2 DEF SchedulerDies, lockVars, jobVars
<1>3. CASE Crash
  BY <1>3 DEF Crash, Running, Inside, lockVars
<1>4. CASE \E S \in SUBSET Monitor : ClaimDue(S)
  BY <1>4 DEF ClaimDue, lockVars
<1>5. CASE \E m \in Monitor : CreateMonitor(m)
  BY <1>5 DEF CreateMonitor, lockVars, jobVars
<1>6. ASSUME NEW j \in Job, JobStep(j)
      PROVE  OnlyLetsGo
  <2>0. Finish(j) /\ UNCHANGED lockVars => OnlyLetsGo
    BY DEF Finish, Inside, lockVars
  <2>1. CASE Start(j)
    BY <2>0, <2>1 DEF Start, lockVars, Inside
  <2>2. CASE Acquire(j)
    BY <2>2 DEF Acquire, Obtains, lockVars, Inside
  <2>3. CASE Reschedule(j)
    BY <2>0, <2>3 DEF Reschedule
  <2>4. CASE OpenView(j)
    BY <2>4 DEF OpenView, lockVars, Inside
  <2>5. CASE CommitCheck(j)
    BY <2>5 DEF CommitCheck, lockVars, Inside
  <2>6. CASE EnqueueNotifications(j)
    BY <2>6 DEF EnqueueNotifications, lockVars, Inside
  <2>7. CASE Raise(j)
    BY <2>7 DEF Raise, lockVars, Inside
  <2>8. CASE DeadLetter(j)
    BY <2>8 DEF DeadLetter, lockVars, Inside
  <2>9. CASE MarkMonitorError(j)
    BY <2>9 DEF MarkMonitorError, lockVars, Inside
  <2>10. CASE Release(j)
    BY <2>10 DEF Release, Released, Finish, Inside, Leaving
  <2>11. CASE TimeOut(j)
    BY <2>0, <2>11 DEF TimeOut, lockVars, Inside
  <2> QED
    BY <1>6, <2>1, <2>2, <2>3, <2>4, <2>5, <2>6, <2>7, <2>8, <2>9, <2>10,
       <2>11 DEF JobStep
<1>7. ASSUME NEW j \in Job,
             ResultExpires(j) \/ RenewView(j) \/ Cancel(j) \/ RunAgain(j)
      PROVE  OnlyLetsGo
  BY <1>7 DEF ResultExpires, RenewView, Cancel, RunAgain, lockVars, Inside
<1>8. ASSUME NEW j \in Job, NEW m \in Monitor,
             EnqueueClaimed(j, m) \/ EnqueueManual(j, m)
      PROVE  OnlyLetsGo
  BY <1>8 DEF EnqueueClaimed, EnqueueManual, Enqueue, lockVars, Inside
<1>9. ASSUME NEW r \in Request,
             \/ \E m \in Monitor, p \in {"editing", "checking"} :
                  OpenRequest(r, m, p)
             \/ RenewRequestView(r) \/ SaveEdit(r) \/ SoftDelete(r) \/ CommitApiCheck(r)
             \/ FailRequest(r)
      PROVE  OnlyLetsGo
  <2>1. UNCHANGED <<lock, phase, mon, left>>
    BY <1>9 DEF OpenRequest, RenewRequestView, SaveEdit, SoftDelete, CommitApiCheck,
         CommitRequest, FailRequest, lockVars, jobVars
  <2> QED
    BY <2>1
<1>10. CASE UNCHANGED vars
  BY <1>10 DEF vars
<1> QED
  BY <1>1, <1>2, <1>3, <1>4, <1>5, <1>6, <1>7, <1>8, <1>9, <1>10 DEF Next

(* Whoever works on a URL owns its lock, so a free lock has no worker.     *)
LEMMA FreeIsUnworked ==
  ASSUME TypeOK, HolderOwnsLock, NEW u \in Url, lock[u] = NoJob
  PROVE  working[u] = {}
BY DEF HolderOwnsLock, working

LEMMA LockStep ==
  ASSUME TypeOK, TypeOK', HolderOwnsLock, HolderOwnsLock', [Next]_vars
  PROVE  Lock!Next
<1>1. ASSUME NEW j \in Job, Obtains(j)
      PROVE  Lock!Next
  <2>0. PICK v \in Url : v = url(j)
    BY <1>1 DEF Obtains, Acquire, TypeOK, url
  <2>1. /\ lock[v] = NoJob /\ mon' = mon
        /\ lock' = [lock EXCEPT ![v] = j]
        /\ phase' = [phase EXCEPT ![j] = "locked"] /\ left' = left
        /\ left[j] > 0
    BY <1>1, <2>0 DEF Obtains, Acquire, Runs, TypeOK
  <2>2. working[v] = {}
    BY <2>1, FreeIsUnworked
  <2>3. \A k \in Job : Holds(k)' <=> Holds(k) \/ k = j
    BY <2>1 DEF Holds, Inside, TypeOK
  <2>4. working'[v] = {j} /\ \A u \in Url \ {v} : working'[u] = working[u]
    BY <2>0, <2>1, <2>2, <2>3 DEF working, url
  <2>5. working' = [working EXCEPT ![v] = {j}]
    BY <2>1, <2>4 DEF working
  <2>6. Lock!Take(v, j)
    BY <2>1, <2>2, <2>5 DEF Lock!Take
  <2> QED
    BY <2>6 DEF Lock!Next
<1>2. ASSUME \A j \in Job : ~Obtains(j)
      PROVE  Lock!Next
  <2>1. OnlyLetsGo
    BY <1>2, OthersOnlyLetGo
  <2>2. \A u \in Url : working'[u] \subseteq working[u]
    BY <2>1 DEF OnlyLetsGo, working, url
  <2>3. ASSUME NEW u \in Url, lock'[u] # lock[u]
        PROVE  lock'[u] = NoJob /\ working'[u] = {}
    <3>1. lock'[u] = NoJob
      BY <2>1, <2>3 DEF OnlyLetsGo
    <3> QED
      BY <3>1 DEF working, HolderOwnsLock, TypeOK
  <2>4. Lock!LetGo
    BY <2>2, <2>3 DEF Lock!LetGo, working, TypeOK
  <2> QED
    BY <2>4 DEF Lock!Next
<1> QED
  BY <1>1, <1>2

(* The Redis lock keeps its promise to the jobs, whatever becomes of       *)
(* timeouts, crashes, late releases and the expiry of its key.             *)
THEOREM LockRefined == Spec => LockIsKept
<1>1. Init => Lock!Init
  BY DEF Init, Lock!Init, working, Holds, Inside
<1>2. TypeOK /\ TypeOK' /\ HolderOwnsLock /\ HolderOwnsLock' /\ [Next]_vars
        => [Lock!Next]_(Lock!vars)
  BY LockStep
<1> QED
  BY <1>1, <1>2, TypeCorrect, LockOwnership, PTL DEF Spec, LockIsKept, Lock!Spec

-----------------------------------------------------------------------------
(* The monitor row.  A commit is decided on a status read before the       *)
(* fetch; the invariant that carries it is that a read view which the      *)
(* database would still accept agrees with the row (ViewsAgree).           *)

ViewsPresent ==
  /\ \A j \in Job : view[j] \notin Missing
  /\ \A r \in Request : rview[r] \notin Missing

RowInv == ViewsAgree /\ ViewsPresent /\ ActiveIsScheduled /\ StoppedIsIdle

(* What a write to one monitor does to the invariant: views of it are      *)
(* stale or closed, so only the row itself has to be looked at.            *)
LEMMA WriteKeepsRowInv ==
  ASSUME TypeOK, RowInv,
         NEW m \in Monitor, NEW s \in Status, NEW n \in Time,
         Write(m, s, n),
         s = "active" => n # NoTime,
         s \in {"paused", "deleted"} => n = NoTime
  PROVE  ActiveIsScheduled' /\ StoppedIsIdle'
BY DEF TypeOK, RowInv, ActiveIsScheduled, StoppedIsIdle, Write

(* After another transaction wrote the rows of S, a view is closed, stale, *)
(* or as before and of another row.                                        *)
LEMMA StaledAgrees ==
  ASSUME NEW I, NEW views \in [I -> View], NEW of, NEW S, NEW i \in I
  PROVE  \/ views[i] = "none" /\ Staled(S, views, of)[i] = "none"
         \/ views[i] # "none" /\ Staled(S, views, of)[i] = "stale"
         \/ /\ views[i] # "none" /\ of[i] \notin S
            /\ Staled(S, views, of)[i] = views[i]
BY DEF Staled

(* What a commit that writes the rows S does to the view of another job or *)
(* request: nothing, unless it becomes stale.                              *)
LEMMA JobViewStaled ==
  ASSUME TypeOK, ViewsAgree, NEW S \in SUBSET Monitor, NEW k \in Job,
         view'[k] = Staled(S, view, mon)[k],
         phase'[k] = phase[k], mon'[k] = mon[k],
         \A m \in Monitor \ S : status'[m] = status[m]
  PROVE  \/ view'[k] = "none"
         \/ /\ view[k] # "none" /\ phase'[k] = phase[k]
            /\ \/ view'[k] = "stale"
               \/ view'[k] = view[k] /\ status'[mon'[k]] = status[mon[k]]
<1>1. view[k] # "none" => mon[k] \in Monitor
  BY DEF TypeOK, ViewsAgree
<1>2. view \in [Job -> View]
  BY DEF TypeOK
<1> QED
  BY <1>1, <1>2, StaledAgrees

LEMMA RequestViewStaled ==
  ASSUME TypeOK, ViewsAgree, NEW S \in SUBSET Monitor, NEW q \in Request,
         rview'[q] = Staled(S, rview, rmon)[q],
         rphase'[q] = rphase[q], rmon'[q] = rmon[q],
         \A m \in Monitor \ S : status'[m] = status[m]
  PROVE  \/ rview'[q] = "none"
         \/ /\ rview[q] # "none" /\ rphase'[q] = rphase[q]
            /\ \/ rview'[q] = "stale"
               \/ rview'[q] = rview[q] /\ status'[rmon'[q]] = status[rmon[q]]
<1>1. rview[q] # "none" => rmon[q] \in Monitor
  BY DEF TypeOK, ViewsAgree
<1>2. rview \in [Request -> View]
  BY DEF TypeOK
<1> QED
  BY <1>1, <1>2, StaledAgrees

(* The views keep agreeing with the rows when each of them is closed, or   *)
(* stays open and is stale, or stays open and its row keeps its status.    *)
LEMMA ViewsKept ==
  ASSUME ViewsAgree, ViewsPresent,
         \A k \in Job :
           \/ view'[k] = "none"
           \/ /\ view[k] # "none" /\ phase'[k] = phase[k]
              /\ \/ view'[k] = "stale"
                 \/ view'[k] = view[k] /\ status'[mon'[k]] = status[mon[k]],
         \A q \in Request :
           \/ rview'[q] = "none"
           \/ /\ rview[q] # "none" /\ rphase'[q] = rphase[q]
              /\ \/ rview'[q] = "stale"
                 \/ rview'[q] = rview[q]
                    /\ status'[rmon'[q]] = status[rmon[q]]
  PROVE  ViewsAgree' /\ ViewsPresent'
<1>1. "none" \notin Missing /\ "stale" \notin Missing
  BY DEF Missing
<1>2. \A k \in Job :
        /\ view'[k] # "none" => phase'[k] = "fetching"
        /\ Current(view'[k]) => view'[k] = status'[mon'[k]]
        /\ view'[k] \notin Missing
  BY <1>1 DEF ViewsAgree, ViewsPresent, Current
<1>3. \A q \in Request :
        /\ rview'[q] # "none" => rphase'[q] # "idle"
        /\ Current(rview'[q]) => rview'[q] = status'[rmon'[q]]
        /\ rview'[q] \notin Missing
  BY <1>1 DEF ViewsAgree, ViewsPresent, Current
<1> QED
  BY <1>2, <1>3 DEF ViewsAgree, ViewsPresent, Current

(* Every step keeps the row invariant.                                     *)
LEMMA RowStep ==
  ASSUME TypeOK, TypeOK', RowInv, [Next]_vars
  PROVE  RowInv'
<1> USE DEF RowInv, ViewsAgree, ViewsPresent, Current
<1>a. UNCHANGED <<status, phase, mon, view, rphase, rmon, rview>>
        => ViewsAgree' /\ ViewsPresent'
  OBVIOUS
<1>b. UNCHANGED rowVars => ActiveIsScheduled' /\ StoppedIsIdle'
  BY DEF rowVars, ActiveIsScheduled, StoppedIsIdle
<1>1. CASE Tick
  <2>1. ActiveIsScheduled' /\ StoppedIsIdle'
    BY <1>1, AgedType DEF Tick, TypeOK, ActiveIsScheduled, StoppedIsIdle
  <2> QED
    BY <1>1, <1>a, <2>1 DEF Tick, reqVars
<1>2. CASE SchedulerDies
  BY <1>2, <1>a, <1>b DEF SchedulerDies, rowVars, jobVars, reqVars
<1>3. CASE Crash
  <2>1. /\ \A k \in Job : view'[k] = "none"
        /\ UNCHANGED <<status, rphase, rmon, rview>>
    BY <1>3 DEF Crash, rowVars, reqVars
  <2> QED
    BY <1>3, <1>b, <2>1, ViewsKept DEF Crash
<1>4. ASSUME NEW S \in SUBSET Monitor, ClaimDue(S)
      PROVE  RowInv'
  <2>1. ActiveIsScheduled' /\ StoppedIsIdle'
    BY <1>4 DEF ClaimDue, Due, Leased, TypeOK, Time, ActiveIsScheduled,
         StoppedIsIdle
  <2>2. /\ view' = Staled(S, view, mon) /\ rview' = Staled(S, rview, rmon)
        /\ UNCHANGED <<status, phase, mon, rphase, rmon>>
    BY <1>4 DEF ClaimDue
  <2>3. \A k \in Job :
          \/ view'[k] = "none"
          \/ /\ view[k] # "none" /\ phase'[k] = phase[k]
             /\ \/ view'[k] = "stale"
                \/ view'[k] = view[k] /\ status'[mon'[k]] = status[mon[k]]
    BY <2>2, JobViewStaled
  <2>4. \A q \in Request :
          \/ rview'[q] = "none"
          \/ /\ rview[q] # "none" /\ rphase'[q] = rphase[q]
             /\ \/ rview'[q] = "stale"
                \/ rview'[q] = rview[q] /\ status'[rmon'[q]] = status[rmon[q]]
    BY <2>2, RequestViewStaled
  <2> QED
    BY <2>1, <2>3, <2>4, ViewsKept
<1>5. ASSUME NEW m \in Monitor, CreateMonitor(m)
      PROVE  RowInv'
  <2>1. ActiveIsScheduled' /\ StoppedIsIdle'
    BY <1>5, WriteKeepsRowInv DEF CreateMonitor, Status, Time
  <2>2. /\ \A j \in Job : view[j] \notin {"none", "stale"} => mon[j] # m
        /\ \A r \in Request : rview[r] \notin {"none", "stale"} => rmon[r] # m
    BY <1>5 DEF CreateMonitor, Missing
  <2> QED
    BY <1>5, <2>1, <2>2 DEF CreateMonitor, Write, jobVars, reqVars, TypeOK,
         Missing
<1>6. ASSUME NEW j \in Job, JobStep(j)
      PROVE  RowInv'
  <2>0. ASSUME Finish(j), phase[j] # "fetching", UNCHANGED <<status, view, rphase, rmon, rview>>
        PROVE  ViewsAgree' /\ ViewsPresent'
    BY <2>0 DEF Finish, TypeOK
  <2>1. CASE Start(j)
    BY <2>0, <2>1, <1>b DEF Start, rowVars, reqVars, TypeOK
  <2>2. CASE Acquire(j)
    BY <2>2, <1>b DEF Acquire, rowVars, reqVars, TypeOK
  <2>3. CASE Reschedule(j)
    <3>1. ActiveIsScheduled' /\ StoppedIsIdle'
      BY <2>3 DEF Reschedule, TypeOK, Time, ActiveIsScheduled, StoppedIsIdle
    <3>2. phase[j] = "lost" /\ mon[j] \in Monitor
      BY <2>3 DEF Reschedule, TypeOK
    <3>3. CASE status[mon[j]] = "active"
      <4>1. /\ view' = Staled({mon[j]}, view, mon)
            /\ rview' = Staled({mon[j]}, rview, rmon)
        BY <2>3, <3>3 DEF Reschedule, StaleOthers
      <4>2. UNCHANGED <<status, rphase, rmon>>
        BY <2>3 DEF Reschedule
      <4>3. \A k \in Job : phase[k] = "fetching"
                            => phase'[k] = "fetching" /\ mon'[k] = mon[k]
        BY <2>3, <3>2 DEF Reschedule, Finish, TypeOK
      <4> QED
        <5>1. \A k \in Job :
                \/ view'[k] = "none"
                \/ /\ view[k] # "none" /\ phase'[k] = phase[k]
                   /\ \/ view'[k] = "stale"
                      \/ view'[k] = view[k]
                         /\ status'[mon'[k]] = status[mon[k]]
          BY <4>1, <4>2, <4>3, StaledAgrees DEF TypeOK
        <5>2. \A q \in Request :
                \/ rview'[q] = "none"
                \/ /\ rview[q] # "none" /\ rphase'[q] = rphase[q]
                   /\ \/ rview'[q] = "stale"
                      \/ rview'[q] = rview[q]
                         /\ status'[rmon'[q]] = status[rmon[q]]
          BY <4>1, <4>2, StaledAgrees DEF TypeOK
        <5> QED
          BY <3>1, <5>1, <5>2, ViewsKept
    <3>4. CASE status[mon[j]] # "active"
      BY <2>0, <2>3, <3>1, <3>4 DEF Reschedule
    <3> QED
      BY <3>3, <3>4
  <2>4. CASE OpenView(j)
    BY <2>4, <1>b DEF OpenView, Present, rowVars, reqVars, TypeOK
  <2>5. CASE CommitCheck(j)
    <3>1. mon[j] \in Monitor /\ status[mon[j]] = "active"
      BY <2>5 DEF CommitCheck, CheckAccepted, TypeOK
    <3>2. ActiveIsScheduled' /\ StoppedIsIdle'
      BY <2>5, <3>1 DEF CommitCheck, CheckOutcome, Write, TypeOK, Time,
           ActiveIsScheduled, StoppedIsIdle
    <3>3. \A m \in Monitor \ {mon[j]} : status'[m] = status[m]
      BY <2>5 DEF CommitCheck, CheckOutcome, Write, TypeOK
    <3>4. /\ view' = [Staled({mon[j]}, view, mon) EXCEPT ![j] = "none"]
          /\ rview' = Staled({mon[j]}, rview, rmon)
          /\ phase' = [phase EXCEPT ![j] = "committed"]
          /\ UNCHANGED <<mon, rphase, rmon>>
      BY <2>5 DEF CommitCheck
    <3>5. /\ \A k \in Job \ {j} : view'[k] = Staled({mon[j]}, view, mon)[k]
          /\ view'[j] = "none"
      BY <3>1, <3>4, StaledAgrees DEF TypeOK
    <3>6. \A k \in Job :
            \/ view'[k] = "none"
            \/ /\ view[k] # "none" /\ phase'[k] = phase[k]
               /\ \/ view'[k] = "stale"
                  \/ view'[k] = view[k]
                     /\ status'[mon'[k]] = status[mon[k]]
      <4> TAKE k \in Job
      <4>1. CASE k = j
        BY <3>5, <4>1
      <4>2. CASE k # j
        <5>1. /\ view'[k] = Staled({mon[j]}, view, mon)[k]
              /\ phase'[k] = phase[k] /\ mon'[k] = mon[k]
          BY <3>4, <3>5, <4>2 DEF TypeOK
        <5> QED
          BY <3>1, <3>3, <5>1, JobViewStaled
      <4> QED
        BY <4>1, <4>2
    <3>7. \A q \in Request :
            \/ rview'[q] = "none"
            \/ /\ rview[q] # "none" /\ rphase'[q] = rphase[q]
               /\ \/ rview'[q] = "stale"
                  \/ rview'[q] = rview[q]
                     /\ status'[rmon'[q]] = status[rmon[q]]
      <4> TAKE q \in Request
      <4>1. /\ rview'[q] = Staled({mon[j]}, rview, rmon)[q]
            /\ rphase'[q] = rphase[q] /\ rmon'[q] = rmon[q]
        BY <3>4
      <4> QED
        BY <3>1, <3>3, <4>1, RequestViewStaled
    <3> QED
      BY <3>2, <3>6, <3>7, ViewsKept
  <2>6. CASE EnqueueNotifications(j)
    BY <2>6, <1>b DEF EnqueueNotifications, rowVars, reqVars, TypeOK
  <2>7. CASE Raise(j)
    BY <2>7, <1>b DEF Raise, rowVars, reqVars, TypeOK, Missing
  <2>8. CASE DeadLetter(j)
    BY <2>8, <1>b DEF DeadLetter, rowVars, reqVars, TypeOK
  <2>9. CASE MarkMonitorError(j)
    <3>1. phase[j] = "marking" /\ mon[j] \in Monitor
      BY <2>9 DEF MarkMonitorError, TypeOK
    <3>2. phase' = [phase EXCEPT ![j] = "releasing"] /\ UNCHANGED <<mon, rphase, rmon>>
      BY <2>9 DEF MarkMonitorError
    <3>3. CASE Present(mon[j])
      <4>1. Write(mon[j], "error", NoTime) /\ StaleOthers(mon[j])
        BY <2>9, <3>3 DEF MarkMonitorError
      <4>2. ActiveIsScheduled' /\ StoppedIsIdle'
        BY <3>1, <4>1, WriteKeepsRowInv DEF Status, Time
      <4>3. \A m \in Monitor \ {mon[j]} : status'[m] = status[m]
        BY <4>1 DEF Write, TypeOK
      <4>4. \A k \in Job :
              \/ view'[k] = "none"
              \/ /\ view[k] # "none" /\ phase'[k] = phase[k]
                 /\ \/ view'[k] = "stale"
                    \/ view'[k] = view[k]
                       /\ status'[mon'[k]] = status[mon[k]]
        <5> TAKE k \in Job
        <5>1. view[k] # "none" => mon[k] \in Monitor /\ k # j
          BY <3>1 DEF TypeOK
        <5> QED
          BY <3>2, <4>1, <4>3, <5>1, StaledAgrees DEF StaleOthers, TypeOK
      <4>5. \A q \in Request :
              \/ rview'[q] = "none"
              \/ /\ rview[q] # "none" /\ rphase'[q] = rphase[q]
                 /\ \/ rview'[q] = "stale"
                    \/ rview'[q] = rview[q]
                       /\ status'[rmon'[q]] = status[rmon[q]]
        <5> TAKE q \in Request
        <5>1. rview[q] # "none" => rmon[q] \in Monitor
          BY DEF TypeOK
        <5> QED
          BY <3>2, <4>1, <4>3, <5>1, StaledAgrees DEF StaleOthers, TypeOK
      <4> QED
        BY <4>2, <4>4, <4>5, ViewsKept
    <3>4. CASE ~Present(mon[j])
      BY <2>9, <3>1, <3>2, <3>4, <1>b DEF MarkMonitorError, rowVars, TypeOK
    <3> QED
      BY <3>3, <3>4
  <2>10. CASE Release(j)
    BY <2>0, <2>10, <1>b DEF Release, Leaving, rowVars, reqVars, TypeOK
  <2>11. CASE TimeOut(j)
    <3>1. CASE phase[j] \in Outside /\ Finish(j)
      BY <2>11, <3>1, <1>b DEF TimeOut, Finish, Outside, rowVars, reqVars,
           TypeOK, Missing
    <3>2. CASE ~(phase[j] \in Outside /\ Finish(j))
      BY <2>11, <3>2, <1>b DEF TimeOut, rowVars, reqVars, TypeOK, Missing
    <3> QED
      BY <3>1, <3>2
  <2> QED
    BY <1>6, <2>1, <2>2, <2>3, <2>4, <2>5, <2>6, <2>7, <2>8, <2>9, <2>10,
       <2>11 DEF JobStep
<1>7. ASSUME NEW j \in Job,
             ResultExpires(j) \/ RenewView(j) \/ Cancel(j) \/ RunAgain(j)
      PROVE  RowInv'
  BY <1>7, <1>b DEF ResultExpires, RenewView, Cancel, RunAgain, Present,
       rowVars, reqVars, TypeOK, Missing
<1>8. ASSUME NEW j \in Job, NEW m \in Monitor,
             EnqueueClaimed(j, m) \/ EnqueueManual(j, m)
      PROVE  RowInv'
  BY <1>8, <1>b DEF EnqueueClaimed, EnqueueManual, Enqueue, rowVars, reqVars,
       TypeOK
<1>9. ASSUME NEW r \in Request,
             \/ \E m \in Monitor, p \in {"editing", "checking"} :
                  OpenRequest(r, m, p)
             \/ RenewRequestView(r) \/ SaveEdit(r) \/ SoftDelete(r) \/ CommitApiCheck(r)
             \/ FailRequest(r)
      PROVE  RowInv'
  <2>0. ASSUME CommitRequest(r), rphase[r] # "idle",
               \A m \in Monitor \ {rmon[r]} : status'[m] = status[m]
        PROVE  ViewsAgree' /\ ViewsPresent'
    <3>1. rmon[r] \in Monitor
      BY <2>0 DEF TypeOK
    <3>2. /\ view' = Staled({rmon[r]}, view, mon)
          /\ rphase' = [rphase EXCEPT ![r] = "idle"]
          /\ rmon' = [rmon EXCEPT ![r] = NoMonitor]
          /\ rview' = [Staled({rmon[r]}, rview, rmon) EXCEPT ![r] = "none"]
          /\ UNCHANGED <<phase, mon>>
      BY <2>0 DEF CommitRequest, EndRequest
    <3>3. /\ \A q \in Request \ {r} :
              rview'[q] = Staled({rmon[r]}, rview, rmon)[q]
          /\ rview'[r] = "none"
      BY <3>1, <3>2, StaledAgrees DEF TypeOK
    <3>4. \A k \in Job :
            \/ view'[k] = "none"
            \/ /\ view[k] # "none" /\ phase'[k] = phase[k]
               /\ \/ view'[k] = "stale"
                  \/ view'[k] = view[k]
                     /\ status'[mon'[k]] = status[mon[k]]
      <4> TAKE k \in Job
      <4>1. /\ view'[k] = Staled({rmon[r]}, view, mon)[k]
            /\ phase'[k] = phase[k] /\ mon'[k] = mon[k]
        BY <3>2
      <4> QED
        BY <2>0, <3>1, <4>1, JobViewStaled
    <3>5. \A q \in Request :
            \/ rview'[q] = "none"
            \/ /\ rview[q] # "none" /\ rphase'[q] = rphase[q]
               /\ \/ rview'[q] = "stale"
                  \/ rview'[q] = rview[q]
                     /\ status'[rmon'[q]] = status[rmon[q]]
      <4> TAKE q \in Request
      <4>1. CASE q = r
        BY <3>3, <4>1
      <4>2. CASE q # r
        <5>1. /\ rview'[q] = Staled({rmon[r]}, rview, rmon)[q]
              /\ rphase'[q] = rphase[q] /\ rmon'[q] = rmon[q]
          BY <3>2, <3>3, <4>2 DEF TypeOK
        <5> QED
          BY <2>0, <3>1, <5>1, RequestViewStaled
      <4> QED
        BY <4>1, <4>2
    <3> QED
      BY <3>4, <3>5, ViewsKept
  <2>1. ASSUME NEW m \in Monitor, NEW p \in {"editing", "checking"},
               OpenRequest(r, m, p)
        PROVE  RowInv'
    BY <2>1, <1>b DEF OpenRequest, Present, rowVars, jobVars, TypeOK
  <2>2. CASE SaveEdit(r)
    <3>1. /\ rphase[r] = "editing" /\ Current(rview[r])
          /\ CommitRequest(r) /\ rmon[r] \in Monitor
      BY <2>2 DEF SaveEdit, TypeOK
    <3>2. PICK s \in EditStatus \cup {rview[r]},
               n \in {Interval, next[rmon[r]]} :
                 Write(rmon[r], s, NextAfterEdit(s, n))
      BY <2>2 DEF SaveEdit
    <3>3. rview[r] \notin Missing
      OBVIOUS
    <3>4. rview[r] = status[rmon[r]]
      BY <3>1
    <3>5. ActiveIsScheduled' /\ StoppedIsIdle'
      BY <3>1, <3>2, <3>3 DEF Write, NextAfterEdit, EditStatus, Missing,
           TypeOK, Time, ActiveIsScheduled, StoppedIsIdle
    <3>6. \A m \in Monitor \ {rmon[r]} : status'[m] = status[m]
      BY <3>2 DEF Write, TypeOK
    <3>7. rphase[r] # "idle"
      BY <3>1
    <3> QED
      BY <2>0, <3>1, <3>5, <3>6, <3>7
  <2>3. CASE SoftDelete(r)
    <3>0. rmon[r] \in Monitor /\ Write(rmon[r], "deleted", NoTime)
      BY <2>3 DEF SoftDelete, TypeOK
    <3>1. ActiveIsScheduled' /\ StoppedIsIdle'
      BY <3>0, WriteKeepsRowInv DEF Status, Time
    <3>2. \A m \in Monitor \ {rmon[r]} : status'[m] = status[m]
      BY <2>3 DEF SoftDelete, Write, TypeOK
    <3>3. rphase[r] # "idle" /\ CommitRequest(r)
      BY <2>3 DEF SoftDelete
    <3> QED
      BY <2>0, <3>1, <3>2, <3>3
  <2>4. CASE CommitApiCheck(r)
    <3>1. rmon[r] \in Monitor /\ status[rmon[r]] = "active"
      BY <2>4 DEF CommitApiCheck, CheckAccepted, TypeOK
    <3>2. ActiveIsScheduled' /\ StoppedIsIdle'
      BY <2>4, <3>1 DEF CommitApiCheck, CheckOutcome, Write, TypeOK, Time,
           ActiveIsScheduled, StoppedIsIdle
    <3> QED
      BY <2>0, <2>4, <3>2 DEF CommitApiCheck, CheckOutcome, Write, TypeOK
  <2>6. CASE RenewRequestView(r)
    BY <2>6, <1>b DEF RenewRequestView, Present, rowVars, jobVars, TypeOK
  <2>5. CASE FailRequest(r)
    BY <2>5, <1>b DEF FailRequest, EndRequest, rowVars, jobVars, TypeOK,
         Missing
  <2> QED
    BY <1>9, <2>1, <2>2, <2>3, <2>4, <2>5, <2>6
<1>10. CASE UNCHANGED vars
  BY <1>10, <1>a, <1>b DEF vars, rowVars
<1> QED
  BY <1>1, <1>2, <1>3, <1>4, <1>5, <1>6, <1>7, <1>8, <1>9, <1>10 DEF Next

(* It holds in every reachable state.                                      *)
LEMMA RowCorrect == Spec => []RowInv
<1>1. Init => RowInv
  BY DEF Init, RowInv, ViewsAgree, ViewsPresent, ActiveIsScheduled,
         StoppedIsIdle, Current, Missing
<1> QED
  BY <1>1, TypeCorrect, RowStep, PTL DEF Spec

(* An active monitor always has a next check, a paused or deleted one none. *)
THEOREM Scheduled == Spec => []NextFollowsStatus
<1>1. RowInv => NextFollowsStatus
  BY DEF RowInv, NextFollowsStatus
<1> QED
  BY <1>1, RowCorrect, PTL

(* A check, by the worker or by the internal API, is recorded only against *)
(* a monitor that is active when it commits.                               *)
THEOREM ChecksLandOnActive == Spec => CheckLandsOnActive
<1> DEFINE Lands ==
      /\ \A j \in Job :
           phase[j] = "fetching" /\ phase'[j] = "committed"
             => status[mon[j]] = "active"
      /\ \A r \in Request :
           rphase[r] = "checking" /\ rphase'[r] = "idle" /\ rowVars' # rowVars
             => status[rmon[r]] = "active"
<1>1. ASSUME TypeOK, RowInv, [Next]_vars
      PROVE  [Lands]_vars
  <2> USE <1>1 DEF RowInv, ViewsAgree, Current
  <2>1. ASSUME NEW j \in Job, phase[j] = "fetching", phase'[j] = "committed"
        PROVE  CommitCheck(j)
    <3>1. \A k \in Job : phase[k] = "fetching" /\ JobStep(k)
            => CommitCheck(k) \/ Raise(k) \/ TimeOut(k)
      BY DEF JobStep, Start, Acquire, Reschedule, OpenView,
           EnqueueNotifications, DeadLetter, MarkMonitorError, Release,
           Leaving
    <3>2. \A k \in Job : phase[k] = "fetching" /\ (Raise(k) \/ TimeOut(k))
            => phase'[k] # "committed"
      BY DEF Raise, TimeOut, Finish, Outside, Inside, TypeOK
    <3>3. \A k \in Job \ {j} : JobStep(k) => phase'[j] = phase[j]
      BY DEF JobStep, Start, Acquire, Reschedule, OpenView, CommitCheck,
           EnqueueNotifications, Raise, DeadLetter, MarkMonitorError,
           Release, TimeOut, Finish, TypeOK
    <3>4. ~Tick /\ ~SchedulerDies /\ ~Crash
          /\ (\A S \in SUBSET Monitor : ~ClaimDue(S))
          /\ (\A m \in Monitor : ~CreateMonitor(m))
      BY <2>1 DEF Tick, SchedulerDies, Crash, ClaimDue, CreateMonitor,
           jobVars, TypeOK
    <3>5. \A k \in Job : ~ResultExpires(k) /\ ~RenewView(k) /\ ~Cancel(k) /\ ~RunAgain(k)
            /\ \A m \in Monitor : ~EnqueueClaimed(k, m) /\ ~EnqueueManual(k, m)
      BY <2>1 DEF ResultExpires, RenewView, Cancel, RunAgain, EnqueueClaimed,
           EnqueueManual, Enqueue, TypeOK
    <3>6. \A r \in Request :
            /\ \A m \in Monitor, p \in {"editing", "checking"} :
                 ~OpenRequest(r, m, p)
            /\ ~RenewRequestView(r) /\ ~SaveEdit(r) /\ ~SoftDelete(r)
            /\ ~CommitApiCheck(r) /\ ~FailRequest(r)
      BY <2>1 DEF OpenRequest, RenewRequestView, SaveEdit, SoftDelete, CommitApiCheck,
           FailRequest, CommitRequest, jobVars
    <3>7. UNCHANGED vars => phase'[j] = phase[j]
      BY DEF vars
    <3> QED
      BY <2>1, <3>1, <3>2, <3>3, <3>4, <3>5, <3>6, <3>7 DEF Next
  <2>2. \A j \in Job : CommitCheck(j) => status[mon[j]] = "active"
    BY DEF CommitCheck, CheckAccepted
  <2>3. ASSUME NEW r \in Request, rphase[r] = "checking",
               rphase'[r] = "idle", rowVars' # rowVars
        PROVE  CommitApiCheck(r)
    <3>1. \A j \in Job : ~JobStep(j)
      BY <2>3 DEF JobStep, Start, Acquire, Reschedule, OpenView, CommitCheck,
           EnqueueNotifications, Raise, DeadLetter, MarkMonitorError,
           Release, TimeOut, reqVars
    <3>2. ~Tick /\ ~SchedulerDies /\ ~Crash
          /\ (\A S \in SUBSET Monitor : ~ClaimDue(S))
          /\ (\A m \in Monitor : ~CreateMonitor(m))
      BY <2>3 DEF Tick, SchedulerDies, Crash, ClaimDue, CreateMonitor, reqVars
    <3>3. \A k \in Job : ~ResultExpires(k) /\ ~RenewView(k) /\ ~Cancel(k) /\ ~RunAgain(k)
            /\ \A m \in Monitor : ~EnqueueClaimed(k, m) /\ ~EnqueueManual(k, m)
      BY <2>3 DEF ResultExpires, RenewView, Cancel, RunAgain, EnqueueClaimed,
           EnqueueManual, Enqueue, reqVars
    <3>4. \A q \in Request :
            /\ \A m \in Monitor, p \in {"editing", "checking"} :
                 ~OpenRequest(q, m, p)
            /\ ~RenewRequestView(q) /\ ~FailRequest(q)
      BY <2>3 DEF OpenRequest, RenewRequestView, FailRequest, rowVars
    <3>5. \A q \in Request \ {r} : CommitRequest(q) => rphase'[r] = rphase[r]
      BY DEF CommitRequest, EndRequest, TypeOK
    <3>6. \A q \in Request : SaveEdit(q) \/ SoftDelete(q) \/ CommitApiCheck(q)
            => CommitRequest(q) /\ (q = r => CommitApiCheck(r))
      BY <2>3 DEF SaveEdit, SoftDelete, CommitApiCheck
    <3>7. ~UNCHANGED vars
      BY <2>3 DEF vars, rowVars
    <3> QED
      BY <2>3, <3>1, <3>2, <3>3, <3>4, <3>5, <3>6, <3>7 DEF Next
  <2>4. \A r \in Request : CommitApiCheck(r) => status[rmon[r]] = "active"
    BY DEF CommitApiCheck, CheckAccepted
  <2> QED
    BY <2>1, <2>2, <2>3, <2>4
<1> QED
  BY <1>1, TypeCorrect, RowCorrect, PTL DEF Spec, CheckLandsOnActive

-----------------------------------------------------------------------------
(* An error is marked by a job on its last try.                            *)
LastTryMarks ==
  \A j \in Job : phase[j] \in {"dying", "marking"} => tries[j] = MaxTries

LEMMA LastTryStep ==
  ASSUME TypeOK, LastTryMarks, [Next]_vars
  PROVE  LastTryMarks'
<1> SUFFICES ASSUME NEW k \in Job, phase'[k] \in {"dying", "marking"}
             PROVE  tries'[k] = MaxTries
  BY DEF LastTryMarks
<1>a. ASSUME UNCHANGED <<phase, tries>>
      PROVE  tries'[k] = MaxTries
  BY <1>a DEF LastTryMarks
<1>b. ASSUME NEW j \in Job, j # k,
             phase'[k] = phase[k], tries'[k] = tries[k]
      PROVE  tries'[k] = MaxTries
  BY <1>b DEF LastTryMarks
<1>1. CASE UNCHANGED vars \/ Tick \/ SchedulerDies
  BY <1>1, <1>a DEF vars, Tick, SchedulerDies, jobVars
<1>2. CASE Crash
  BY <1>2 DEF Crash, LastTryMarks
<1>3. CASE \/ \E S \in SUBSET Monitor : ClaimDue(S)
           \/ \E m \in Monitor : CreateMonitor(m)
  BY <1>3, <1>a DEF ClaimDue, CreateMonitor, jobVars
<1>4. ASSUME NEW r \in Request,
             \/ \E m \in Monitor, p \in {"editing", "checking"} :
                  OpenRequest(r, m, p)
             \/ RenewRequestView(r) \/ SaveEdit(r) \/ SoftDelete(r)
             \/ CommitApiCheck(r) \/ FailRequest(r)
      PROVE  tries'[k] = MaxTries
  BY <1>4, <1>a DEF OpenRequest, RenewRequestView, SaveEdit, SoftDelete,
       CommitApiCheck, CommitRequest, FailRequest, jobVars
<1>5. ASSUME NEW j \in Job, JobStep(j)
      PROVE  tries'[k] = MaxTries
  <2>1. CASE j = k
    <3>1. ~(Start(k) \/ Acquire(k) \/ Reschedule(k) \/ OpenView(k)
            \/ CommitCheck(k) \/ EnqueueNotifications(k)
            \/ MarkMonitorError(k) \/ Release(k) \/ TimeOut(k))
      BY DEF Start, Acquire, Reschedule, OpenView, CommitCheck,
           EnqueueNotifications, MarkMonitorError, Release, TimeOut, Finish,
           TypeOK
    <3>2. CASE Raise(k)
      <4>1. IsFinalTry(k) /\ tries' = tries
        BY <3>2 DEF Raise, TypeOK
      <4> QED
        BY <4>1 DEF IsFinalTry, TypeOK
    <3>3. CASE DeadLetter(k)
      BY <3>3 DEF DeadLetter, LastTryMarks
    <3> QED
      BY <1>5, <2>1, <3>1, <3>2, <3>3 DEF JobStep
  <2>2. CASE j # k
    <3>1. phase'[k] = phase[k] /\ tries'[k] = tries[k]
      BY <1>5, <2>2 DEF JobStep, Start, Acquire, Reschedule, OpenView,
           CommitCheck, EnqueueNotifications, Raise, DeadLetter,
           MarkMonitorError, Release, TimeOut, Finish, TypeOK
    <3> QED
      BY <1>b, <2>2, <3>1
  <2> QED
    BY <2>1, <2>2
<1>6. ASSUME NEW j \in Job, \/ ResultExpires(j) \/ RenewView(j) \/ Cancel(j)
                            \/ RunAgain(j)
                            \/ \E m \in Monitor : EnqueueClaimed(j, m)
                            \/ \E m \in Monitor : EnqueueManual(j, m)
      PROVE  tries'[k] = MaxTries
  <2>1. tries' = tries
    BY <1>6 DEF ResultExpires, RenewView, Cancel, RunAgain, EnqueueClaimed,
         EnqueueManual, Enqueue
  <2>2. phase'[k] = phase[k]
    BY <1>6 DEF ResultExpires, RenewView, Cancel, RunAgain, EnqueueClaimed,
         EnqueueManual, Enqueue, TypeOK
  <2> QED
    BY <2>1, <2>2 DEF LastTryMarks
<1> QED
  BY <1>1, <1>2, <1>3, <1>4, <1>5, <1>6 DEF Next

(* A monitor that its user has stopped is restarted only by an edit; the   *)
(* one other step that changes its status is the error mark of a job on    *)
(* its last try.                                                           *)
THEOREM StoppedStays == Spec => StoppedStaysStopped
<1> DEFINE Changed(m) ==
      status[m] \notin {"absent", "active"} /\ status'[m] # status[m]
           Allowed(m) ==
      \/ \E r \in Request : rphase[r] = "editing" /\ rmon[r] = m
      \/ /\ status'[m] = "error"
         /\ \E j \in Job : /\ phase[j] = "marking"
                           /\ mon[j] = m
                           /\ tries[j] = MaxTries
<1>1. Init => LastTryMarks
  BY DEF Init, LastTryMarks
<1>2. ASSUME TypeOK, RowInv, LastTryMarks, [Next]_vars,
             NEW m \in Monitor, Changed(m)
      PROVE  Allowed(m)
  <2>1. ASSUME NEW j \in Job, JobStep(j)
        PROVE  Allowed(m)
    <3>1. CASE CommitCheck(j)
      <4>1. status[mon[j]] = "active"
        BY <1>2, <3>1
           DEF CommitCheck, CheckAccepted, RowInv, ViewsAgree, Current
      <4>2. mon[j] = m
        BY <1>2, <3>1 DEF CommitCheck, CheckOutcome, Write, TypeOK
      <4> QED
        BY <1>2, <4>1, <4>2
    <3>2. CASE MarkMonitorError(j)
      <4>1. /\ phase[j] = "marking" /\ tries[j] = MaxTries
            /\ status' = [status EXCEPT ![mon[j]] = "error"]
        BY <1>2, <3>2 DEF MarkMonitorError, Write, rowVars, LastTryMarks
      <4>2. mon[j] = m /\ status'[m] = "error"
        BY <1>2, <4>1 DEF TypeOK
      <4> QED
        BY <4>1, <4>2
    <3>3. CASE \/ Start(j) \/ Acquire(j) \/ Reschedule(j) \/ OpenView(j)
               \/ EnqueueNotifications(j) \/ Raise(j) \/ DeadLetter(j)
               \/ Release(j) \/ TimeOut(j)
      BY <1>2, <3>3 DEF Start, Acquire, Reschedule, OpenView,
           EnqueueNotifications, Raise, DeadLetter, Release, TimeOut, rowVars
    <3> QED
      BY <2>1, <3>1, <3>2, <3>3 DEF JobStep
  <2>2. ASSUME NEW r \in Request, SaveEdit(r) \/ SoftDelete(r)
        PROVE  Allowed(m)
    <3>1. rphase[r] = "editing" /\ rmon[r] = m
      BY <1>2, <2>2 DEF SaveEdit, SoftDelete, Write, TypeOK
    <3> QED
      BY <3>1
  <2>3. ASSUME NEW r \in Request, CommitApiCheck(r)
        PROVE  FALSE
    <3>1. status[rmon[r]] = "active"
      BY <1>2, <2>3
         DEF CommitApiCheck, CheckAccepted, RowInv, ViewsAgree, Current
    <3>2. rmon[r] = m
      BY <1>2, <2>3 DEF CommitApiCheck, CheckOutcome, Write, TypeOK
    <3> QED
      BY <1>2, <3>1, <3>2
  <2>4. ASSUME NEW n \in Monitor, CreateMonitor(n)
        PROVE  FALSE
    BY <1>2, <2>4 DEF CreateMonitor, Write, TypeOK
  <2>5. ASSUME NEW r \in Request,
               \/ \E n \in Monitor, p \in {"editing", "checking"} :
                    OpenRequest(r, n, p)
               \/ RenewRequestView(r) \/ FailRequest(r)
        PROVE  FALSE
    BY <1>2, <2>5 DEF OpenRequest, RenewRequestView, FailRequest, rowVars
  <2>6. ASSUME NEW j \in Job, \/ ResultExpires(j) \/ RenewView(j) \/ Cancel(j)
                              \/ RunAgain(j)
                              \/ \E n \in Monitor : EnqueueClaimed(j, n)
                              \/ \E n \in Monitor : EnqueueManual(j, n)
        PROVE  FALSE
    BY <1>2, <2>6 DEF ResultExpires, RenewView, Cancel, RunAgain,
         EnqueueClaimed, EnqueueManual, Enqueue, rowVars
  <2>7. ~(UNCHANGED vars) /\ ~Tick /\ ~SchedulerDies /\ ~Crash
        /\ ~(\E S \in SUBSET Monitor : ClaimDue(S))
    BY <1>2 DEF vars, Tick, SchedulerDies, Crash, ClaimDue, rowVars
  <2> QED
    BY <1>2, <2>1, <2>2, <2>3, <2>4, <2>5, <2>6, <2>7 DEF Next
<1>3. TypeOK /\ RowInv /\ LastTryMarks /\ [Next]_vars
        => [\A m \in Monitor : Changed(m) => Allowed(m)]_vars
  BY <1>2
<1>4. TypeOK /\ LastTryMarks /\ [Next]_vars => LastTryMarks'
  BY LastTryStep
<1> QED
  BY <1>1, <1>3, <1>4, TypeCorrect, RowCorrect, PTL
     DEF Spec, StoppedStaysStopped
=============================================================================
