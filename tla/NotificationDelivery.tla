------------------------- MODULE NotificationDelivery -------------------------
(***************************************************************************)
(* The life of a notification row, from the commit of the price check that *)
(* creates it to the last run of the arq job send_notification.            *)
(*                                                                         *)
(* The row is committed before the job is enqueued, and "processing" is    *)
(* committed before the message is sent, so a fault may fall between any   *)
(* two of these steps.  arq runs the job again when it raises Retry, and   *)
(* after a shutdown or a crash; not after a timeout or any other error.    *)
(* The message is sent by a thread that a cancelled job leaves behind.     *)
(*                                                                         *)
(* The delay before a retry is not modelled: a retry may run at any time.  *)
(***************************************************************************)
EXTENDS Naturals, FiniteSets

CONSTANTS
  Notification, \* ids of notifications
  MaxTries,     \* notification_max_retries
  MaxFaults     \* bound: faults in one behaviour

ASSUME DeliveryAssumption ==
  /\ MaxTries \in Nat \ {0}
  /\ MaxFaults \in Nat

VARIABLES
  row,       \* notifications.status; "absent" before the row
  producer,  \* who still has the id to enqueue: the worker's check, or nobody
  job,       \* where the job send_notification:<id> is
  tries,     \* arq job_try
  thread,    \* a thread left behind by a cancelled job still talks to SMTP
  copies,    \* messages that have left for the user
  errors,    \* history: tries that ended in a reported delivery error
  dead,      \* ids in dead:notifications
  faults     \* faults so far

deliveryVars == <<thread, copies, errors>>
vars == <<row, producer, job, tries, deliveryVars, dead, faults>>

RowStatus == {"absent", "pending", "processing", "sent", "failed", "skipped"}
Running == {"starting", "sending", "delivered", "refused", "failing",
            "burying", "ending"}
JobPhase == Running \cup {"none", "queued", "orphan", "over"}

Init ==
  /\ row = [n \in Notification |-> "absent"]
  /\ producer = [n \in Notification |-> "nobody"]
  /\ job = [n \in Notification |-> "none"]
  /\ tries = [n \in Notification |-> 0]
  /\ thread = [n \in Notification |-> FALSE]
  /\ copies = [n \in Notification |-> 0]
  /\ errors = [n \in Notification |-> 0]
  /\ dead = {}
  /\ faults = 0

Goto(n, p) == job' = [job EXCEPT ![n] = p]

Fault ==
  /\ faults < MaxFaults
  /\ faults' = faults + 1

-----------------------------------------------------------------------------
(* The price check commits the pending row.  The worker's check keeps the  *)
(* id; the internal API runs run_check, which drops it.                    *)
CommitAlert(n, who) ==
  /\ row[n] = "absent"
  /\ row' = [row EXCEPT ![n] = "pending"]
  /\ producer' = [producer EXCEPT ![n] = who]
  /\ UNCHANGED <<job, tries, deliveryVars, dead, faults>>

(* enqueue_job with the id send_notification:<id>, which is used once.     *)
EnqueueNotification(n) ==
  /\ producer[n] = "worker"
  /\ producer' = [producer EXCEPT ![n] = "nobody"]
  /\ Goto(n, "queued")
  /\ UNCHANGED <<row, tries, deliveryVars, dead, faults>>

(* The check's job fails on Redis, times out, is cancelled or crashes      *)
(* between its commit and the enqueue.                                     *)
ProducerDies(n) ==
  /\ producer[n] = "worker"
  /\ Fault
  /\ producer' = [producer EXCEPT ![n] = "nobody"]
  /\ UNCHANGED <<row, job, tries, deliveryVars, dead>>

-----------------------------------------------------------------------------
(* arq drops a job past its last try.  The variant runs it once more.      *)
ExhaustedLate(n) == tries[n] > MaxTries
Exhausted(n) == tries[n] >= MaxTries

Start(n) ==
  /\ job[n] = "queued"
  /\ IF Exhausted(n)
     THEN Goto(n, "over") /\ UNCHANGED tries
     ELSE /\ Goto(n, "starting")
          /\ tries' = [tries EXCEPT ![n] = @ + 1]
  /\ UNCHANGED <<row, producer, deliveryVars, dead, faults>>

(* The statuses from which a run goes on.  The variants take up a row that *)
(* another run left in processing, and one already sent.                   *)
DeliverableAgain == {"pending", "failed", "processing"}
DeliverableSent == {"pending", "failed", "sent"}
Deliverable == {"pending", "failed"}

(* get_for_update, the two guards, and mark_processing with its commit.    *)
Open(n) ==
  /\ job[n] = "starting"
  /\ IF row[n] \in Deliverable
     THEN /\ row' = [row EXCEPT ![n] = "processing"]
          /\ Goto(n, "sending")
     ELSE Goto(n, "over") /\ UNCHANGED row
  /\ UNCHANGED <<producer, tries, deliveryVars, dead, faults>>

Leave(n) == copies' = [copies EXCEPT ![n] = @ + 1]

SendSucceeds(n) ==
  /\ job[n] = "sending"
  /\ Leave(n)
  /\ Goto(n, "delivered")
  /\ UNCHANGED <<row, producer, tries, thread, errors, dead, faults>>

(* NotificationSkipped: no provider for the channel, not configured, or no *)
(* recipient.  Nothing has been sent.                                      *)
SendRefused(n) ==
  /\ job[n] = "sending"
  /\ Goto(n, "refused")
  /\ UNCHANGED <<row, producer, tries, deliveryVars, dead, faults>>

(* Any other exception; the server may have taken the message before it.   *)
SendFails(n) ==
  /\ job[n] = "sending"
  /\ Leave(n) \/ UNCHANGED copies
  /\ errors' = [errors EXCEPT ![n] = @ + 1]
  /\ Goto(n, "failing")
  /\ UNCHANGED <<row, producer, tries, thread, dead, faults>>

(* The new status is committed.  The variant forgets the commit.           *)
Unmarked(n, status) == UNCHANGED row
Mark(n, status) == row' = [row EXCEPT ![n] = status]

MarkSent(n) ==
  /\ job[n] = "delivered"
  /\ Mark(n, "sent")
  /\ Goto(n, "ending")
  /\ UNCHANGED <<producer, tries, deliveryVars, dead, faults>>

MarkSkipped(n) ==
  /\ job[n] = "refused"
  /\ Mark(n, "skipped")
  /\ Goto(n, "ending")
  /\ UNCHANGED <<producer, tries, deliveryVars, dead, faults>>

(* The row is final; arq removes the job.                                  *)
Finish(n) ==
  /\ job[n] = "ending"
  /\ Goto(n, "over")
  /\ UNCHANGED <<row, producer, tries, deliveryVars, dead, faults>>

(* The variant never finds the last try to be final.                       *)
IsFinalTryLate(n) == tries[n] > MaxTries
IsFinalTry(n) == tries[n] >= MaxTries

(* mark_failed, then Retry: at once, or after the dead letter.             *)
MarkFailed(n) ==
  /\ job[n] = "failing"
  /\ Mark(n, "failed")
  /\ Goto(n, IF IsFinalTry(n) THEN "burying" ELSE "queued")
  /\ UNCHANGED <<producer, tries, deliveryVars, dead, faults>>

DeadLetter(n) ==
  /\ job[n] = "burying"
  /\ dead' = dead \cup {n}
  /\ Goto(n, "queued")
  /\ UNCHANGED <<row, producer, tries, deliveryVars, faults>>

-----------------------------------------------------------------------------
(* Faults.                                                                 *)

(* The database or Redis fails outside the try around send: arq records    *)
(* the error and does not run the job again.                               *)
Break(n) ==
  /\ job[n] \in Running \ {"sending"}
  /\ Fault
  /\ Goto(n, "over")
  /\ UNCHANGED <<row, producer, tries, deliveryVars, dead>>

(* The SMTP thread outlives the job.                                       *)
LeaveThread(n) == thread' = [thread EXCEPT ![n] = job[n] = "sending"]

(* The job's 60 seconds are over; a timeout is not retried either.         *)
TimeOut(n) ==
  /\ job[n] \in Running
  /\ Fault
  /\ LeaveThread(n)
  /\ Goto(n, "over")
  /\ UNCHANGED <<row, producer, tries, copies, errors, dead>>

(* The worker shuts down: the job is run again.                            *)
Cancel(n) ==
  /\ job[n] \in Running
  /\ Fault
  /\ LeaveThread(n)
  /\ Goto(n, "queued")
  /\ UNCHANGED <<row, producer, tries, copies, errors, dead>>

(* The worker process dies, with every job, thread and check in it.  The   *)
(* jobs run again when their in-progress keys have expired.                *)
Crash ==
  /\ \E n \in Notification : job[n] \in Running
  /\ Fault
  /\ job' = [n \in Notification |-> IF job[n] \in Running THEN "orphan"
                                                         ELSE job[n]]
  /\ thread' = [n \in Notification |-> FALSE]
  /\ producer' = [n \in Notification |-> "nobody"]
  /\ UNCHANGED <<row, tries, copies, errors, dead>>

RunAgain(n) ==
  /\ job[n] = "orphan"
  /\ Goto(n, "queued")
  /\ UNCHANGED <<row, producer, tries, deliveryVars, dead, faults>>

ThreadEnds(n) ==
  /\ thread[n]
  /\ thread' = [thread EXCEPT ![n] = FALSE]
  /\ Leave(n) \/ UNCHANGED copies
  /\ UNCHANGED <<row, producer, job, tries, errors, dead, faults>>

-----------------------------------------------------------------------------
JobStep(n) ==
  \/ Start(n) \/ Open(n) \/ SendSucceeds(n) \/ SendRefused(n) \/ SendFails(n)
  \/ MarkSent(n) \/ MarkSkipped(n) \/ Finish(n) \/ MarkFailed(n)
  \/ DeadLetter(n)

Next ==
  \/ Crash
  \/ \E n \in Notification :
       \/ \E who \in {"worker", "nobody"} : CommitAlert(n, who)
       \/ EnqueueNotification(n)
       \/ ProducerDies(n)
       \/ JobStep(n)
       \/ Break(n) \/ TimeOut(n) \/ Cancel(n)
       \/ RunAgain(n)
       \/ ThreadEnds(n)

Spec == Init /\ [][Next]_vars

(* A running worker goes on with its check and its jobs, and arq polls its *)
(* queue.                                                                  *)
Fairness ==
  \A n \in Notification :
    /\ WF_vars(EnqueueNotification(n))
    /\ WF_vars(JobStep(n))
    /\ WF_vars(RunAgain(n))

FairSpec == Spec /\ Fairness
-----------------------------------------------------------------------------
(* Every variable has its type; tries, errors and copies stay in bounds.   *)
TypeOK ==
  /\ row \in [Notification -> RowStatus]
  /\ producer \in [Notification -> {"worker", "nobody"}]
  /\ job \in [Notification -> JobPhase]
  /\ tries \in [Notification -> 0..MaxTries]
  /\ thread \in [Notification -> BOOLEAN]
  /\ copies \in [Notification -> 0..MaxTries]
  /\ errors \in [Notification -> 0..MaxTries]
  /\ dead \in SUBSET Notification
  /\ faults \in 0..MaxFaults

(* A message leaves again only after a try that reported an error: neither *)
(* a crash, a shutdown nor a timeout after processing makes a second copy. *)
ResentOnlyAfterError ==
  \A n \in Notification : copies[n] <= errors[n] + 1

(* Once the row says sent or skipped, nothing more leaves, even if the job *)
(* runs again or a thread was left behind.                                 *)
NothingAfterTheEnd ==
  [][\A n \in Notification :
       row[n] \in {"sent", "skipped"}
         => copies'[n] = copies[n] /\ row'[n] = row[n]]_vars

(* A notification whose job has used up its tries and left it failed is in *)
(* dead:notifications, unless a fault struck.                              *)
FailureIsDeadLettered ==
  \A n \in Notification :
    row[n] = "failed" /\ job[n] = "over" => n \in dead \/ faults > 0

(* Without faults, an alert created by the worker reaches a terminal       *)
(* status and its job ends.                                                *)
DeliveredWithoutFaults ==
  \A n \in Notification :
    producer[n] = "worker"
      ~> \/ row[n] \in {"sent", "failed", "skipped"} /\ job[n] = "over"
         \/ faults > 0

(* docs/NOTIFICATION_SERVICE.md: sent, failed, skipped and duplicated are  *)
(* the terminal statuses; processing is an internal one that the job       *)
(* replaces by a terminal one (data flow 7).                               *)
ProcessingEnds ==
  \A n \in Notification : row[n] = "processing" ~> row[n] # "processing"

(* The refinement: an alert is abandoned when its row is in no final       *)
(* status and neither a check nor a job will go on with it.                *)
Outcome(n) ==
  IF row[n] = "absent" THEN "none"
  ELSE IF row[n] \in {"sent", "skipped"} THEN row[n]
  ELSE IF producer[n] = "worker" \/ job[n] \notin {"none", "over"} THEN "open"
  ELSE "abandoned"

Promise == INSTANCE AlertDelivery WITH
  Alert <- Notification,
  MaxCopies <- MaxTries,
  outcome <- [n \in Notification |-> Outcome(n)]

(* The code keeps the promise of AlertDelivery, safety and liveness.       *)
KeepsPromise == Promise!FairSpec
=============================================================================
