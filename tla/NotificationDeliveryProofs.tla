---------------------- MODULE NotificationDeliveryProofs ----------------------
(* Proofs about NotificationDelivery, for any number of notifications,     *)
(* tries and faults.                                                       *)
EXTENDS NotificationDelivery, TLAPS

(* Where a row stands, by the phase of its job.                            *)
RowOfPhase ==
  \A n \in Notification :
    /\ job[n] \in {"sending", "delivered", "refused", "failing"}
         => row[n] = "processing"
    /\ job[n] = "burying" => row[n] = "failed"
    /\ job[n] = "ending" => row[n] \in {"sent", "skipped"}
    /\ row[n] = "absent" => job[n] = "none"
    /\ producer[n] = "worker" => row[n] = "pending" /\ job[n] = "none"

(* What has left and what may still leave, against the errors reported and *)
(* the tries made: a copy that no error accounts for means that the row is *)
(* not deliverable any more.                                               *)
Account ==
  \A n \in Notification :
    /\ errors[n] <= tries[n]
    /\ copies[n] <= errors[n] + 1
    /\ copies[n] <= tries[n]
    /\ row[n] \in {"absent", "pending", "failed"} => copies[n] <= errors[n]
    /\ row[n] = "sent" => copies[n] > 0
    /\ thread[n] => /\ row[n] = "processing"
                    /\ copies[n] <= errors[n] /\ errors[n] < tries[n]
                    /\ job[n] \notin Running \ {"starting"}
    /\ job[n] \in {"sending", "refused"}
         => copies[n] <= errors[n] /\ errors[n] < tries[n]
    /\ job[n] = "delivered" => copies[n] > 0 /\ errors[n] < tries[n]
    /\ job[n] = "failing" => copies[n] <= errors[n]
    /\ job[n] = "starting" /\ row[n] \in {"pending", "failed"}
         => errors[n] < tries[n]

DeliveryInv == TypeOK /\ RowOfPhase /\ Account

(* Every step keeps the types, the phases and the account.                 *)
LEMMA DeliveryStep ==
  ASSUME DeliveryInv, [Next]_vars
  PROVE  DeliveryInv'
<1> USE DeliveryAssumption
      DEF DeliveryInv, TypeOK, RowOfPhase, Account, RowStatus, JobPhase,
          Running, deliveryVars
<1>1. CASE Crash
  BY <1>1 DEF Crash, Fault
<1>2. ASSUME NEW n \in Notification, NEW who \in {"worker", "nobody"},
             CommitAlert(n, who)
      PROVE  DeliveryInv'
  BY <1>2 DEF CommitAlert
<1>3. ASSUME NEW n \in Notification,
             EnqueueNotification(n) \/ ProducerDies(n)
      PROVE  DeliveryInv'
  BY <1>3 DEF EnqueueNotification, ProducerDies, Goto, Fault
<1>4. ASSUME NEW n \in Notification, JobStep(n)
      PROVE  DeliveryInv'
  <2>1. CASE Start(n)
    BY <2>1 DEF Start, Exhausted, Goto
  <2>2. CASE Open(n)
    BY <2>2 DEF Open, Deliverable, Goto
  <2>3. CASE SendSucceeds(n)
    BY <2>3 DEF SendSucceeds, Leave, Goto
  <2>4. CASE SendRefused(n)
    BY <2>4 DEF SendRefused, Goto
  <2>5. CASE SendFails(n)
    BY <2>5 DEF SendFails, Leave, Goto
  <2>6. CASE MarkSent(n) \/ MarkSkipped(n)
    BY <2>6 DEF MarkSent, MarkSkipped, Mark, Goto
  <2>7. CASE Finish(n) \/ DeadLetter(n)
    BY <2>7 DEF Finish, DeadLetter, Goto
  <2>8. CASE MarkFailed(n)
    BY <2>8 DEF MarkFailed, Mark, IsFinalTry, Goto
  <2> QED
    BY <1>4, <2>1, <2>2, <2>3, <2>4, <2>5, <2>6, <2>7, <2>8 DEF JobStep
<1>5. ASSUME NEW n \in Notification,
             Break(n) \/ TimeOut(n) \/ Cancel(n)
      PROVE  DeliveryInv'
  <2>1. CASE Break(n)
    BY <2>1 DEF Break, Fault, Goto
  <2>2. CASE TimeOut(n)
    BY <2>2 DEF TimeOut, LeaveThread, Fault, Goto
  <2>3. CASE Cancel(n)
    BY <2>3 DEF Cancel, LeaveThread, Fault, Goto
  <2> QED
    BY <1>5, <2>1, <2>2, <2>3
<1>6. ASSUME NEW n \in Notification, RunAgain(n) \/ ThreadEnds(n)
      PROVE  DeliveryInv'
  <2>1. CASE RunAgain(n)
    BY <2>1 DEF RunAgain, Goto
  <2>2. CASE ThreadEnds(n)
    BY <2>2 DEF ThreadEnds, Leave
  <2> QED
    BY <1>6, <2>1, <2>2
<1>7. CASE UNCHANGED vars
  BY <1>7 DEF vars
<1> QED
  BY <1>1, <1>2, <1>3, <1>4, <1>5, <1>6, <1>7 DEF Next

(* They hold in every reachable state.                                     *)
LEMMA DeliveryInvariant == Spec => []DeliveryInv
<1>1. Init => DeliveryInv
  BY DeliveryAssumption
     DEF Init, DeliveryInv, TypeOK, RowOfPhase, Account, RowStatus, JobPhase,
         Running
<1> QED
  BY <1>1, DeliveryStep, PTL DEF Spec

(* Every variable has its type; at most MaxTries copies leave.             *)
THEOREM TypeCorrect == Spec => []TypeOK
<1>1. DeliveryInv => TypeOK
  BY DEF DeliveryInv
<1> QED
  BY <1>1, DeliveryInvariant, PTL

(* A message leaves again only after a try that reported an error.         *)
THEOREM OneCopyPerError == Spec => []ResentOnlyAfterError
<1>1. DeliveryInv => ResentOnlyAfterError
  BY DEF DeliveryInv, Account, ResentOnlyAfterError
<1> QED
  BY <1>1, DeliveryInvariant, PTL

-----------------------------------------------------------------------------
(* A row that is sent or skipped stays so, and no copy leaves for it.      *)
LEMMA FinalStays ==
  ASSUME DeliveryInv, [Next]_vars,
         NEW n \in Notification, row[n] \in {"sent", "skipped"}
  PROVE  copies'[n] = copies[n] /\ row'[n] = row[n]
<1> USE DEF DeliveryInv, TypeOK, RowOfPhase, Account, Running, deliveryVars
<1>1. CASE Crash
  BY <1>1 DEF Crash
<1>2. ASSUME NEW k \in Notification,
             \/ \E who \in {"worker", "nobody"} : CommitAlert(k, who)
             \/ EnqueueNotification(k) \/ ProducerDies(k)
             \/ Break(k) \/ TimeOut(k) \/ Cancel(k) \/ RunAgain(k)
      PROVE  copies'[n] = copies[n] /\ row'[n] = row[n]
  BY <1>2 DEF CommitAlert, EnqueueNotification, ProducerDies, Break, TimeOut,
       Cancel, RunAgain
<1>3. ASSUME NEW k \in Notification, ThreadEnds(k)
      PROVE  copies'[n] = copies[n] /\ row'[n] = row[n]
  BY <1>3 DEF ThreadEnds, Leave
<1>4. ASSUME NEW k \in Notification, JobStep(k)
      PROVE  copies'[n] = copies[n] /\ row'[n] = row[n]
  <2>1. CASE Start(k) \/ Finish(k) \/ DeadLetter(k) \/ SendRefused(k)
    BY <2>1 DEF Start, Finish, DeadLetter, SendRefused
  <2>2. CASE Open(k)
    BY <2>2 DEF Open, Deliverable
  <2>3. CASE SendSucceeds(k) \/ SendFails(k)
    BY <2>3 DEF SendSucceeds, SendFails, Leave
  <2>4. CASE MarkSent(k) \/ MarkSkipped(k) \/ MarkFailed(k)
    BY <2>4 DEF MarkSent, MarkSkipped, MarkFailed, Mark
  <2> QED
    BY <1>4, <2>1, <2>2, <2>3, <2>4 DEF JobStep
<1>5. CASE UNCHANGED vars
  BY <1>5 DEF vars
<1> QED
  BY <1>1, <1>2, <1>3, <1>4, <1>5 DEF Next

(* Once the row says sent or skipped, nothing more leaves.                 *)
THEOREM EndIsFinal == Spec => NothingAfterTheEnd
<1>1. ASSUME DeliveryInv, [Next]_vars
      PROVE  [\A n \in Notification :
                row[n] \in {"sent", "skipped"}
                  => copies'[n] = copies[n] /\ row'[n] = row[n]]_vars
  BY <1>1, FinalStays
<1> QED
  BY <1>1, DeliveryInvariant, PTL DEF Spec, NothingAfterTheEnd

-----------------------------------------------------------------------------
(* As long as no fault has struck, a row is left failed only with its dead *)
(* letter written, or with a try to come.                                  *)
BuriedInv ==
  faults = 0 =>
    \A n \in Notification :
      /\ job[n] # "orphan"
      /\ \/ row[n] # "failed"
         \/ job[n] = "queued" /\ tries[n] < MaxTries
         \/ job[n] \notin {"queued", "over"}
         \/ n \in dead

(* Only Start, MarkFailed and DeadLetter can disturb it without a fault.   *)
LEMMA BuriedStep ==
  ASSUME DeliveryInv, BuriedInv, [Next]_vars
  PROVE  BuriedInv'
<1> USE DeliveryAssumption
      DEF DeliveryInv, TypeOK, RowOfPhase, RowStatus, JobPhase, Running,
          deliveryVars, BuriedInv
<1>1. CASE Crash
  BY <1>1 DEF Crash, Fault
<1>2. ASSUME NEW n \in Notification,
             ProducerDies(n) \/ Break(n) \/ TimeOut(n) \/ Cancel(n)
      PROVE  BuriedInv'
  BY <1>2 DEF ProducerDies, Break, TimeOut, Cancel, Fault
<1>3. ASSUME NEW n \in Notification,
             \/ \E who \in {"worker", "nobody"} : CommitAlert(n, who)
             \/ EnqueueNotification(n)
      PROVE  BuriedInv'
  BY <1>3 DEF CommitAlert, EnqueueNotification, Goto
<1>4. ASSUME NEW n \in Notification, RunAgain(n) \/ ThreadEnds(n)
      PROVE  BuriedInv'
  BY <1>4 DEF RunAgain, ThreadEnds, Goto
<1>5. ASSUME NEW n \in Notification, JobStep(n)
      PROVE  BuriedInv'
  <2>1. CASE Start(n)
    BY <2>1 DEF Start, Exhausted, Goto
  <2>2. CASE Open(n)
    BY <2>2 DEF Open, Deliverable, Goto
  <2>3. CASE SendSucceeds(n) \/ SendRefused(n) \/ SendFails(n)
    BY <2>3 DEF SendSucceeds, SendRefused, SendFails, Goto
  <2>4. CASE MarkSent(n) \/ MarkSkipped(n)
    BY <2>4 DEF MarkSent, MarkSkipped, Mark, Goto
  <2>5. CASE Finish(n)
    BY <2>5 DEF Finish, Goto
  <2>6. CASE MarkFailed(n)
    BY <2>6 DEF MarkFailed, Mark, IsFinalTry, Goto
  <2>7. CASE DeadLetter(n)
    BY <2>7 DEF DeadLetter, Goto
  <2> QED
    BY <1>5, <2>1, <2>2, <2>3, <2>4, <2>5, <2>6, <2>7 DEF JobStep
<1>6. CASE UNCHANGED vars
  BY <1>6 DEF vars
<1> QED
  BY <1>1, <1>2, <1>3, <1>4, <1>5, <1>6 DEF Next

(* Without faults, a failed row that nobody works on is dead-lettered.     *)
THEOREM FailuresAreBuried == Spec => []FailureIsDeadLettered
<1>1. Init => BuriedInv
  BY DEF Init, BuriedInv
<1>2. DeliveryInv /\ BuriedInv => FailureIsDeadLettered
  <2> SUFFICES ASSUME DeliveryInv, BuriedInv, NEW n \in Notification,
                      row[n] = "failed", job[n] = "over"
               PROVE  n \in dead \/ faults > 0
    BY DEF FailureIsDeadLettered
  <2>1. CASE faults = 0
    BY <2>1 DEF BuriedInv
  <2>2. faults = 0 \/ faults > 0
    BY DeliveryAssumption DEF DeliveryInv, TypeOK
  <2> QED
    BY <2>1, <2>2
<1> QED
  BY <1>1, <1>2, DeliveryInvariant, BuriedStep, PTL DEF Spec

-----------------------------------------------------------------------------
(* As long as no fault has struck, a job that runs finds a row that can be *)
(* delivered, and one that is over leaves a settled row.                   *)
SettledInv ==
  faults = 0 =>
    \A n \in Notification :
      /\ row[n] \in {"absent", "pending"} /\ job[n] \in {"none", "queued"}
           => tries[n] = 0
      /\ job[n] \in {"queued", "starting"} => row[n] \in {"pending", "failed"}
      /\ job[n] = "over" => row[n] \in {"sent", "skipped", "failed"}

LEMMA SettledStep ==
  ASSUME DeliveryInv, BuriedInv, SettledInv, [Next]_vars
  PROVE  SettledInv'
<1> USE DeliveryAssumption
      DEF DeliveryInv, TypeOK, RowOfPhase, RowStatus, JobPhase, Running,
          deliveryVars, SettledInv
<1>1. CASE Crash
  BY <1>1 DEF Crash, Fault
<1>2. ASSUME NEW n \in Notification,
             ProducerDies(n) \/ Break(n) \/ TimeOut(n) \/ Cancel(n)
      PROVE  SettledInv'
  BY <1>2 DEF ProducerDies, Break, TimeOut, Cancel, Fault
<1>3. ASSUME NEW n \in Notification,
             \/ \E who \in {"worker", "nobody"} : CommitAlert(n, who)
             \/ EnqueueNotification(n)
      PROVE  SettledInv'
  BY <1>3 DEF CommitAlert, EnqueueNotification, Goto
<1>4. ASSUME NEW n \in Notification, RunAgain(n) \/ ThreadEnds(n)
      PROVE  SettledInv'
  BY <1>4 DEF RunAgain, ThreadEnds, Goto, BuriedInv
<1>5. ASSUME NEW n \in Notification, JobStep(n)
      PROVE  SettledInv'
  <2>1. CASE Start(n)
    BY <2>1 DEF Start, Exhausted, Goto
  <2>2. CASE Open(n)
    BY <2>2 DEF Open, Deliverable, Goto
  <2>3. CASE SendSucceeds(n) \/ SendRefused(n) \/ SendFails(n)
    BY <2>3 DEF SendSucceeds, SendRefused, SendFails, Goto
  <2>4. CASE MarkSent(n) \/ MarkSkipped(n)
    BY <2>4 DEF MarkSent, MarkSkipped, Mark, Goto
  <2>5. CASE Finish(n)
    BY <2>5 DEF Finish, Goto
  <2>6. CASE MarkFailed(n)
    BY <2>6 DEF MarkFailed, Mark, IsFinalTry, Goto
  <2>7. CASE DeadLetter(n)
    BY <2>7 DEF DeadLetter, Goto
  <2> QED
    BY <1>5, <2>1, <2>2, <2>3, <2>4, <2>5, <2>6, <2>7 DEF JobStep
<1>6. CASE UNCHANGED vars
  BY <1>6 DEF vars
<1> QED
  BY <1>1, <1>2, <1>3, <1>4, <1>5, <1>6 DEF Next

(* As long as no fault has struck, arq never drops or ends a job before    *)
(* its row is settled: sent, skipped, or failed with its dead letter       *)
(* written.  Above all no row stays in processing: what ProcessingEnds     *)
(* finds is the work of faults alone.                                      *)
THEOREM SettledWithoutFaults ==
  Spec => [](\A n \in Notification :
               job[n] = "over" =>
                 \/ row[n] \in {"sent", "skipped"}
                 \/ row[n] = "failed" /\ n \in dead
                 \/ faults > 0)
<1> DEFINE Settled ==
             \A n \in Notification :
               job[n] = "over" =>
                 \/ row[n] \in {"sent", "skipped"}
                 \/ row[n] = "failed" /\ n \in dead
                 \/ faults > 0
<1>1. Init => BuriedInv /\ SettledInv
  BY DEF Init, BuriedInv, SettledInv
<1>2. DeliveryInv /\ BuriedInv /\ SettledInv => Settled
  <2> SUFFICES ASSUME DeliveryInv, BuriedInv, SettledInv
               PROVE  Settled
    OBVIOUS
  <2>1. faults = 0 \/ faults > 0
    BY DeliveryAssumption DEF DeliveryInv, TypeOK
  <2> QED
    BY <2>1 DEF BuriedInv, SettledInv
<1> HIDE DEF Settled
<1>3. Spec => []Settled
  BY <1>1, <1>2, DeliveryInvariant, BuriedStep, SettledStep, PTL DEF Spec
<1> QED
  BY <1>3, PTL DEF Settled

-----------------------------------------------------------------------------
(* The refinement.  A step of the code changes the outcome or the copies   *)
(* of one notification, except Crash, which abandons every alert whose id  *)
(* only a check had.                                                       *)

(* What a step that touches one notification may do to it.                 *)
LEMMA OneAlertStep ==
  ASSUME DeliveryInv, NEW n \in Notification,
         \A k \in Notification \ {n} :
           row'[k] = row[k] /\ producer'[k] = producer[k] /\ job'[k] = job[k],
         \/ /\ copies' = copies
            /\ \/ Outcome(n)' = Outcome(n)
               \/ Outcome(n) = "none" /\ Outcome(n)' \in {"open", "abandoned"}
               \/ Outcome(n) = "open" /\ Outcome(n)' \in {"skipped", "abandoned"}
               \/ Outcome(n) = "open" /\ Outcome(n)' = "sent" /\ copies[n] > 0
         \/ /\ Outcome(n)' = Outcome(n)
            /\ Outcome(n) \in {"open", "abandoned"}
            /\ copies[n] < MaxTries
            /\ copies' = [copies EXCEPT ![n] = @ + 1]
  PROVE  [Promise!Next]_(Promise!vars)
<1> DEFINE Mapped == [k \in Notification |-> Outcome(k)]
<1>1. \A k \in Notification \ {n} : Outcome(k)' = Outcome(k)
  BY DEF Outcome
<1>2. Mapped' = [Mapped EXCEPT ![n] = Outcome(n)']
  BY <1>1
<1>3. CASE copies' = copies /\ Outcome(n)' = Outcome(n)
  BY <1>2, <1>3 DEF Promise!vars
<1>4. CASE /\ copies' = copies
           /\ Outcome(n) = "none" /\ Outcome(n)' \in {"open", "abandoned"}
  BY <1>2, <1>4 DEF Promise!Next, Promise!Accept, Promise!AcceptAbandoned
<1>5. CASE copies' = copies /\ Outcome(n) = "open" /\ Outcome(n)' = "abandoned"
  <2>1. Promise!Abandon({n})
    BY <1>1, <1>5 DEF Promise!Abandon
  <2> QED
    BY <2>1 DEF Promise!Next, Promise!Settle
<1>6. CASE /\ copies' = copies
           /\ Outcome(n) = "open"
           /\ \/ Outcome(n)' = "skipped"
              \/ Outcome(n)' = "sent" /\ copies[n] > 0
  <2>1. Promise!Record(n)
    BY <1>2, <1>6 DEF Promise!Record
  <2> QED
    BY <2>1 DEF Promise!Next, Promise!Settle
<1>7. CASE /\ Outcome(n)' = Outcome(n)
           /\ Outcome(n) \in {"open", "abandoned"}
           /\ copies[n] < MaxTries
           /\ copies' = [copies EXCEPT ![n] = @ + 1]
  <2>1. Promise!Copy(n)
    BY <1>1, <1>2, <1>7 DEF Promise!Copy
  <2> QED
    BY <2>1 DEF Promise!Next
<1> QED
  BY <1>3, <1>4, <1>5, <1>6, <1>7

(* Abandoning alerts is a step of the promise.                             *)
LEMMA AbandonIsAllowed ==
  ASSUME NEW S \in SUBSET Notification, S # {}, Promise!Abandon(S)
  PROVE  Promise!Next
<1>1. PICK n \in Notification : n \in S
  OBVIOUS
<1>2. \E T \in SUBSET Notification : n \in T /\ Promise!Abandon(T)
  <2> WITNESS S \in SUBSET Notification
  <2> QED
    BY <1>1
<1> QED
  BY <1>2 DEF Promise!Next, Promise!Settle

(* Every step of the code is a step of the promise or leaves it alone.     *)
LEMMA RefinementStep ==
  ASSUME DeliveryInv, DeliveryInv', [Next]_vars
  PROVE  [Promise!Next]_(Promise!vars)
<1> USE DEF DeliveryInv, TypeOK, RowOfPhase, Account, RowStatus, JobPhase,
            Running, deliveryVars, Outcome
<1>1. CASE Crash
  <2>0. PICK S \in SUBSET Notification :
               S = {n \in Notification : producer[n] = "worker"}
    OBVIOUS
  <2>1. \A n \in Notification :
          Outcome(n)' = IF n \in S THEN "abandoned" ELSE Outcome(n)
    BY <1>1, <2>0 DEF Crash
  <2>2. \A n \in S : Outcome(n) = "open"
    BY <2>0
  <2>3. copies' = copies
    BY <1>1 DEF Crash
  <2>4. CASE S = {}
    BY <2>1, <2>3, <2>4 DEF Promise!vars
  <2>5. CASE S # {}
    <3>1. Promise!Abandon(S)
      BY <2>1, <2>2, <2>3, <2>5 DEF Promise!Abandon
    <3> QED
      BY <2>5, <3>1, AbandonIsAllowed
  <2> QED
    BY <2>4, <2>5
<1>2. ASSUME NEW n \in Notification,
             \/ \E who \in {"worker", "nobody"} : CommitAlert(n, who)
             \/ EnqueueNotification(n) \/ ProducerDies(n)
      PROVE  [Promise!Next]_(Promise!vars)
  BY <1>2, OneAlertStep
     DEF CommitAlert, EnqueueNotification, ProducerDies, Goto
<1>3. ASSUME NEW n \in Notification, JobStep(n)
      PROVE  [Promise!Next]_(Promise!vars)
  <2>1. CASE Start(n)
    BY <2>1, OneAlertStep DEF Start, Exhausted, Goto
  <2>7. CASE Finish(n) \/ DeadLetter(n) \/ SendRefused(n)
    BY <2>7, OneAlertStep DEF Finish, DeadLetter, SendRefused, Goto
  <2>2. CASE Open(n)
    BY <2>2, OneAlertStep DEF Open, Deliverable, Goto
  <2>3. CASE SendSucceeds(n)
    <3>1. /\ Outcome(n) = "open" /\ Outcome(n)' = "open"
          /\ copies[n] < MaxTries
          /\ copies' = [copies EXCEPT ![n] = @ + 1]
      BY <2>3, DeliveryAssumption DEF SendSucceeds, Leave, Goto
    <3>2. \A k \in Notification \ {n} :
            row'[k] = row[k] /\ producer'[k] = producer[k] /\ job'[k] = job[k]
      BY <2>3 DEF SendSucceeds, Goto
    <3> QED
      BY <3>1, <3>2, OneAlertStep
  <2>4. CASE SendFails(n)
    <3>1. /\ Outcome(n) = "open" /\ Outcome(n)' = "open"
          /\ copies[n] < MaxTries
          /\ (copies' = [copies EXCEPT ![n] = @ + 1] \/ copies' = copies)
      BY <2>4, DeliveryAssumption DEF SendFails, Leave, Goto
    <3>2. \A k \in Notification \ {n} :
            row'[k] = row[k] /\ producer'[k] = producer[k] /\ job'[k] = job[k]
      BY <2>4 DEF SendFails, Goto
    <3> QED
      BY <3>1, <3>2, OneAlertStep
  <2>5. CASE MarkSent(n) \/ MarkSkipped(n)
    BY <2>5, OneAlertStep DEF MarkSent, MarkSkipped, Mark, Goto
  <2>6. CASE MarkFailed(n)
    BY <2>6, OneAlertStep DEF MarkFailed, Mark, Goto
  <2> QED
    BY <1>3, <2>1, <2>2, <2>3, <2>4, <2>5, <2>6, <2>7 DEF JobStep
<1>4. ASSUME NEW n \in Notification,
             Break(n) \/ TimeOut(n) \/ Cancel(n) \/ RunAgain(n)
      PROVE  [Promise!Next]_(Promise!vars)
  BY <1>4, OneAlertStep DEF Break, TimeOut, Cancel, RunAgain, Goto
<1>5. ASSUME NEW n \in Notification, ThreadEnds(n)
      PROVE  [Promise!Next]_(Promise!vars)
  BY <1>5, OneAlertStep, DeliveryAssumption DEF ThreadEnds, Leave
<1>6. CASE UNCHANGED vars
  BY <1>6 DEF vars, Promise!vars
<1> QED
  BY <1>1, <1>2, <1>3, <1>4, <1>5, <1>6 DEF Next

(* The code keeps the safety part of the promise: a row settles once, a    *)
(* row is sent only after a copy has left, and at most MaxTries copies     *)
(* leave.  KeepsPromise adds the fairness.                                 *)
THEOREM Refinement == Spec => Promise!Spec
<1>1. Init => Promise!Init
  BY DEF Init, Promise!Init, Outcome
<1> QED
  BY <1>1, DeliveryInvariant, RefinementStep, PTL DEF Spec, Promise!Spec
=============================================================================
