----------------------------- MODULE AlertDelivery -----------------------------
(***************************************************************************)
(* What the notification part promises about an alert, whatever crashes:   *)
(* it is settled in the end; the user gets at most MaxCopies copies; none  *)
(* after it is recorded as sent or skipped; and it is recorded as sent     *)
(* only when a copy has left.  An abandoned alert is one nobody works on   *)
(* any more: given up after its last try, or lost to a fault.  A copy on   *)
(* its way when the alert was abandoned may still arrive.                  *)
(***************************************************************************)
EXTENDS Naturals

CONSTANTS Alert, MaxCopies

VARIABLES
  outcome,  \* what is recorded of the alert
  copies    \* messages that have left for the user

vars == <<outcome, copies>>

Init ==
  /\ outcome = [a \in Alert |-> "none"]
  /\ copies = [a \in Alert |-> 0]

Accept(a) ==
  /\ outcome[a] = "none"
  /\ outcome' = [outcome EXCEPT ![a] = "open"]
  /\ UNCHANGED copies

Copy(a) ==
  /\ outcome[a] \in {"open", "abandoned"}
  /\ copies[a] < MaxCopies
  /\ copies' = [copies EXCEPT ![a] = @ + 1]
  /\ UNCHANGED outcome

Record(a) ==
  /\ outcome[a] = "open"
  /\ \/ outcome' = [outcome EXCEPT ![a] = "skipped"]
     \/ copies[a] > 0 /\ outcome' = [outcome EXCEPT ![a] = "sent"]
  /\ UNCHANGED copies

(* One crash may hit several alerts.                                       *)
Abandon(S) ==
  /\ S # {} /\ \A a \in S : outcome[a] = "open"
  /\ outcome' = [a \in Alert |-> IF a \in S THEN "abandoned" ELSE outcome[a]]
  /\ UNCHANGED copies

Settle(a) == Record(a) \/ \E S \in SUBSET Alert : a \in S /\ Abandon(S)

(* Written and left alone in one step.                                     *)
AcceptAbandoned(a) ==
  /\ outcome[a] = "none"
  /\ outcome' = [outcome EXCEPT ![a] = "abandoned"]
  /\ UNCHANGED copies

Next ==
  \E a \in Alert : Accept(a) \/ Copy(a) \/ Settle(a) \/ AcceptAbandoned(a)

Spec == Init /\ [][Next]_vars

FairSpec == Spec /\ \A a \in Alert : WF_vars(Settle(a))
=============================================================================
