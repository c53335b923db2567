---------------------------- MODULE SerialChecks -----------------------------
(***************************************************************************)
(* What the users of price checks may rely on: checks might as well take   *)
(* place one at a time.  A check that has found a page compares it with    *)
(* the rows as they are at that moment, and writes what follows from it,   *)
(* all in one step.  There are no read views, no phases and no conflicts.  *)
(*                                                                         *)
(* One trace of the waiting is left: an alert may be suppressed by a twin  *)
(* that was live when the check began and has ended since.                 *)
(***************************************************************************)
EXTENDS Naturals, Sequences

CONSTANTS Monitor, Source, SourceOf, Target, HomeCurrency, Page, None

VARIABLES monitor, source, alerts

vars == <<monitor, source, alerts>>

Init ==
  /\ monitor \in [Monitor -> [status : {"active"}, target : Target,
                              channel : {"email"}, last : {None},
                              error : {None}]]
  /\ source = [s \in Source |-> None]
  /\ alerts = << >>

CurrencyOf(p) ==
  IF p.currency = None /\ p.price # None THEN HomeCurrency ELSE p.currency

Known(s) ==
  IF source[s] = None
  THEN [currency |-> None, price |-> None, status |-> "active", error |-> None]
  ELSE source[s]

(* What page p means for a source, None if the price on it counts.         *)
Verdict(p, s) ==
  IF /\ Known(s).currency # None /\ CurrencyOf(p) # None
     /\ CurrencyOf(p) # Known(s).currency
  THEN "currency_changed"
  ELSE IF p.error = None /\ p.price = None THEN "price_not_found"
  ELSE p.error

MonitorShows(m, p, verdict) ==
  [monitor[m] EXCEPT
     !.error = verdict,
     !.last = IF verdict = None THEN p.price ELSE monitor[m].last,
     !.status = IF verdict = "unsupported_product_url" THEN "unsupported"
                ELSE monitor[m].status]

SourceShows(s, p, verdict) ==
  IF verdict = None
  THEN [currency |-> CurrencyOf(p), price |-> p.price, status |-> "active",
        error |-> None]
  ELSE [Known(s) EXCEPT
          !.status = "error",
          !.error = IF verdict = "price_not_found" THEN None ELSE verdict]

Wanted(m, p) ==
  /\ monitor[m].target # None
  /\ p.price <= monitor[m].target
  /\ monitor[m].channel # None

(* An alert in the dedupe window that says the same and was itself sent,   *)
(* or meant to be; and one that still counts.                              *)
Twin(a, i) ==
  /\ alerts[i].recent /\ alerts[i].status # "duplicated"
  /\ \A f \in {"mon", "target", "price", "currency"} : alerts[i][f] = a[f]
LiveTwin(a, i) == Twin(a, i) /\ alerts[i].status # "skipped"

Alert(m, p, s) ==
  [mon |-> m, target |-> monitor[m].target, price |-> p.price,
   currency |-> CurrencyOf(p), status |-> s, recent |-> TRUE]

CreateAlert(m, p) ==
  \/ LET a == Alert(m, p, "pending")
     IN  /\ \A i \in DOMAIN alerts : ~LiveTwin(a, i)
         /\ alerts' = Append(alerts, a)
  \/ LET a == Alert(m, p, "duplicated")
     IN  /\ \E i \in DOMAIN alerts : Twin(a, i)
         /\ alerts' = Append(alerts, a)

CheckAtOnce(m, p) ==
  LET s == SourceOf[m]
      verdict == Verdict(p, s)
  IN  /\ monitor[m].status = "active"
      /\ monitor' = [monitor EXCEPT ![m] = MonitorShows(m, p, verdict)]
      /\ source' = [source EXCEPT ![s] = SourceShows(s, p, verdict)]
      /\ IF verdict = None /\ Wanted(m, p)
         THEN CreateAlert(m, p)
         ELSE UNCHANGED alerts

(* Everybody else.                                                         *)
Edit(m) ==
  /\ \/ \E s \in {"active", "stopped"}, t \in Target, ch \in {"email", None} :
          monitor' = [monitor EXCEPT ![m] = [@ EXCEPT !.status = s, !.target = t,
                                                      !.channel = ch]]
     \/ monitor' = [monitor EXCEPT ![m] = [@ EXCEPT !.status = "stopped",
                                                    !.error = "job_failed"]]
  /\ UNCHANGED <<source, alerts>>

Deliver(i) ==
  /\ \/ /\ alerts[i].status \in {"pending", "failed"}
        /\ alerts' = [alerts EXCEPT ![i].status = "processing"]
     \/ /\ alerts[i].status = "processing"
        /\ \E s \in {"sent", "failed", "skipped"} :
             alerts' = [alerts EXCEPT ![i].status = s]
     \/ /\ alerts[i].recent
        /\ alerts' = [alerts EXCEPT ![i].recent = FALSE]
  /\ UNCHANGED <<monitor, source>>

(* A check waits, reads or is given up.                                    *)
NothingWritten == UNCHANGED vars

Next ==
  \/ NothingWritten
  \/ \E m \in Monitor, p \in Page : CheckAtOnce(m, p)
  \/ \E m \in Monitor : Edit(m)
  \/ \E i \in DOMAIN alerts : Deliver(i)

Spec == Init /\ [][Next]_vars
=============================================================================
