--------------------------- MODULE PriceCheckProofs ---------------------------
(***************************************************************************)
(* What is proved of PriceCheck, for any monitors and any number of        *)
(* concurrent checks, any prices, currencies and pages, and any number of  *)
(* alerts and edits.                                                       *)
(***************************************************************************)
EXTENDS PriceCheck, TLAPS, SequenceTheorems

USE PriceCheckAssumption, NullAssumption

(* The views are functions of the checks, and show rows.                   *)
View == [monitor : MonitorRow \cup {None, Stale},
         source : SourceRow \cup {None, Stale}, live : SUBSET Nat]

ViewsTyped == seen \in [Check -> View]

(* What a view shows of a row is the row as it is now, if the database     *)
(* would still let the check write it.                                     *)
ViewsAgree ==
  \A c \in Check :
    phase[c] # "idle"
      => /\ seen[c].monitor \in {monitor[mon[c]], Stale}
         /\ seen[c].source \in {source[SourceOf[mon[c]]], None, Stale}

(* A check that may still commit has seen every alert of its monitor that  *)
(* counts against another one.                                             *)
LiveSeen ==
  \A c \in Check :
    phase[c] # "idle" /\ seen[c].monitor # Stale
      => \A i \in LiveAlerts : alerts[i].mon = mon[c] => i \in seen[c].live

(* What a view shows as live is an alert that was not suppressed.          *)
LiveCounts ==
  \A c \in Check : \A i \in seen[c].live :
    i \in DOMAIN alerts /\ alerts[i].status # "duplicated"

RowsTyped ==
  /\ monitor \in [Monitor -> MonitorRow]
  /\ source \in [Source -> SourceRow \cup {None}]
  /\ lastCheck \in [Monitor -> CheckRow \cup {None}]
  /\ alerts \in Seq(AlertRow)
  /\ Len(alerts) <= MaxAlerts
  /\ edits \in [Monitor -> 0..MaxEdits]

ChecksTyped ==
  /\ phase \in [Check -> {"idle", "fetching", "fetched"}]
  /\ mon \in [Check -> Monitor \cup {None}]
  /\ page \in [Check -> Page \cup {None}]
  /\ \A c \in Check :
       /\ phase[c] = "idle" => mon[c] = None /\ seen[c] = NoView
       /\ phase[c] # "idle" => mon[c] # None
       /\ page[c] # None <=> phase[c] = "fetched"

ViewInv == RowsTyped /\ ChecksTyped /\ ViewsTyped /\ ViewsAgree /\ LiveSeen /\ LiveCounts

LEMMA ViewInvTyped ==
  ASSUME ViewInv
  PROVE  TypeOK
<1>1. \A c \in Check :
        IF phase[c] = "idle"
        THEN mon[c] = None /\ seen[c] = NoView
        ELSE /\ mon[c] # None
             /\ seen[c].monitor \in MonitorRow \cup {Stale}
             /\ seen[c].source \in SourceRow \cup {None, Stale}
             /\ seen[c].live \subseteq DOMAIN alerts
  <2> SUFFICES ASSUME NEW c \in Check, phase[c] # "idle"
               PROVE  /\ mon[c] # None
                      /\ seen[c].monitor \in MonitorRow \cup {Stale}
                      /\ seen[c].source \in SourceRow \cup {None, Stale}
                      /\ seen[c].live \subseteq DOMAIN alerts
    BY DEF ViewInv, ChecksTyped
  <2>1. mon[c] \in Monitor
    BY DEF ViewInv, ChecksTyped
  <2>2. monitor[mon[c]] \in MonitorRow
    BY <2>1 DEF ViewInv, RowsTyped
  <2>3. seen[c].source \in SourceRow \cup {None, Stale}
    BY DEF ViewInv, ViewsTyped, View
  <2> QED
    BY <2>1, <2>2, <2>3 DEF ViewInv, ViewsAgree, LiveCounts
<1> QED
  BY <1>1 DEF ViewInv, RowsTyped, ChecksTyped, TypeOK

LEMMA InitInv ==
  ASSUME Init
  PROVE  ViewInv
<1>1. RowsTyped
  <2>1. monitor \in [Monitor -> MonitorRow]
    BY DEF Init, MonitorRow, CheckCode
  <2>2. alerts \in Seq(AlertRow) /\ Len(alerts) = 0
    BY DEF Init
  <2> QED
    BY <2>1, <2>2 DEF Init, RowsTyped
<1>2. ChecksTyped
  BY DEF Init, ChecksTyped
<1>3. ViewsTyped
  BY DEF Init, ViewsTyped, View, NoView
<1>4. ViewsAgree /\ LiveSeen /\ LiveCounts
  BY DEF Init, ViewsAgree, LiveSeen, LiveCounts, NoView
<1> QED
  BY <1>1, <1>2, <1>3, <1>4 DEF ViewInv

-----------------------------------------------------------------------------
(* A view that has just been opened.                                       *)
LEMMA OpenedViewIsNow ==
  ASSUME ViewInv, NEW m \in Monitor
  PROVE  /\ OpenedView(m) \in View
         /\ OpenedView(m).monitor = monitor[m]
         /\ OpenedView(m).source = source[SourceOf[m]]
         /\ OpenedView(m).live = LiveAlerts
<1>1. LiveAlerts \subseteq Nat
  <2>1. DOMAIN alerts = 1..Len(alerts) /\ Len(alerts) \in Nat
    BY DEF ViewInv, RowsTyped
  <2> QED
    BY <2>1 DEF LiveAlerts
<1>2. monitor[m] \in MonitorRow /\ source[SourceOf[m]] \in SourceRow \cup {None}
  BY DEF ViewInv, RowsTyped
<1> QED
  BY <1>1, <1>2 DEF OpenedView, View

(* Opening a view, for a new check or after a rollback.                    *)
LEMMA OpenKeepsInv ==
  ASSUME ViewInv, NEW c \in Check, NEW m \in Monitor,
         seen' = [seen EXCEPT ![c] = OpenedView(m)],
         mon' = [mon EXCEPT ![c] = m],
         NEW p \in {"fetching", "fetched"}, phase' = [phase EXCEPT ![c] = p],
         p = "fetched" <=> page[c] # None,
         UNCHANGED <<rowVars, page>>
  PROVE  ViewInv'
<1>1. RowsTyped' /\ LiveAlerts' = LiveAlerts
  BY DEF ViewInv, RowsTyped, rowVars, LiveAlerts
<1>2. ChecksTyped'
  BY DEF ViewInv, ChecksTyped
<1>3. /\ seen[c] \in View
      /\ seen' \in [Check -> View]
      /\ \A k \in Check : seen'[k] = IF k = c THEN OpenedView(m) ELSE seen[k]
  BY OpenedViewIsNow DEF ViewInv, ViewsTyped
<1>4. \A k \in Check :
        /\ mon'[k] = IF k = c THEN m ELSE mon[k]
        /\ phase'[k] = IF k = c THEN p ELSE phase[k]
  BY DEF ViewInv, ChecksTyped
<1>5. ViewsAgree'
  BY <1>3, <1>4, OpenedViewIsNow DEF ViewInv, ViewsAgree, rowVars
<1>6. LiveSeen'
  BY <1>1, <1>3, <1>4, OpenedViewIsNow DEF ViewInv, LiveSeen, rowVars
<1>7. LiveCounts'
  BY <1>3, OpenedViewIsNow
     DEF ViewInv, LiveCounts, rowVars, LiveAlerts, LiveStatus
<1> QED
  BY <1>1, <1>2, <1>3, <1>5, <1>6, <1>7 DEF ViewInv, ViewsTyped

LEMMA FetchKeepsInv ==
  ASSUME ViewInv, NEW c \in Check, NEW p \in Page, Fetch(c, p)
  PROVE  ViewInv'
<1>1. RowsTyped' /\ ViewsTyped' /\ LiveCounts'
  BY DEF ViewInv, RowsTyped, ViewsTyped, LiveCounts, Fetch, rowVars
<1>2. ChecksTyped'
  BY DEF ViewInv, ChecksTyped, Fetch
<1>3. \A k \in Check : phase'[k] # "idle" => phase[k] # "idle"
  BY DEF ViewInv, ChecksTyped, Fetch
<1>4. ViewsAgree'
  BY <1>3 DEF ViewInv, ViewsAgree, Fetch, rowVars
<1>5. LiveSeen'
  BY <1>3 DEF ViewInv, LiveSeen, LiveAlerts, Fetch, rowVars
<1> QED
  BY <1>1, <1>2, <1>4, <1>5 DEF ViewInv

(* A check that writes nothing ends.                                       *)
LEMMA EndKeepsInv ==
  ASSUME ViewInv, NEW c \in Check, EndCheck(c, [seen EXCEPT ![c] = NoView]),
         UNCHANGED rowVars
  PROVE  ViewInv'
<1>1. RowsTyped' /\ LiveAlerts' = LiveAlerts
  BY DEF ViewInv, RowsTyped, rowVars, LiveAlerts
<1>2. ChecksTyped'
  BY DEF ViewInv, ChecksTyped, ViewsTyped, EndCheck
<1>3. /\ seen' \in [Check -> View]
      /\ \A k \in Check : seen'[k] = IF k = c THEN NoView ELSE seen[k]
  BY DEF ViewInv, ViewsTyped, EndCheck, NoView, View
<1>4. \A k \in Check : phase'[k] # "idle"
        => k # c /\ phase[k] # "idle" /\ mon'[k] = mon[k]
  BY DEF ViewInv, ChecksTyped, EndCheck
<1>5. ViewsAgree' /\ LiveSeen'
  BY <1>1, <1>3, <1>4 DEF ViewInv, ViewsAgree, LiveSeen, rowVars
<1>6. LiveCounts'
  BY <1>3 DEF ViewInv, LiveCounts, rowVars, NoView
<1> QED
  BY <1>1, <1>2, <1>3, <1>5, <1>6 DEF ViewInv, ViewsTyped

-----------------------------------------------------------------------------
(* What Staled does to each view.                                          *)
LEMMA StaledViews ==
  ASSUME ViewInv, NEW M \in SUBSET Monitor, NEW S \in SUBSET Source, NEW c,
         seen' = Staled(M, S, c)
  PROVE  /\ seen' \in [Check -> View]
         /\ \A k \in Check :
              \/ /\ k = c \/ phase[k] = "idle"
                 /\ seen'[k] = NoView
              \/ seen'[k] = StaleView
              \/ /\ mon[k] \notin M /\ seen'[k] = seen[k]
                 /\ SourceOf[mon[k]] \notin S \/ seen[k].source = None
              \/ /\ seen[k].source = None
                 /\ seen'[k] = [seen[k] EXCEPT !.monitor = Stale]
<1>1. ASSUME NEW k \in Check
      PROVE  LET v == Staled(M, S, c)[k]
             IN  /\ v \in View
                 /\ \/ /\ k = c \/ phase[k] = "idle"
                       /\ v = NoView
                    \/ v = StaleView
                    \/ /\ mon[k] \notin M /\ v = seen[k]
                       /\ SourceOf[mon[k]] \notin S \/ seen[k].source = None
                    \/ /\ seen[k].source = None
                       /\ v = [seen[k] EXCEPT !.monitor = Stale]
  <2> DEFINE v == Staled(M, S, c)[k]
  <2>1. CASE k = c \/ mon[k] = None
    <3>1. v = NoView
      BY <2>1 DEF Staled
    <3>2. k = c \/ phase[k] = "idle"
      BY <2>1 DEF ViewInv, ChecksTyped
    <3> QED
      BY <3>1, <3>2 DEF NoView, View
  <2>2. CASE ~(k = c \/ mon[k] = None) /\ seen[k].source = None
    <3>1. v = [seen[k] EXCEPT !.monitor = IF mon[k] \in M THEN Stale ELSE @]
      BY <2>2 DEF Staled
    <3>2. seen[k] \in View
      BY DEF ViewInv, ViewsTyped
    <3>3. CASE mon[k] \in M
      BY <2>2, <3>1, <3>2, <3>3 DEF View
    <3>4. CASE mon[k] \notin M
      BY <2>2, <3>1, <3>2, <3>4 DEF View
    <3> QED
      BY <3>3, <3>4
  <2>3. CASE ~(k = c \/ mon[k] = None) /\ seen[k].source # None
    <3>1. seen[k] \in View
      BY DEF ViewInv, ViewsTyped
    <3> QED
      BY <2>3, <3>1 DEF Staled, StaleView, View
  <2> QED
    BY <2>1, <2>2, <2>3
<1>2. seen' \in [Check -> View]
  BY <1>1 DEF Staled
<1> QED
  BY <1>1, <1>2

(* A commit that wrote no rows but those of monitors M and sources S, and  *)
(* added no alerts but of M, leaves the other checks with views that agree *)
(* or that the database refuses.                                           *)
LEMMA WriteKeepsViews ==
  ASSUME ViewInv, NEW M \in SUBSET Monitor, NEW S \in SUBSET Source, NEW c,
         seen' = Staled(M, S, c),
         \A k \in Check :
           phase'[k] # "idle"
             => k # c /\ phase[k] # "idle" /\ mon'[k] = mon[k],
         \A m \in Monitor \ M : monitor'[m] = monitor[m],
         \A s \in Source \ S : source'[s] = source[s],
         \A i \in DOMAIN alerts : i \in DOMAIN alerts' /\ alerts'[i] = alerts[i],
         \A i \in DOMAIN alerts' \ DOMAIN alerts : alerts'[i].mon \in M
  PROVE  ViewsTyped' /\ ViewsAgree' /\ LiveSeen' /\ LiveCounts'
<1>1. ViewsTyped'
  BY StaledViews DEF ViewsTyped
<1>2. ASSUME NEW k \in Check, phase'[k] # "idle"
      PROVE  /\ seen'[k].monitor \in {monitor'[mon'[k]], Stale}
             /\ seen'[k].source \in {source'[SourceOf[mon'[k]]], None, Stale}
             /\ seen'[k].monitor # Stale
                  => seen'[k] = seen[k] /\ mon[k] \notin M
  <2>1. k # c /\ phase[k] # "idle" /\ mon'[k] = mon[k]
    BY <1>2
  <2>2. mon[k] \in Monitor /\ SourceOf[mon[k]] \in Source
    BY <2>1 DEF ViewInv, ChecksTyped
  <2>3. seen[k] \in View
    BY DEF ViewInv, ViewsTyped
  <2>4. /\ seen[k].monitor \in {monitor[mon[k]], Stale}
        /\ seen[k].source \in {source[SourceOf[mon[k]]], None, Stale}
    BY <2>1 DEF ViewInv, ViewsAgree
  <2>5. CASE seen'[k] = StaleView
    BY <2>5 DEF StaleView
  <2>6. CASE /\ mon[k] \notin M /\ seen'[k] = seen[k]
             /\ SourceOf[mon[k]] \notin S \/ seen[k].source = None
    BY <2>1, <2>2, <2>4, <2>6
  <2>7. CASE seen[k].source = None /\ seen'[k] = [seen[k] EXCEPT !.monitor = Stale]
    BY <2>3, <2>7 DEF View
  <2>8. \/ seen'[k] = StaleView
        \/ /\ mon[k] \notin M /\ seen'[k] = seen[k]
           /\ SourceOf[mon[k]] \notin S \/ seen[k].source = None
        \/ seen[k].source = None /\ seen'[k] = [seen[k] EXCEPT !.monitor = Stale]
    BY <2>1, StaledViews
  <2> QED
    BY <2>5, <2>6, <2>7, <2>8
<1>3. ViewsAgree'
  BY <1>2 DEF ViewsAgree
<1>4. LiveSeen'
  <2> SUFFICES ASSUME NEW k \in Check, phase'[k] # "idle",
                      seen'[k].monitor # Stale, NEW i \in LiveAlerts',
                      alerts'[i].mon = mon'[k]
               PROVE  i \in seen'[k].live
    BY DEF LiveSeen
  <2>1. /\ seen'[k] = seen[k] /\ mon[k] \notin M
        /\ phase[k] # "idle" /\ mon'[k] = mon[k]
    BY <1>2
  <2>2. i \in DOMAIN alerts' /\ alerts'[i].status \in LiveStatus
    BY DEF LiveAlerts
  <2>3. i \in DOMAIN alerts /\ alerts'[i] = alerts[i]
    BY <2>1, <2>2
  <2> QED
    BY <2>1, <2>2, <2>3 DEF ViewInv, LiveSeen, LiveAlerts
<1>5. LiveCounts'
  <2> SUFFICES ASSUME NEW k \in Check, NEW i \in seen'[k].live
               PROVE  i \in DOMAIN alerts' /\ alerts'[i].status # "duplicated"
    BY DEF LiveCounts
  <2>1. seen[k] \in View
    BY DEF ViewInv, ViewsTyped
  <2>2. \/ seen'[k] \in {NoView, StaleView, seen[k]}
        \/ seen'[k] = [seen[k] EXCEPT !.monitor = Stale]
    BY StaledViews
  <2>3. i \in seen[k].live
    BY <2>1, <2>2 DEF NoView, StaleView, View
  <2> QED
    BY <2>3 DEF ViewInv, LiveCounts
<1> QED
  BY <1>1, <1>3, <1>4, <1>5

(* Someone else edits a monitor, or a job marks it.                        *)
LEMMA EditKeepsInv ==
  ASSUME ViewInv, NEW m \in Monitor, SaveEdit(m) \/ MarkError(m)
  PROVE  ViewInv'
<1>1. /\ edits[m] < MaxEdits
      /\ edits' = [edits EXCEPT ![m] = @ + 1]
      /\ UNCHANGED <<source, lastCheck, alerts, phase, mon, page>>
      /\ seen' = Staled({m}, {}, None)
  BY DEF SaveEdit, MarkError
<1>0. edits' \in [Monitor -> 0..MaxEdits]
  BY <1>1 DEF ViewInv, RowsTyped
<1>2. /\ monitor' \in [Monitor -> MonitorRow]
      /\ \A q \in Monitor \ {m} : monitor'[q] = monitor[q]
  <2>1. monitor \in [Monitor -> MonitorRow] /\ monitor[m] \in MonitorRow
    BY DEF ViewInv, RowsTyped
  <2>2. PICK row \in MonitorRow : monitor' = [monitor EXCEPT ![m] = row]
    <3>1. CASE SaveEdit(m)
      BY <2>1, <3>1 DEF SaveEdit, MonitorRow
    <3>2. CASE MarkError(m)
      BY <2>1, <3>2 DEF MarkError, MonitorRow
    <3> QED
      BY <3>1, <3>2
  <2> QED
    BY <2>1, <2>2
<1>3. RowsTyped'
  BY <1>0, <1>1, <1>2 DEF ViewInv, RowsTyped
<1>4. ChecksTyped'
  <2>1. \A k \in Check : phase[k] = "idle" => seen'[k] = NoView
    BY <1>1 DEF Staled, ViewInv, ChecksTyped
  <2> QED
    BY <1>1, <2>1 DEF ViewInv, ChecksTyped
<1>5. ViewsTyped' /\ ViewsAgree' /\ LiveSeen' /\ LiveCounts'
  BY <1>1, <1>2, WriteKeepsViews
<1> QED
  BY <1>3, <1>4, <1>5 DEF ViewInv

(* An alert that is delivered, or leaves the dedupe window, says what it   *)
(* said, and counts only if it did.                                        *)
SaysTheSame(a, b) ==
  a.mon = b.mon /\ a.target = b.target /\ a.price = b.price /\ a.currency = b.currency

LEMMA AlertStep ==
  ASSUME RowsTyped, NEW i \in DOMAIN alerts, Deliver(i) \/ LeaveWindow(i)
  PROVE  \E a \in AlertRow :
           /\ alerts' = [alerts EXCEPT ![i] = a]
           /\ SaysTheSame(a, alerts[i])
           /\ a.recent => alerts[i].recent
           /\ a.status \in LiveStatus => alerts[i].status \in LiveStatus
           /\ a.status = "duplicated" <=> alerts[i].status = "duplicated"
<1>1. alerts[i] \in AlertRow
  BY DEF RowsTyped
<1>2. CASE LeaveWindow(i)
  <2>1. [alerts[i] EXCEPT !.recent = FALSE] \in AlertRow
    BY <1>1 DEF AlertRow
  <2>2. alerts' = [alerts EXCEPT ![i] = [alerts[i] EXCEPT !.recent = FALSE]]
    BY <1>2 DEF LeaveWindow
  <2> QED
    BY <1>1, <2>1, <2>2 DEF AlertRow, SaysTheSame
<1>3. CASE Deliver(i)
  <2>1. PICK t \in AlertStatus :
          /\ alerts' = [alerts EXCEPT ![i].status = t]
          /\ alerts[i].status \in LiveStatus
          /\ t # "duplicated"
    <3>1. CASE alerts[i].status \in {"pending", "failed"}
      BY <1>3, <3>1 DEF Deliver, AlertStatus, LiveStatus
    <3>2. CASE alerts[i].status = "processing"
      BY <1>3, <3>2 DEF Deliver, AlertStatus, LiveStatus
    <3> QED
      BY <1>3, <3>1, <3>2 DEF Deliver
  <2>2. [alerts[i] EXCEPT !.status = t] \in AlertRow
    BY <1>1, <2>1 DEF AlertRow
  <2>3. alerts' = [alerts EXCEPT ![i] = [alerts[i] EXCEPT !.status = t]]
    BY <2>1
  <2> QED
    BY <1>1, <2>1, <2>2, <2>3 DEF AlertRow, SaysTheSame, LiveStatus
<1> QED
  BY <1>2, <1>3

LEMMA AlertKeepsInv ==
  ASSUME ViewInv, NEW i \in DOMAIN alerts, Deliver(i) \/ LeaveWindow(i)
  PROVE  ViewInv'
<1>1. UNCHANGED <<monitor, source, lastCheck, edits, checkVars>>
  BY DEF Deliver, LeaveWindow
<1>2. PICK a \in AlertRow :
        /\ alerts' = [alerts EXCEPT ![i] = a]
        /\ SaysTheSame(a, alerts[i])
        /\ a.status \in LiveStatus => alerts[i].status \in LiveStatus
        /\ a.status = "duplicated" <=> alerts[i].status = "duplicated"
  BY AlertStep DEF ViewInv
<1>3. /\ alerts' \in Seq(AlertRow) /\ Len(alerts') = Len(alerts)
      /\ DOMAIN alerts' = DOMAIN alerts
      /\ \A k \in DOMAIN alerts : alerts'[k] = IF k = i THEN a ELSE alerts[k]
  BY <1>2, ExceptSeq DEF ViewInv, RowsTyped
<1>4. RowsTyped'
  BY <1>1, <1>3 DEF ViewInv, RowsTyped
<1>5. ChecksTyped' /\ ViewsTyped' /\ ViewsAgree'
  BY <1>1 DEF ViewInv, ChecksTyped, ViewsTyped, ViewsAgree, checkVars
<1>6. LiveSeen'
  <2>1. \A k \in LiveAlerts' : k \in LiveAlerts /\ alerts'[k].mon = alerts[k].mon
    BY <1>2, <1>3 DEF LiveAlerts, SaysTheSame
  <2> QED
    BY <1>1, <2>1 DEF ViewInv, LiveSeen, checkVars
<1>7. LiveCounts'
  BY <1>1, <1>2, <1>3 DEF ViewInv, LiveCounts, checkVars
<1> QED
  BY <1>4, <1>5, <1>6, <1>7 DEF ViewInv

-----------------------------------------------------------------------------
(* An UPDATE of a row that is as the session has it makes it what the      *)
(* session wants.                                                          *)
LEMMA UpdateOfSame ==
  ASSUME NEW old, NEW new, DOMAIN new = DOMAIN old,
         new = [f \in DOMAIN new |-> new[f]]
  PROVE  Update(old, old, new) = new
BY DEF Update

(* What a check that fetched a page has fetched.                           *)
LEMMA PageOfCheck ==
  ASSUME ViewInv, NEW c \in Check, phase[c] = "fetched"
  PROVE  /\ mon[c] \in Monitor /\ SourceOf[mon[c]] \in Source
         /\ page[c] \in Shown \cup Failed
         /\ page[c].price \in Price \cup {None}
         /\ page[c].error \in FetchError \cup {None}
         /\ page[c].error # None => page[c].price = None
         /\ CurrencyOf(page[c]) \in Currency \cup {None}
         /\ page[c].price # None => CurrencyOf(page[c]) \in Currency
<1>1. mon[c] \in Monitor /\ page[c] \in Shown \cup Failed
  BY DEF ViewInv, ChecksTyped
<1>2. /\ page[c].price \in Price \cup {None}
      /\ page[c].currency \in Currency \cup {None}
      /\ page[c].error \in FetchError \cup {None}
      /\ page[c].error # None => page[c].price = None
  BY <1>1 DEF Shown, Failed
<1> QED
  BY <1>1, <1>2 DEF CurrencyOf

(* The rows that a commit finds are those of its view.                     *)
LEMMA CommitSeesRows ==
  ASSUME ViewInv, NEW c \in Check, phase[c] = "fetched", Unchanged(c)
  PROVE  /\ seen[c].monitor = monitor[mon[c]]
         /\ SourceIsNew(c) => source[SourceOf[mon[c]]] = None
         /\ ~SourceIsNew(c) => /\ seen[c].source = source[SourceOf[mon[c]]]
                               /\ source[SourceOf[mon[c]]] \in SourceRow
<1>1. /\ seen[c].monitor \in {monitor[mon[c]], Stale}
      /\ seen[c].source \in {source[SourceOf[mon[c]]], None, Stale}
  BY DEF ViewInv, ViewsAgree
<1>2. mon[c] \in Monitor /\ SourceOf[mon[c]] \in Source
  BY PageOfCheck
<1>3. source[SourceOf[mon[c]]] \in SourceRow \cup {None}
  BY <1>2 DEF ViewInv, RowsTyped
<1> QED
  BY <1>1, <1>3 DEF Unchanged, SourceIsNew

LEMMA CheckErrorType ==
  ASSUME ViewInv, NEW c \in Check, phase[c] = "fetched"
  PROVE  /\ CheckError(c) \in CheckCode
         /\ CheckAfter(c) \in CheckRow
         /\ CheckAfter(c).error = CheckError(c)
         /\ CheckAfter(c).status = "success" <=> Good(c)
<1>1. CheckError(c) \in CheckCode
  BY PageOfCheck DEF CheckError, CheckCode
<1>2. ParserError(c) \in {None, "retryable", "final"}
  BY DEF ParserError
<1>3. StatusOf(page[c]) \in CheckStatus
  BY DEF StatusOf, CheckStatus
<1>4. CASE page[c].error = None /\ page[c].price # None
  <2>1. StatusOf(page[c]) = "success"
    BY <1>4 DEF StatusOf, FetchError
  <2> QED
    BY <1>1, <1>2, <1>4, <2>1 DEF CheckAfter, CheckRow, Good, CheckStatus
<1>5. CASE ~(page[c].error = None /\ page[c].price # None)
  <2>1. StatusOf(page[c]) \in {"parse_error", "timeout", "blocked", "failed"}
    <3>1. CASE page[c].error = None /\ page[c].price = None
      BY <3>1 DEF StatusOf
    <3>2. CASE page[c].error # None
      BY <3>2 DEF StatusOf
    <3> QED
      BY <1>5, <3>1, <3>2
  <2> QED
    BY <1>1, <1>2, <1>3, <1>5, <2>1 DEF CheckAfter, CheckRow, Good, CheckStatus
<1> QED
  BY <1>4, <1>5

(* The monitor's row after the commit of a check.                          *)
MonitorMade(c, old) ==
  [old EXCEPT !.last = IF Good(c) THEN page[c].price ELSE @,
              !.error = CheckError(c),
              !.status = IF page[c].error = "unsupported_product_url"
                         THEN "unsupported" ELSE @]

LEMMA MonitorAfterCheck ==
  ASSUME ViewInv, NEW c \in Check, phase[c] = "fetched", Unchanged(c)
  PROVE  /\ MonitorAfter(c) \in MonitorRow
         /\ MonitorAfter(c) = MonitorMade(c, monitor[mon[c]])
         /\ MonitorAfter(c).error = CheckError(c)
         /\ Good(c) => MonitorAfter(c).last = page[c].price
<1> DEFINE old == monitor[mon[c]]
           new == MonitorMade(c, old)
<1>1. old \in MonitorRow
  BY PageOfCheck DEF ViewInv, RowsTyped
<1>2. /\ new \in MonitorRow
      /\ new.error = CheckError(c)
      /\ Good(c) => new.last = page[c].price
  BY <1>1, PageOfCheck, CheckErrorType DEF MonitorMade, MonitorRow
<1>3. DOMAIN new = DOMAIN old /\ new = [f \in DOMAIN new |-> new[f]]
  BY <1>1, <1>2 DEF MonitorRow
<1>4. MonitorAfter(c) = Update(old, old, new)
  BY CommitSeesRows DEF MonitorAfter, MonitorMade
<1>5. MonitorAfter(c) = new
  BY <1>3, <1>4, UpdateOfSame
<1> QED
  BY <1>2, <1>5

(* The row of the source after it.                                         *)
SourceMade(c, old) ==
  IF Good(c)
  THEN [currency |-> CurrencyOf(page[c]), price |-> page[c].price,
        status |-> "active", error |-> None]
  ELSE [old EXCEPT !.status = "error",
                   !.error = IF CurrencyChanged(c) THEN "currency_changed"
                             ELSE page[c].error]

LEMMA SourceAfterCheck ==
  ASSUME ViewInv, NEW c \in Check, phase[c] = "fetched", Unchanged(c)
  PROVE  /\ SourceAfter(c) \in SourceRow
         /\ SourceAfter(c) = SourceMade(c, SourceSeen(c))
<1>1. SourceSeen(c) \in SourceRow
  BY CommitSeesRows DEF SourceSeen, NewSource, SourceRow
<1>2. SourceMade(c, SourceSeen(c)) \in SourceRow
  <2>1. CASE Good(c)
    <3>1. page[c].price \in Price /\ CurrencyOf(page[c]) \in Currency
      BY <2>1, PageOfCheck DEF Good
    <3> QED
      BY <2>1, <3>1 DEF SourceMade, SourceRow
  <2>2. CASE ~Good(c)
    BY <1>1, <2>2, PageOfCheck DEF SourceMade, SourceRow
  <2> QED
    BY <2>1, <2>2
<1>3. /\ DOMAIN SourceMade(c, SourceSeen(c)) = DOMAIN SourceSeen(c)
      /\ SourceMade(c, SourceSeen(c))
           = [f \in DOMAIN SourceMade(c, SourceSeen(c)) |->
                SourceMade(c, SourceSeen(c))[f]]
  BY <1>1, <1>2 DEF SourceRow
<1>4. SourceAfter(c)
        = Update(SourceSeen(c), SourceSeen(c), SourceMade(c, SourceSeen(c)))
  BY CommitSeesRows DEF SourceAfter, SourceMade, SourceSeen
<1> QED
  BY <1>2, <1>3, <1>4, UpdateOfSame

(* The alert that a commit adds.                                           *)
AlertOf(c) ==
  [mon |-> mon[c], target |-> monitor[mon[c]].target, price |-> page[c].price,
   currency |-> CurrencyOf(page[c]), status |-> "pending", recent |-> TRUE]

LEMMA NewAlertIs ==
  ASSUME ViewInv, NEW c \in Check, phase[c] = "fetched", Unchanged(c), Alerts(c)
  PROVE  /\ NewAlert(c) \in AlertRow
         /\ NewAlert(c) = IF HasDuplicate(c, AlertOf(c))
                          THEN [AlertOf(c) EXCEPT !.status = "duplicated"]
                          ELSE AlertOf(c)
         /\ AlertOf(c) \in AlertRow
         /\ monitor[mon[c]].channel # None
         /\ page[c].price <= monitor[mon[c]].target
<1>1. seen[c].monitor = monitor[mon[c]] /\ monitor[mon[c]] \in MonitorRow
  BY CommitSeesRows, PageOfCheck DEF ViewInv, RowsTyped
<1>2. /\ page[c].price \in Price /\ CurrencyOf(page[c]) \in Currency
      /\ mon[c] \in Monitor
  BY PageOfCheck DEF Alerts, Good
<1>3. /\ monitor[mon[c]].target \in Price
      /\ page[c].price <= monitor[mon[c]].target
      /\ monitor[mon[c]].channel # None
  BY <1>1 DEF Alerts, ShouldNotify, MonitorRow
<1>4. AlertOf(c) \in AlertRow
  BY <1>2, <1>3 DEF AlertOf, AlertRow, AlertStatus
<1>5. NewAlert(c) = IF HasDuplicate(c, AlertOf(c))
                    THEN [AlertOf(c) EXCEPT !.status = "duplicated"]
                    ELSE AlertOf(c)
  BY <1>1 DEF NewAlert, AlertOf
<1>6. [AlertOf(c) EXCEPT !.status = "duplicated"] \in AlertRow
  BY <1>4 DEF AlertRow, AlertStatus
<1> QED
  BY <1>3, <1>4, <1>5, <1>6

LEMMA AlertsAfterCommit ==
  ASSUME ViewInv, NEW c \in Check, CommitCheck(c)
  PROVE  \/ UNCHANGED alerts
         \/ /\ Alerts(c)
            /\ alerts' \in Seq(AlertRow)
            /\ Len(alerts') = Len(alerts) + 1 /\ Len(alerts') <= MaxAlerts
            /\ Len(alerts') \in DOMAIN alerts' \ DOMAIN alerts
            /\ DOMAIN alerts' = DOMAIN alerts \cup {Len(alerts')}
            /\ alerts'[Len(alerts')] = NewAlert(c)
            /\ \A i \in DOMAIN alerts : alerts'[i] = alerts[i]
<1>1. alerts \in Seq(AlertRow) /\ Len(alerts) \in Nat
  BY DEF ViewInv, RowsTyped
<1>2. CASE ~Alerts(c)
  BY <1>2 DEF CommitCheck
<1>3. CASE Alerts(c)
  <2>1. alerts' = Append(alerts, NewAlert(c)) /\ Len(alerts) < MaxAlerts
    BY <1>3 DEF CommitCheck
  <2>2. NewAlert(c) \in AlertRow
    BY <1>3, NewAlertIs DEF CommitCheck
  <2>3. /\ alerts' \in Seq(AlertRow)
        /\ Len(alerts') = Len(alerts) + 1
        /\ \A i \in 1..Len(alerts) : alerts'[i] = alerts[i]
        /\ alerts'[Len(alerts) + 1] = NewAlert(c)
    BY <1>1, <2>1, <2>2, AppendProperties
  <2>4. /\ DOMAIN alerts = 1..Len(alerts)
        /\ DOMAIN alerts' = 1..(Len(alerts) + 1)
    BY <1>1, <2>3
  <2>5. Len(alerts') <= MaxAlerts
    BY <1>1, <2>1, <2>3
  <2>6. /\ Len(alerts') \in DOMAIN alerts' \ DOMAIN alerts
        /\ DOMAIN alerts' = DOMAIN alerts \cup {Len(alerts')}
    BY <1>1, <2>3, <2>4
  <2> QED
    BY <1>3, <2>3, <2>4, <2>5, <2>6, Zenon
<1> QED
  BY <1>2, <1>3

LEMMA CommitKeepsInv ==
  ASSUME ViewInv, NEW c \in Check, CommitCheck(c)
  PROVE  ViewInv'
<1> DEFINE m == mon[c]
           s == SourceOf[m]
<1>1. /\ phase[c] = "fetched" /\ Unchanged(c)
      /\ m \in Monitor /\ s \in Source
  BY PageOfCheck DEF CommitCheck
<1>2. /\ monitor' = [monitor EXCEPT ![m] = MonitorAfter(c)]
      /\ source' = [source EXCEPT ![s] = SourceAfter(c)]
      /\ lastCheck' = [lastCheck EXCEPT ![m] = CheckAfter(c)]
      /\ edits' = edits
      /\ EndCheck(c, Staled({m}, {s}, c))
  BY DEF CommitCheck
<1>3. RowsTyped'
  <2>1. monitor' \in [Monitor -> MonitorRow]
    BY <1>1, <1>2, MonitorAfterCheck DEF ViewInv, RowsTyped
  <2>2. source' \in [Source -> SourceRow \cup {None}]
    BY <1>1, <1>2, SourceAfterCheck DEF ViewInv, RowsTyped
  <2>3. lastCheck' \in [Monitor -> CheckRow \cup {None}]
    BY <1>1, <1>2, CheckErrorType DEF ViewInv, RowsTyped
  <2>4. alerts' \in Seq(AlertRow) /\ Len(alerts') <= MaxAlerts
    BY AlertsAfterCommit DEF ViewInv, RowsTyped
  <2> QED
    BY <1>2, <2>1, <2>2, <2>3, <2>4 DEF ViewInv, RowsTyped
<1>4. ChecksTyped'
  <2>1. \A k \in Check : mon[k] = None \/ k = c => seen'[k] = NoView
    BY <1>2 DEF EndCheck, Staled
  <2>2. \A k \in Check :
          /\ phase'[k] = IF k = c THEN "idle" ELSE phase[k]
          /\ mon'[k] = IF k = c THEN None ELSE mon[k]
          /\ page'[k] = IF k = c THEN None ELSE page[k]
    BY <1>2 DEF ViewInv, ChecksTyped, EndCheck
  <2>3. /\ phase' \in [Check -> {"idle", "fetching", "fetched"}]
        /\ mon' \in [Check -> Monitor \cup {None}]
        /\ page' \in [Check -> Page \cup {None}]
    BY <1>2 DEF ViewInv, ChecksTyped, EndCheck
  <2> QED
    BY <2>1, <2>2, <2>3 DEF ViewInv, ChecksTyped
<1>5. ViewsTyped' /\ ViewsAgree' /\ LiveSeen' /\ LiveCounts'
  <2>1. /\ seen' = Staled({m}, {s}, c)
        /\ \A k \in Check :
             phase'[k] # "idle"
               => k # c /\ phase[k] # "idle" /\ mon'[k] = mon[k]
    BY <1>2 DEF ViewInv, ChecksTyped, EndCheck
  <2>2. /\ \A q \in Monitor \ {m} : monitor'[q] = monitor[q]
        /\ \A q \in Source \ {s} : source'[q] = source[q]
    BY <1>2 DEF ViewInv, RowsTyped
  <2>3. CASE UNCHANGED alerts
    BY <1>1, <2>1, <2>2, <2>3, WriteKeepsViews
  <2>4. CASE ~UNCHANGED alerts
    <3>1. /\ \A i \in DOMAIN alerts : i \in DOMAIN alerts' /\ alerts'[i] = alerts[i]
          /\ \A i \in DOMAIN alerts' \ DOMAIN alerts : alerts'[i] = NewAlert(c)
          /\ Alerts(c)
      BY <2>4, AlertsAfterCommit
    <3>2. NewAlert(c).mon = m
      BY DEF NewAlert
    <3> QED
      BY <1>1, <2>1, <2>2, <3>1, <3>2, WriteKeepsViews
  <2> QED
    BY <2>3, <2>4
<1> QED
  BY <1>3, <1>4, <1>5 DEF ViewInv

(* The kinds of steps, and what each may do.                               *)
LEMMA NextSplits ==
  ASSUME Next
  PROVE  \/ \E c \in Check, m \in Monitor : Begin(c, m)
         \/ \E c \in Check, p \in Page : Fetch(c, p)
         \/ \E c \in Check : LoseInsert(c)
         \/ \E c \in Check : Abort(c) \/ RefuseInactive(c)
         \/ \E c \in Check : CommitCheck(c)
         \/ \E m \in Monitor : SaveEdit(m) \/ MarkError(m)
         \/ \E i \in DOMAIN alerts : Deliver(i) \/ LeaveWindow(i)
BY DEF Next

LEMMA StepKeepsInv ==
  ASSUME ViewInv, [Next]_vars
  PROVE  ViewInv'
<1>1. CASE UNCHANGED vars
  BY <1>1 DEF vars, rowVars, checkVars, ViewInv, RowsTyped, ChecksTyped,
              ViewsTyped, ViewsAgree, LiveSeen, LiveCounts, LiveAlerts
<1>2. ASSUME NEW c \in Check, NEW m \in Monitor, Begin(c, m)
      PROVE  ViewInv'
  <2>1. page[c] = None
    BY <1>2 DEF Begin, ViewInv, ChecksTyped
  <2> QED
    BY <1>2, <2>1, OpenKeepsInv DEF Begin
<1>3. ASSUME NEW c \in Check, LoseInsert(c)
      PROVE  ViewInv'
  <2>1. /\ mon[c] \in Monitor /\ page[c] # None
        /\ mon' = [mon EXCEPT ![c] = mon[c]]
        /\ phase' = [phase EXCEPT ![c] = "fetched"]
    BY <1>3 DEF LoseInsert, ViewInv, ChecksTyped
  <2> QED
    BY <1>3, <2>1, OpenKeepsInv DEF LoseInsert
<1>4. ASSUME NEW c \in Check, Abort(c) \/ RefuseInactive(c)
      PROVE  ViewInv'
  BY <1>4, EndKeepsInv DEF Abort, RefuseInactive
<1> QED
  BY <1>1, <1>2, <1>3, <1>4, FetchKeepsInv, CommitKeepsInv, EditKeepsInv,
     AlertKeepsInv, NextSplits

(* What a check may still write is what it has seen, and it has seen the   *)
(* alerts that count: at every moment, however the checks of a monitor, or *)
(* of the monitors of one source, run side by side with edits and          *)
(* deliveries.                                                             *)
THEOREM ViewsSound == Spec => []ViewInv
<1>1. Init => ViewInv
  BY InitInv
<1>2. ViewInv /\ [Next]_vars => ViewInv'
  BY StepKeepsInv
<1> QED
  BY <1>1, <1>2, PTL DEF Spec

(* Every variable keeps its type.                                          *)
THEOREM TypeCorrect == Spec => []TypeOK
<1>1. ViewInv => TypeOK
  BY ViewInvTyped
<1> QED
  BY <1>1, ViewsSound, PTL

-----------------------------------------------------------------------------
(* Steps that touch no alert, and what the others do to them.              *)
LEMMA AlertsChange ==
  ASSUME [Next]_vars
  PROVE  \/ UNCHANGED alerts
         \/ \E c \in Check : CommitCheck(c)
         \/ \E i \in DOMAIN alerts : Deliver(i) \/ LeaveWindow(i)
<1>1. CASE UNCHANGED vars
  BY <1>1 DEF vars, rowVars
<1>2. CASE Next
  BY <1>2, NextSplits
     DEF Begin, Fetch, LoseInsert, Abort, RefuseInactive, SaveEdit, MarkError,
         rowVars
<1> QED
  BY <1>1, <1>2

(* What a new alert says does not depend on whether it is suppressed.      *)
LEMMA NewAlertSays ==
  ASSUME ViewInv, NEW c \in Check, phase[c] = "fetched", Unchanged(c), Alerts(c)
  PROVE  SaysTheSame(NewAlert(c), AlertOf(c))
<1>1. AlertOf(c) \in AlertRow
  BY NewAlertIs
<1>2. NewAlert(c) \in {[AlertOf(c) EXCEPT !.status = "duplicated"], AlertOf(c)}
  BY NewAlertIs
<1> QED
  BY <1>1, <1>2 DEF SaysTheSame, AlertRow

(* An alert that counts against a second one.                              *)
Counts(a) == a.recent /\ a.status \notin {"skipped", "duplicated"}

(* An alert that a commit adds as pending is of no group that stands.      *)
LEMMA NewAlertIsNew ==
  ASSUME ViewInv, NEW c \in Check, CommitCheck(c), Alerts(c),
         NEW i \in DOMAIN alerts, Stands(i),
         SameGroup(alerts[i], NewAlert(c))
  PROVE  NewAlert(c).status = "duplicated"
<1>1. phase[c] = "fetched" /\ Unchanged(c)
  BY DEF CommitCheck
<1>2. alerts[i] \in AlertRow /\ AlertOf(c) \in AlertRow /\ NewAlert(c) \in AlertRow
  BY <1>1, NewAlertIs DEF ViewInv, RowsTyped
<1>3. SameGroup(alerts[i], AlertOf(c))
  BY <1>1, NewAlertSays DEF SameGroup, SaysTheSame
<1>4. i \in LiveAlerts /\ alerts[i].recent
  BY <1>2 DEF Stands, LiveAlerts, LiveStatus, AlertRow, AlertStatus
<1>5. i \in seen[c].live
  <2>1. alerts[i].mon = mon[c]
    BY <1>3 DEF SameGroup, AlertOf
  <2> QED
    BY <1>1, <1>4, <2>1 DEF ViewInv, LiveSeen, Unchanged
<1>6. HasDuplicate(c, AlertOf(c))
  BY <1>3, <1>4, <1>5 DEF HasDuplicate
<1> QED
  BY <1>1, <1>2, <1>6, NewAlertIs DEF AlertRow

(* Inside the dedupe window a dedupe group has one alert, although each    *)
(* check reads the alerts before it fetches, and inserts long after.       *)
THEOREM NoSecondAlert == Spec => []OneAlertPerWindow
<1>1. Init => OneAlertPerWindow
  BY DEF Init, OneAlertPerWindow
<1>2. ViewInv /\ ViewInv' /\ OneAlertPerWindow /\ [Next]_vars => OneAlertPerWindow'
  <2> SUFFICES ASSUME ViewInv, ViewInv', OneAlertPerWindow, [Next]_vars
               PROVE  OneAlertPerWindow'
    OBVIOUS
  <2>1. CASE UNCHANGED alerts
    BY <2>1 DEF OneAlertPerWindow, Stands
  <2>2. ASSUME NEW c \in Check, CommitCheck(c), ~UNCHANGED alerts
        PROVE  OneAlertPerWindow'
    <3> DEFINE n == Len(alerts')
    <3>1. /\ Alerts(c)
          /\ n \notin DOMAIN alerts
          /\ DOMAIN alerts' = DOMAIN alerts \cup {n}
          /\ alerts'[n] = NewAlert(c)
          /\ \A i \in DOMAIN alerts : alerts'[i] = alerts[i]
      BY <2>2, AlertsAfterCommit
    <3>2. ASSUME NEW i \in DOMAIN alerts, Counts(alerts[i]),
                 SameGroup(alerts[i], NewAlert(c))
          PROVE  ~Counts(NewAlert(c))
      <4>1. NewAlert(c).status = "duplicated"
        BY <2>2, <3>1, <3>2, NewAlertIsNew DEF Stands, Counts
      <4> QED
        BY <4>1 DEF Counts
    <3>3. ASSUME NEW i \in DOMAIN alerts', NEW k \in DOMAIN alerts',
                 Counts(alerts'[i]), Counts(alerts'[k]),
                 SameGroup(alerts'[i], alerts'[k])
          PROVE  i = k
      <4>1. CASE i # n /\ k # n
        BY <3>1, <3>3, <4>1 DEF OneAlertPerWindow, Stands, Counts
      <4>2. CASE i # n /\ k = n
        BY <3>1, <3>2, <3>3, <4>2
      <4>3. CASE i = n /\ k # n
        <5>1. SameGroup(alerts'[k], alerts'[i])
          BY <3>3 DEF SameGroup
        <5> QED
          BY <3>1, <3>2, <3>3, <4>3, <5>1
      <4> QED
        BY <4>1, <4>2, <4>3
    <3> QED
      BY <3>3 DEF OneAlertPerWindow, Stands, Counts
  <2>3. ASSUME NEW j \in DOMAIN alerts, Deliver(j) \/ LeaveWindow(j)
        PROVE  OneAlertPerWindow'
    <3>1. PICK a \in AlertRow :
            /\ alerts' = [alerts EXCEPT ![j] = a]
            /\ SaysTheSame(a, alerts[j])
            /\ a.recent => alerts[j].recent
            /\ a.status \in LiveStatus => alerts[j].status \in LiveStatus
      BY <2>3, AlertStep DEF ViewInv
    <3>2. /\ DOMAIN alerts' = DOMAIN alerts
          /\ \A i \in DOMAIN alerts :
               /\ alerts'[i] = IF i = j THEN a ELSE alerts[i]
               /\ alerts[i] \in AlertRow
      BY <3>1, ExceptSeq DEF ViewInv, RowsTyped
    <3>3. ASSUME NEW i \in DOMAIN alerts, Stands(i)'
          PROVE  Stands(i) /\ SaysTheSame(alerts'[i], alerts[i])
      BY <3>1, <3>2, <3>3
         DEF Stands, SaysTheSame, LiveStatus, AlertRow, AlertStatus
    <3> QED
      BY <3>2, <3>3 DEF OneAlertPerWindow, SameGroup, SaysTheSame
  <2> QED
    BY <2>1, <2>2, <2>3, AlertsChange
<1> QED
  BY <1>1, <1>2, ViewsSound, PTL DEF Spec

(* An alert is suppressed only for an earlier one that says the same and   *)
(* was not suppressed itself.                                              *)
THEOREM SuppressionIsSound == Spec => []SuppressedByTwin
<1>1. Init => SuppressedByTwin
  BY DEF Init, SuppressedByTwin
<1>2. ViewInv /\ SuppressedByTwin /\ [Next]_vars => SuppressedByTwin'
  <2> SUFFICES ASSUME ViewInv, SuppressedByTwin, [Next]_vars
               PROVE  SuppressedByTwin'
    OBVIOUS
  <2>0. /\ DOMAIN alerts = 1..Len(alerts) /\ Len(alerts) \in Nat
        /\ \A i \in DOMAIN alerts : alerts[i] \in AlertRow
    BY DEF ViewInv, RowsTyped
  <2>1. CASE UNCHANGED alerts
    BY <2>1 DEF SuppressedByTwin, Message
  <2>2. ASSUME NEW c \in Check, CommitCheck(c), ~UNCHANGED alerts
        PROVE  SuppressedByTwin'
    <3>0. PICK n \in Nat : n = Len(alerts) + 1
      BY <2>0
    <3>1. /\ Alerts(c)
          /\ DOMAIN alerts' = DOMAIN alerts \cup {n}
          /\ alerts'[n] = NewAlert(c)
          /\ \A i \in DOMAIN alerts : alerts'[i] = alerts[i]
      BY <2>2, <3>0, AlertsAfterCommit
    <3>2. phase[c] = "fetched" /\ Unchanged(c)
      BY <2>2 DEF CommitCheck
    <3>3. ASSUME NEW i \in DOMAIN alerts, alerts'[i].status = "duplicated"
          PROVE  \E k \in 1..(i - 1) :
                   alerts'[k].status # "duplicated" /\ Message(k)' = Message(i)'
      <4>1. PICK k \in 1..(i - 1) :
              alerts[k].status # "duplicated" /\ Message(k) = Message(i)
        BY <3>1, <3>3 DEF SuppressedByTwin
      <4>2. k \in DOMAIN alerts
        BY <2>0
      <4> QED
        BY <3>1, <4>1, <4>2 DEF Message
    <3>4. ASSUME alerts'[n].status = "duplicated"
          PROVE  \E k \in 1..(n - 1) :
                   alerts'[k].status # "duplicated" /\ Message(k)' = Message(n)'
      <4>1. NewAlert(c).status = "duplicated"
        BY <3>1, <3>4
      <4>2. HasDuplicate(c, AlertOf(c))
        BY <3>1, <3>2, <4>1, NewAlertIs DEF AlertOf
      <4>3. PICK k \in seen[c].live : SameGroup(alerts[k], AlertOf(c))
        BY <4>2 DEF HasDuplicate
      <4>4. k \in DOMAIN alerts /\ alerts[k].status # "duplicated"
        BY DEF ViewInv, LiveCounts
      <4>5. SaysTheSame(alerts'[n], alerts'[k])
        <5>1. SaysTheSame(NewAlert(c), AlertOf(c))
          BY <3>1, <3>2, NewAlertSays
        <5> QED
          BY <3>1, <4>3, <4>4, <5>1 DEF SameGroup, SaysTheSame
      <4>6. Message(k)' = Message(n)'
        BY <4>5 DEF Message, SaysTheSame
      <4> QED
        BY <2>0, <3>0, <3>1, <4>4, <4>6
    <3> QED
      BY <3>1, <3>3, <3>4 DEF SuppressedByTwin
  <2>3. ASSUME NEW j \in DOMAIN alerts, Deliver(j) \/ LeaveWindow(j)
        PROVE  SuppressedByTwin'
    <3>1. PICK a \in AlertRow :
            /\ alerts' = [alerts EXCEPT ![j] = a]
            /\ SaysTheSame(a, alerts[j])
            /\ a.status = "duplicated" <=> alerts[j].status = "duplicated"
      BY <2>3, AlertStep DEF ViewInv
    <3>2. /\ DOMAIN alerts' = DOMAIN alerts
          /\ \A i \in DOMAIN alerts :
               /\ SaysTheSame(alerts'[i], alerts[i])
               /\ alerts'[i].status = "duplicated" <=> alerts[i].status = "duplicated"
      BY <3>1, ExceptSeq DEF ViewInv, RowsTyped, SaysTheSame
    <3>3. \A i \in DOMAIN alerts : Message(i)' = Message(i)
      BY <3>2 DEF Message, SaysTheSame
    <3> SUFFICES ASSUME NEW i \in DOMAIN alerts', alerts'[i].status = "duplicated"
                 PROVE  \E k \in 1..(i - 1) : /\ alerts'[k].status # "duplicated"
                                              /\ Message(k)' = Message(i)'
      BY DEF SuppressedByTwin
    <3>4. PICK k \in 1..(i - 1) :
            alerts[k].status # "duplicated" /\ Message(k) = Message(i)
      BY <3>2 DEF SuppressedByTwin
    <3>5. i \in DOMAIN alerts /\ k \in DOMAIN alerts
      BY <2>0, <3>2
    <3> QED
      BY <3>2, <3>3, <3>4, <3>5
  <2> QED
    BY <2>1, <2>2, <2>3, AlertsChange
<1> QED
  BY <1>1, <1>2, ViewsSound, PTL DEF Spec

-----------------------------------------------------------------------------
(* Only a commit of a check changes what checks record, and the last price *)
(* and the source with it.                                                 *)
LEMMA RecordsChange ==
  ASSUME [Next]_vars
  PROVE  \/ UNCHANGED <<monitor, source, lastCheck>>
         \/ \E c \in Check : CommitCheck(c)
         \/ \E m \in Monitor : SaveEdit(m) \/ MarkError(m)
<1>1. CASE UNCHANGED vars
  BY <1>1 DEF vars, rowVars
<1>2. CASE Next
  BY <1>2, NextSplits
     DEF Begin, Fetch, LoseInsert, Abort, RefuseInactive, Deliver, LeaveWindow,
         rowVars
<1> QED
  BY <1>1, <1>2

LEMMA EditChanges ==
  ASSUME RowsTyped, NEW m \in Monitor, SaveEdit(m) \/ MarkError(m)
  PROVE  /\ UNCHANGED <<source, lastCheck>>
         /\ \A q \in Monitor :
              /\ monitor'[q].last = monitor[q].last
              /\ monitor'[q].error \in {monitor[q].error, "job_failed"}
<1>1. monitor[m] \in MonitorRow
  BY DEF RowsTyped
<1>2. /\ UNCHANGED <<source, lastCheck>>
      /\ \A q \in Monitor \ {m} : monitor'[q] = monitor[q]
  BY DEF SaveEdit, MarkError, RowsTyped
<1>3. /\ monitor'[m].last = monitor[m].last
      /\ monitor'[m].error \in {monitor[m].error, "job_failed"}
  <2>1. CASE SaveEdit(m)
    <3>1. PICK s \in {"active", "stopped"}, t \in Target, ch \in {"email", None} :
            monitor'[m] = [monitor[m] EXCEPT !.status = s, !.target = t,
                                             !.channel = ch]
      BY <2>1 DEF SaveEdit, RowsTyped
    <3> QED
      BY <1>1, <3>1 DEF MonitorRow
  <2>2. CASE MarkError(m)
    <3>1. monitor'[m] = [monitor[m] EXCEPT !.status = "stopped",
                                           !.error = "job_failed"]
      BY <2>2 DEF MarkError, RowsTyped
    <3> QED
      BY <1>1, <3>1 DEF MonitorRow
  <2> QED
    BY <2>1, <2>2
<1> QED
  BY <1>2, <1>3

LEMMA CommitRecords ==
  ASSUME ViewInv, NEW c \in Check, CommitCheck(c)
  PROVE  /\ mon[c] \in Monitor /\ SourceOf[mon[c]] \in Source
         /\ monitor'[mon[c]] = MonitorAfter(c)
         /\ source'[SourceOf[mon[c]]] = SourceAfter(c)
         /\ lastCheck'[mon[c]] = CheckAfter(c)
         /\ \A q \in Monitor \ {mon[c]} :
              monitor'[q] = monitor[q] /\ lastCheck'[q] = lastCheck[q]
         /\ \A q \in Source \ {SourceOf[mon[c]]} : source'[q] = source[q]
<1>1. phase[c] = "fetched"
  BY DEF CommitCheck
<1> QED
  BY <1>1, PageOfCheck DEF CommitCheck, ViewInv, RowsTyped

(* The error that a monitor shows is that of its newest check, or that of  *)
(* a job that failed since.                                                *)
THEOREM NewestCheckIsShown == Spec => []MonitorShowsNewestCheck
<1>1. Init => MonitorShowsNewestCheck
  BY DEF Init, MonitorShowsNewestCheck
<1>2. ViewInv /\ MonitorShowsNewestCheck /\ [Next]_vars => MonitorShowsNewestCheck'
  <2> SUFFICES ASSUME ViewInv, MonitorShowsNewestCheck, [Next]_vars
               PROVE  MonitorShowsNewestCheck'
    OBVIOUS
  <2>1. CASE UNCHANGED <<monitor, source, lastCheck>>
    BY <2>1 DEF MonitorShowsNewestCheck
  <2>2. ASSUME NEW c \in Check, CommitCheck(c)
        PROVE  MonitorShowsNewestCheck'
    <3>1. phase[c] = "fetched" /\ Unchanged(c)
      BY <2>2 DEF CommitCheck
    <3>2. /\ monitor'[mon[c]].error = CheckError(c)
          /\ lastCheck'[mon[c]] # None
          /\ lastCheck'[mon[c]].error = CheckError(c)
      BY <2>2, <3>1, CommitRecords, MonitorAfterCheck, CheckErrorType
    <3> QED
      BY <2>2, <3>2, CommitRecords DEF MonitorShowsNewestCheck
  <2>3. ASSUME NEW m \in Monitor, SaveEdit(m) \/ MarkError(m)
        PROVE  MonitorShowsNewestCheck'
    BY <2>3, EditChanges DEF ViewInv, MonitorShowsNewestCheck
  <2> QED
    BY <2>1, <2>2, <2>3, RecordsChange
<1> QED
  BY <1>1, <1>2, ViewsSound, PTL DEF Spec

(* The source is left as its check found it, and as the monitor shows.     *)
LEMMA CommitShows ==
  ASSUME ViewInv, NEW c \in Check, CommitCheck(c),
         NEW m \in Monitor, m = mon[c]
  PROVE  ShowsCheckOf(m)'
<1> DEFINE row == SourceMade(c, SourceSeen(c))
<1>1. phase[c] = "fetched" /\ Unchanged(c)
  BY DEF CommitCheck
<1>2. /\ lastCheck'[m] = CheckAfter(c) /\ monitor'[m] = MonitorAfter(c)
      /\ source'[SourceOf[m]] = row
  BY <1>1, CommitRecords, SourceAfterCheck
<1>3. lastCheck'[m] # None
  BY <1>1, <1>2, CheckErrorType
<1>4. CASE Good(c)
  <2>1. lastCheck'[m].status = "success" /\ monitor'[m].last = page[c].price
    BY <1>1, <1>2, <1>4, CheckErrorType, MonitorAfterCheck
  <2>2. row = [currency |-> row.currency, price |-> page[c].price,
               status |-> "active", error |-> None]
    BY <1>4 DEF SourceMade
  <2>3. source'[SourceOf[m]]
          = [currency |-> source'[SourceOf[m]].currency,
             price |-> monitor'[m].last, status |-> "active", error |-> None]
    BY <1>2, <2>1, <2>2
  <2> QED
    BY <1>3, <2>1, <2>3 DEF ShowsCheckOf
<1>5. CASE ~Good(c)
  <2>1. lastCheck'[m].status # "success" /\ lastCheck'[m].error = CheckError(c)
    BY <1>1, <1>2, <1>5, CheckErrorType
  <2>2. /\ row.status = "error"
        /\ row.error = IF CurrencyChanged(c) THEN "currency_changed"
                       ELSE page[c].error
    <3>1. SourceSeen(c) \in SourceRow
      BY <1>1, CommitSeesRows DEF SourceSeen, NewSource, SourceRow
    <3> QED
      BY <1>5, <3>1 DEF SourceMade, SourceRow
  <2>3. row.error = IF CheckError(c) = "price_not_found" THEN None
                    ELSE CheckError(c)
    BY <1>1, <1>5, <2>2, PageOfCheck DEF CheckError, Good, FetchError
  <2> QED
    BY <1>2, <1>3, <2>1, <2>2, <2>3 DEF ShowsCheckOf
<1> QED
  BY <1>4, <1>5

(* What a source shows is the outcome of one check, not a mix, although    *)
(* every check of its monitors writes it.                                  *)
THEOREM OneCheckIsShown == Spec => []SourceShowsOneCheck
<1>1. Init => SourceShowsOneCheck
  BY DEF Init, SourceShowsOneCheck
<1>2. ViewInv /\ SourceShowsOneCheck /\ [Next]_vars => SourceShowsOneCheck'
  <2> SUFFICES ASSUME ViewInv, SourceShowsOneCheck, [Next]_vars,
                      NEW s \in Source, source'[s] # None
               PROVE  \E m \in Monitor : SourceOf[m] = s /\ ShowsCheckOf(m)'
    BY DEF SourceShowsOneCheck
  <2>1. CASE UNCHANGED <<monitor, source, lastCheck>>
    BY <2>1 DEF SourceShowsOneCheck, ShowsCheckOf
  <2>2. ASSUME NEW c \in Check, CommitCheck(c)
        PROVE  \E m \in Monitor : SourceOf[m] = s /\ ShowsCheckOf(m)'
    <3>1. PICK q \in Monitor : q = mon[c]
      BY <2>2, CommitRecords
    <3>2. CASE s = SourceOf[q]
      BY <2>2, <3>1, <3>2, CommitShows
    <3>3. CASE s # SourceOf[q]
      <4>1. source'[s] = source[s]
        BY <2>2, <3>1, <3>3, CommitRecords
      <4>2. PICK m \in Monitor : SourceOf[m] = s /\ ShowsCheckOf(m)
        BY <4>1 DEF SourceShowsOneCheck
      <4>3. monitor'[m] = monitor[m] /\ lastCheck'[m] = lastCheck[m]
        BY <2>2, <3>1, <3>3, <4>2, CommitRecords
      <4> QED
        BY <4>1, <4>2, <4>3 DEF ShowsCheckOf
    <3> QED
      BY <3>2, <3>3
  <2>3. ASSUME NEW q \in Monitor, SaveEdit(q) \/ MarkError(q)
        PROVE  \E m \in Monitor : SourceOf[m] = s /\ ShowsCheckOf(m)'
    <3>1. /\ UNCHANGED <<source, lastCheck>>
          /\ \A m \in Monitor : monitor'[m].last = monitor[m].last
      BY <2>3, EditChanges DEF ViewInv
    <3>2. PICK m \in Monitor : SourceOf[m] = s /\ ShowsCheckOf(m)
      BY <3>1 DEF SourceShowsOneCheck
    <3> QED
      BY <3>1, <3>2 DEF ShowsCheckOf
  <2> QED
    BY <2>1, <2>2, <2>3, RecordsChange
<1> QED
  BY <1>1, <1>2, ViewsSound, PTL DEF Spec

-----------------------------------------------------------------------------
(* An alert is created only by the commit of a check.                      *)
LEMMA AlertIsMade ==
  ASSUME ViewInv, [Next]_vars, NEW i \in DOMAIN alerts', IsNewAlert(i)
  PROVE  \E c \in Check :
           /\ CommitCheck(c) /\ Alerts(c)
           /\ phase[c] = "fetched" /\ Unchanged(c)
           /\ alerts'[i] = AlertOf(c)
<1>1. i \notin DOMAIN alerts /\ alerts'[i].status = "pending"
  BY DEF IsNewAlert
<1>2. ~UNCHANGED alerts
  BY <1>1
<1>3. ASSUME NEW k \in DOMAIN alerts, Deliver(k) \/ LeaveWindow(k)
      PROVE  FALSE
  <2>1. PICK a \in AlertRow : alerts' = [alerts EXCEPT ![k] = a]
    BY <1>3, AlertStep DEF ViewInv
  <2> QED
    BY <1>1, <2>1
<1>4. PICK c \in Check : CommitCheck(c)
  BY <1>2, <1>3, AlertsChange
<1>5. phase[c] = "fetched" /\ Unchanged(c)
  BY <1>4 DEF CommitCheck
<1>6. Alerts(c) /\ alerts'[i] = NewAlert(c)
  BY <1>1, <1>2, <1>4, AlertsAfterCommit
<1>7. NewAlert(c) = AlertOf(c)
  <2>1. AlertOf(c) \in AlertRow
    BY <1>5, <1>6, NewAlertIs
  <2> QED
    BY <1>1, <1>5, <1>6, <2>1, NewAlertIs DEF AlertRow
<1> QED
  BY <1>4, <1>5, <1>6, <1>7

(* An alert is created for what the user wants at that moment, although    *)
(* the check read it before the provider answered.                         *)
THEOREM AlertsAreWanted == Spec => AlertWithinTarget
<1>1. ViewInv /\ [Next]_vars
        => \A i \in DOMAIN alerts' :
             IsNewAlert(i)
               => LET a == alerts'[i]
                  IN  /\ monitor[a.mon].status = "active"
                      /\ monitor[a.mon].channel # None
                      /\ monitor[a.mon].target = a.target
                      /\ a.price <= a.target
  <2> SUFFICES ASSUME ViewInv, [Next]_vars, NEW i \in DOMAIN alerts',
                      IsNewAlert(i)
               PROVE  /\ monitor[alerts'[i].mon].status = "active"
                      /\ monitor[alerts'[i].mon].channel # None
                      /\ monitor[alerts'[i].mon].target = alerts'[i].target
                      /\ alerts'[i].price <= alerts'[i].target
    OBVIOUS
  <2>1. PICK c \in Check :
          /\ CommitCheck(c) /\ Alerts(c)
          /\ phase[c] = "fetched" /\ Unchanged(c)
          /\ alerts'[i] = AlertOf(c)
    BY AlertIsMade
  <2>2. monitor[mon[c]].status = "active"
    BY <2>1, CommitSeesRows DEF CommitCheck
  <2>3. /\ monitor[mon[c]].channel # None
        /\ page[c].price <= monitor[mon[c]].target
    BY <2>1, NewAlertIs
  <2> QED
    BY <2>1, <2>2, <2>3 DEF AlertOf
<1> QED
  BY <1>1, ViewsSound, PTL DEF Spec, AlertWithinTarget

(* No alert compares a price with one in another currency.                 *)
THEOREM AlertsKeepCurrency == Spec => AlertInSourceCurrency
<1>1. ViewInv /\ [Next]_vars
        => \A i \in DOMAIN alerts' :
             IsNewAlert(i)
               => LET s == SourceOf[alerts'[i].mon]
                  IN  \/ source[s] = None
                      \/ source[s].currency \in {None, alerts'[i].currency}
  <2> SUFFICES ASSUME ViewInv, [Next]_vars, NEW i \in DOMAIN alerts',
                      IsNewAlert(i)
               PROVE  LET s == SourceOf[alerts'[i].mon]
                      IN  \/ source[s] = None
                          \/ source[s].currency \in {None, alerts'[i].currency}
    OBVIOUS
  <2>1. PICK c \in Check :
          /\ CommitCheck(c) /\ Alerts(c)
          /\ phase[c] = "fetched" /\ Unchanged(c)
          /\ alerts'[i] = AlertOf(c)
    BY AlertIsMade
  <2>2. alerts'[i].mon = mon[c] /\ alerts'[i].currency = CurrencyOf(page[c])
    BY <2>1 DEF AlertOf
  <2>3. ~CurrencyChanged(c) /\ CurrencyOf(page[c]) # None
    BY <2>1, PageOfCheck DEF Alerts, Good
  <2>4. CASE SourceIsNew(c)
    BY <2>1, <2>2, <2>4, CommitSeesRows
  <2>5. CASE ~SourceIsNew(c)
    BY <2>1, <2>2, <2>3, <2>5, CommitSeesRows DEF CurrencyChanged, SourceSeen
  <2> QED
    BY <2>4, <2>5
<1> QED
  BY <1>1, ViewsSound, PTL DEF Spec, AlertInSourceCurrency

-----------------------------------------------------------------------------
(* Checks might as well take place one at a time: a commit is a serial     *)
(* check of the rows as they are, the other writers are what they are      *)
(* there, and everything else changes no row.                              *)

(* What a page means to the check that may commit it is what it means for  *)
(* the source as it is at the commit.                                      *)
LEMMA VerdictIsCheckError ==
  ASSUME ViewInv, NEW c \in Check, phase[c] = "fetched", Unchanged(c)
  PROVE  /\ Serial!Known(SourceOf[mon[c]]) = SourceSeen(c)
         /\ Serial!Verdict(page[c], SourceOf[mon[c]]) = CheckError(c)
         /\ CheckError(c) = None <=> Good(c)
<1>1. Serial!Known(SourceOf[mon[c]]) = SourceSeen(c)
  BY CommitSeesRows DEF Serial!Known, SourceSeen, SourceIsNew, NewSource
<1>2. Serial!CurrencyOf(page[c]) = CurrencyOf(page[c])
  BY DEF Serial!CurrencyOf, CurrencyOf
<1>3. Serial!Verdict(page[c], SourceOf[mon[c]]) = CheckError(c)
  BY <1>1, <1>2 DEF Serial!Verdict, CheckError, CurrencyChanged
<1>4. CheckError(c) = None <=> Good(c)
  BY DEF CheckError, Good
<1> QED
  BY <1>1, <1>3, <1>4

LEMMA CommitMakesRows ==
  ASSUME ViewInv, NEW c \in Check, CommitCheck(c)
  PROVE  LET m == mon[c]
             s == SourceOf[m]
         IN  /\ monitor' = [monitor EXCEPT
                              ![m] = Serial!MonitorShows(m, page[c], CheckError(c))]
             /\ source' = [source EXCEPT
                             ![s] = Serial!SourceShows(s, page[c], CheckError(c))]
<1> DEFINE m == mon[c]
           s == SourceOf[m]
<1>1. phase[c] = "fetched" /\ Unchanged(c)
  BY DEF CommitCheck
<1>2. monitor[m] \in MonitorRow /\ SourceSeen(c) \in SourceRow
  BY <1>1, PageOfCheck, CommitSeesRows
     DEF ViewInv, RowsTyped, SourceSeen, NewSource, SourceRow
<1>3. CheckError(c) = "unsupported_product_url"
        <=> page[c].error = "unsupported_product_url"
  <2>1. page[c] \in Shown \cup Failed
    BY <1>1, PageOfCheck
  <2>2. page[c].error # None => CurrencyOf(page[c]) = None
    BY <2>1 DEF Shown, Failed, CurrencyOf
  <2> QED
    BY <2>2 DEF CheckError, CurrencyChanged, FetchError
<1>4. Serial!MonitorShows(m, page[c], CheckError(c)) = MonitorMade(c, monitor[m])
  BY <1>1, <1>2, <1>3, VerdictIsCheckError
     DEF Serial!MonitorShows, MonitorMade, MonitorRow
<1>5. Serial!SourceShows(s, page[c], CheckError(c)) = SourceMade(c, SourceSeen(c))
  <2>1. CASE Good(c)
    BY <1>1, <2>1, VerdictIsCheckError
       DEF Serial!SourceShows, Serial!CurrencyOf, CurrencyOf, SourceMade
  <2>2. CASE ~Good(c)
    <3>1. CheckError(c) # None
      BY <1>1, <2>2, VerdictIsCheckError
    <3>2. (IF CheckError(c) = "price_not_found" THEN None ELSE CheckError(c))
            = IF CurrencyChanged(c) THEN "currency_changed" ELSE page[c].error
      BY <1>1, <2>2, PageOfCheck DEF CheckError, Good, FetchError
    <3> QED
      BY <1>1, <2>2, <3>1, <3>2, VerdictIsCheckError
         DEF Serial!SourceShows, SourceMade
  <2> QED
    BY <2>1, <2>2
<1> QED
  BY <1>1, <1>4, <1>5, MonitorAfterCheck, SourceAfterCheck DEF CommitCheck

(* An alert is suppressed for a twin, and made if none is live.            *)
LEMMA CommitMakesAlerts ==
  ASSUME ViewInv, NEW c \in Check, CommitCheck(c)
  PROVE  IF CheckError(c) = None /\ Serial!Wanted(mon[c], page[c])
         THEN Serial!CreateAlert(mon[c], page[c])
         ELSE UNCHANGED alerts
<1> DEFINE m == mon[c]
           p == page[c]
<1>1. phase[c] = "fetched" /\ Unchanged(c)
  BY DEF CommitCheck
<1>2. Alerts(c) <=> CheckError(c) = None /\ Serial!Wanted(m, p)
  BY <1>1, CommitSeesRows, VerdictIsCheckError
     DEF Alerts, ShouldNotify, Serial!Wanted
<1>3. CASE ~Alerts(c)
  BY <1>2, <1>3 DEF CommitCheck
<1>4. CASE Alerts(c)
  <2>1. alerts' = Append(alerts, NewAlert(c))
    BY <1>4 DEF CommitCheck
  <2>2. AlertOf(c) \in AlertRow
    BY <1>1, <1>4, NewAlertIs
  <2>3. Serial!Alert(m, p, "pending") = AlertOf(c)
    BY DEF Serial!Alert, Serial!CurrencyOf, CurrencyOf, AlertOf
  <2>4. Serial!Alert(m, p, "duplicated") = [AlertOf(c) EXCEPT !.status = "duplicated"]
    <3>1. ASSUME NEW a \in AlertRow
          PROVE  [a EXCEPT !.status = "duplicated"]
                   = [mon |-> a.mon, target |-> a.target, price |-> a.price,
                      currency |-> a.currency, status |-> "duplicated",
                      recent |-> a.recent]
      BY DEF AlertRow
    <3>2. /\ AlertOf(c).mon = m /\ AlertOf(c).target = monitor[m].target
          /\ AlertOf(c).price = p.price /\ AlertOf(c).recent = TRUE
          /\ AlertOf(c).currency = Serial!CurrencyOf(p)
      BY DEF AlertOf, Serial!CurrencyOf, CurrencyOf
    <3> QED
      BY <2>2, <3>1, <3>2 DEF Serial!Alert
  <2>5. CASE HasDuplicate(c, AlertOf(c))
    <3>1. PICK i \in seen[c].live :
            alerts[i].recent /\ SameGroup(alerts[i], AlertOf(c))
      BY <2>5 DEF HasDuplicate
    <3>2. i \in DOMAIN alerts /\ alerts[i].status # "duplicated"
      BY DEF ViewInv, LiveCounts
    <3>3. Serial!Twin(Serial!Alert(m, p, "duplicated"), i)
      BY <2>2, <2>4, <3>1, <3>2 DEF Serial!Twin, SameGroup, AlertRow
    <3>4. NewAlert(c) = Serial!Alert(m, p, "duplicated")
      BY <1>1, <1>4, <2>4, <2>5, NewAlertIs
    <3> QED
      BY <1>2, <1>4, <2>1, <3>2, <3>3, <3>4 DEF Serial!CreateAlert
  <2>6. CASE ~HasDuplicate(c, AlertOf(c))
    <3>1. ASSUME NEW i \in DOMAIN alerts, Serial!LiveTwin(AlertOf(c), i)
          PROVE  FALSE
      <4>1. /\ alerts[i].recent /\ SameGroup(alerts[i], AlertOf(c))
            /\ alerts[i].status \notin {"duplicated", "skipped"}
        BY <3>1 DEF Serial!LiveTwin, Serial!Twin, SameGroup
      <4>0. alerts[i] \in AlertRow
        BY DEF ViewInv, RowsTyped
      <4>2. i \in LiveAlerts /\ alerts[i].mon = m
        BY <4>0, <4>1 DEF AlertRow, AlertStatus, LiveAlerts, LiveStatus,
                          SameGroup, AlertOf
      <4>3. i \in seen[c].live
        BY <1>1, <4>2 DEF ViewInv, LiveSeen, Unchanged
      <4> QED
        BY <2>6, <4>1, <4>3 DEF HasDuplicate
    <3>2. NewAlert(c) = Serial!Alert(m, p, "pending")
      BY <1>1, <1>4, <2>3, <2>6, NewAlertIs
    <3> QED
      BY <1>2, <1>4, <2>1, <2>3, <3>1, <3>2 DEF Serial!CreateAlert
  <2> QED
    BY <2>5, <2>6
<1> QED
  BY <1>3, <1>4

(* The tables change as if each check read and wrote everything in one     *)
(* step, however checks overlap with each other, with edits and with       *)
(* deliveries.                                                             *)
THEOREM ChecksSerial == Spec => ChecksAreSerial
<1>1. Init => Serial!Init
  BY DEF Init, Serial!Init
<1>2. ViewInv /\ [Next]_vars => [Serial!Next]_(Serial!vars)
  <2> SUFFICES ASSUME ViewInv, [Next]_vars
               PROVE  Serial!Next \/ UNCHANGED Serial!vars
    OBVIOUS
  <2>1. CASE UNCHANGED vars
    BY <2>1 DEF vars, rowVars, Serial!vars
  <2>2. ASSUME NEW c \in Check, CommitCheck(c)
        PROVE  Serial!Next
    <3>1. /\ phase[c] = "fetched" /\ Unchanged(c)
          /\ mon[c] \in Monitor /\ page[c] \in Page
      BY <2>2, PageOfCheck DEF CommitCheck, ViewInv, ChecksTyped
    <3>2. monitor[mon[c]].status = "active"
      BY <2>2, <3>1, CommitSeesRows DEF CommitCheck
    <3>3. Serial!CheckAtOnce(mon[c], page[c])
      BY <2>2, <3>1, <3>2, VerdictIsCheckError, CommitMakesRows,
         CommitMakesAlerts DEF Serial!CheckAtOnce
    <3> QED
      BY <3>1, <3>3 DEF Serial!Next
  <2>3. ASSUME NEW m \in Monitor, SaveEdit(m) \/ MarkError(m)
        PROVE  Serial!Next
    <3>1. monitor[m] \in MonitorRow
      BY DEF ViewInv, RowsTyped
    <3>2. Serial!Edit(m)
      <4>1. CASE SaveEdit(m)
        BY <3>1, <4>1 DEF SaveEdit, Serial!Edit, MonitorRow
      <4>2. CASE MarkError(m)
        BY <3>1, <4>2 DEF MarkError, Serial!Edit, MonitorRow
      <4> QED
        BY <2>3, <4>1, <4>2
    <3> QED
      BY <3>2 DEF Serial!Next
  <2>4. ASSUME NEW i \in DOMAIN alerts, Deliver(i) \/ LeaveWindow(i)
        PROVE  Serial!Next
    <3>1. Serial!Deliver(i)
      BY <2>4 DEF Deliver, LeaveWindow, Serial!Deliver
    <3> QED
      BY <3>1 DEF Serial!Next
  <2> QED
    BY <2>1, <2>2, <2>3, <2>4, NextSplits
       DEF Begin, Fetch, LoseInsert, Abort, RefuseInactive, rowVars, Serial!vars
<1> QED
  BY <1>1, <1>2, ViewsSound, PTL DEF Spec, ChecksAreSerial, Serial!Spec
=============================================================================
