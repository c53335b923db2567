------------------------------ MODULE PriceCheck ------------------------------
(***************************************************************************)
(* What a price check does to the database: PriceCheckService.run_check.   *)
(*                                                                         *)
(* Checks of one monitor may overlap (a worker job and the internal API,   *)
(* which takes no URL lock), and checks of two monitors whose URLs         *)
(* normalise to one product source overlap freely.  Users edit monitors    *)
(* and send_notification delivers alerts meanwhile.                        *)
(*                                                                         *)
(* A check reads its monitor in a read view, waits for the provider, and   *)
(* writes everything in one commit.  A view component is a copy of what    *)
(* the check reads in it, or Stale once another transaction has committed  *)
(* a write to that row: the database then refuses to lock or update it     *)
(* (innodb_snapshot_isolation).  Plain reads stay those of the view.       *)
(*                                                                         *)
(* A deleted monitor is one whose checks abort; it is not kept apart here. *)
(***************************************************************************)
EXTENDS Naturals, Sequences

CONSTANTS
  Monitor,      \* ids of monitors
  Source,       \* product sources, by normalised URL
  SourceOf,     \* the source a monitor's URL normalises to
  Check,        \* slots for concurrent checks
  Price,        \* prices
  Target,       \* target prices a user may set; may hold None
  Currency,     \* ISO codes
  HomeCurrency, \* RUB, assumed when the shop names no currency
  Page,         \* what a fetch may find
  MaxAlerts,    \* bound: rows of notifications in one behaviour
  MaxEdits,     \* bound: edits and error marks of one monitor
  None,         \* SQL NULL
  Stale         \* a row of a view that was written after the view was opened

(* The shop shows a price or none, and a currency or names none; or the    *)
(* fetch fails with a code.                                                *)
Shown == [price : Price \cup {None}, currency : Currency \cup {None},
          error : {None}]
FetchError == {"unsupported_product_url", "provider_timeout", "provider_blocked"}
Failed == [price : {None}, currency : {None}, error : FetchError]

ASSUME PriceCheckAssumption ==
  /\ Page \subseteq Shown \cup Failed
  /\ SourceOf \in [Monitor -> Source]
  /\ Price \subseteq Nat
  /\ Target \subseteq Price \cup {None}
  /\ HomeCurrency \in Currency
  /\ MaxAlerts \in Nat
  /\ MaxEdits \in Nat
  /\ None \notin Price /\ None \notin Currency
  /\ Stale # None

VARIABLES
  monitor,   \* monitors: status, target_price, notification_channel,
             \* last_price, error_code
  source,    \* product_sources: currency, current_price, status,
             \* last_error_code; None before the row
  lastCheck, \* the monitor's newest price_checks row, and what its check
             \* added to parser_errors
  alerts,    \* notifications, oldest first
  edits,     \* edits and error marks of each monitor so far
  phase, mon, page,  \* a check: where it is, its monitor, what it fetched
  seen       \* its view: the monitor row, the source row, the live alerts

rowVars == <<monitor, source, lastCheck, alerts, edits>>
checkVars == <<phase, mon, page, seen>>
vars == <<rowVars, checkVars>>

CheckCode == {None, "currency_changed", "price_not_found"} \cup FetchError

(* "stopped" stands for every status but active and unsupported, and       *)
(* "job_failed" for the exception that ended a job's last try.             *)
MonitorRow == [status : {"active", "stopped", "unsupported"},
               target : Target, channel : {"email", None},
               last : Price \cup {None}, error : CheckCode \cup {"job_failed"}]
SourceRow == [currency : Currency \cup {None}, price : Price \cup {None},
              status : {"active", "error"},
              error : {None, "currency_changed"} \cup FetchError]
CheckStatus == {"success", "parse_error", "timeout", "blocked", "failed"}
CheckRow == [status : CheckStatus, error : CheckCode,
             parserError : {None, "retryable", "final"}]
AlertStatus == {"pending", "processing", "sent", "failed", "skipped",
                "duplicated"}
AlertRow == [mon : Monitor, target : Price, price : Price,
             currency : Currency, status : AlertStatus, recent : BOOLEAN]

(* NULL is none of the values that a column holds, and no row.             *)
ASSUME NullAssumption ==
  /\ None \notin Monitor /\ None \notin Check
  /\ None \notin Page /\ None \notin CheckRow
  /\ None \notin {"email", "currency_changed", "price_not_found"} \cup FetchError

(* The currency of the snapshot made from a page (_extract_currency).  The *)
(* variant has no default.                                                 *)
CurrencyShown(p) == p.currency
CurrencyOf(p) ==
  IF p.currency = None /\ p.price # None THEN HomeCurrency ELSE p.currency

NoView == [monitor |-> None, source |-> None, live |-> {}]

(* Nothing more can be written through such a view, so what else it shows  *)
(* is dropped.                                                             *)
StaleView == [monitor |-> Stale, source |-> Stale, live |-> {}]

(* The statuses find_recent_by_dedupe_group counts.  The variant forgets   *)
(* that a failed alert is retried.                                         *)
UndeliveredOrSent == {"pending", "processing", "sent"}
LiveStatus == {"pending", "processing", "sent", "failed"}

LiveAlerts == {i \in DOMAIN alerts : alerts[i].status \in LiveStatus}

OpenedView(m) ==
  [monitor |-> monitor[m], source |-> source[SourceOf[m]],
   live |-> LiveAlerts]

(* The views after a commit of check c that wrote the rows of monitors M   *)
(* and sources S.  A view in which a source does not exist yet stays: the  *)
(* insert finds out.  The variant is a database that does not compare.     *)
StaledNever(M, S, c) ==
  [k \in Check |-> IF k = c THEN NoView ELSE seen[k]]
Staled(M, S, c) ==
  [k \in Check |->
     IF k = c \/ mon[k] = None THEN NoView
     ELSE IF seen[k].source = None
     THEN [seen[k] EXCEPT !.monitor = IF mon[k] \in M THEN Stale ELSE @]
     ELSE IF mon[k] \in M \/ SourceOf[mon[k]] \in S THEN StaleView
     ELSE seen[k]]

Init ==
  /\ monitor \in [Monitor -> [status : {"active"}, target : Target,
                              channel : {"email"}, last : {None},
                              error : {None}]]
  /\ source = [s \in Source |-> None]
  /\ lastCheck = [m \in Monitor |-> None]
  /\ alerts = << >>
  /\ edits = [m \in Monitor |-> 0]
  /\ phase = [c \in Check |-> "idle"]
  /\ mon = [c \in Check |-> None]
  /\ page = [c \in Check |-> None]
  /\ seen = [c \in Check |-> NoView]

-----------------------------------------------------------------------------
(* get_or_raise: the view is opened, and the fetch begins.                 *)
Begin(c, m) ==
  /\ phase[c] = "idle"
  /\ phase' = [phase EXCEPT ![c] = "fetching"]
  /\ mon' = [mon EXCEPT ![c] = m]
  /\ seen' = [seen EXCEPT ![c] = OpenedView(m)]
  /\ UNCHANGED <<rowVars, page>>

Fetch(c, p) ==
  /\ phase[c] = "fetching"
  /\ phase' = [phase EXCEPT ![c] = "fetched"]
  /\ page' = [page EXCEPT ![c] = p]
  /\ UNCHANGED <<rowVars, mon, seen>>

(* The check ends.                                                         *)
EndCheck(c, views) ==
  /\ phase' = [phase EXCEPT ![c] = "idle"]
  /\ mon' = [mon EXCEPT ![c] = None]
  /\ page' = [page EXCEPT ![c] = None]
  /\ seen' = views

(* The view shows no source but another check has committed one: the       *)
(* insert of get_or_create_source fails, the session is rolled back, and   *)
(* the next SELECT opens a new view.                                       *)
SourceIsNew(c) == seen[c].source = None

LoseInsert(c) ==
  /\ phase[c] = "fetched"
  /\ SourceIsNew(c) /\ source[SourceOf[mon[c]]] # None
  /\ seen' = [seen EXCEPT ![c] = OpenedView(mon[c])]
  /\ UNCHANGED <<rowVars, phase, mon, page>>

(* The rows a check locks or updates are as in its view.                   *)
Unchanged(c) ==
  /\ Stale \notin {seen[c].monitor, seen[c].source}
  /\ SourceIsNew(c) => source[SourceOf[mon[c]]] = None

(* An exception: the fetch or the database failed, or a row changed after  *)
(* the view was opened (error 1020).                                       *)
Abort(c) ==
  /\ \/ phase[c] = "fetching"
     \/ phase[c] = "fetched" /\ Stale \in {seen[c].monitor, seen[c].source}
  /\ EndCheck(c, [seen EXCEPT ![c] = NoView])
  /\ UNCHANGED rowVars

(* The monitor was not active in the view.  The rollback expires the       *)
(* monitor, and reading its status for the message of the failure row      *)
(* then raises: an expired attribute cannot be loaded outside an await.    *)
RefuseInactive(c) ==
  /\ phase[c] = "fetched"
  /\ Unchanged(c)
  /\ seen[c].monitor.status # "active"
  /\ EndCheck(c, [seen EXCEPT ![c] = NoView])
  /\ UNCHANGED rowVars

-----------------------------------------------------------------------------
(* The commit of a check that found its monitor active.                    *)

NewSource == [currency |-> None, price |-> None, status |-> "active",
              error |-> None]
SourceSeen(c) == IF SourceIsNew(c) THEN NewSource ELSE seen[c].source

(* Both currencies are known and differ.  The variant trusts the page.     *)
NeverChanged(c) == FALSE
CurrencyChanged(c) ==
  LET before == SourceSeen(c).currency
      now == CurrencyOf(page[c])
  IN  before # None /\ now # None /\ before # now

Good(c) == page[c].error = None /\ page[c].price # None /\ ~CurrencyChanged(c)

(* The error_code of the price_checks row.                                 *)
CheckError(c) ==
  IF CurrencyChanged(c) THEN "currency_changed"
  ELSE IF page[c].error = None /\ page[c].price = None THEN "price_not_found"
  ELSE page[c].error

(* Its status (_status_from_snapshot).                                     *)
StatusOf(p) ==
  CASE p.error = None /\ p.price # None -> "success"
    [] p.error = None /\ p.price = None -> "parse_error"
    [] p.error = "provider_timeout"     -> "timeout"
    [] p.error = "provider_blocked"     -> "blocked"
    [] OTHER                            -> "failed"

(* A check that finds no price is recorded in parser_errors too, unless    *)
(* the link or the currency is at fault (_is_retryable_parser_error).      *)
ParserError(c) ==
  IF Good(c) \/ CheckError(c) \in {"currency_changed", "unsupported_product_url"}
  THEN None
  ELSE IF CheckError(c) = "provider_timeout" THEN "retryable" ELSE "final"

CheckAfter(c) ==
  [status |-> IF CurrencyChanged(c) THEN "failed" ELSE StatusOf(page[c]),
   error |-> CheckError(c),
   parserError |-> ParserError(c)]

(* An UPDATE sets only the columns to which the session gave new values.   *)
Update(row, old, new) ==
  [f \in DOMAIN row |-> IF new[f] # old[f] THEN new[f] ELSE row[f]]

MonitorAfter(c) ==
  LET old == seen[c].monitor
  IN  Update(monitor[mon[c]], old,
        [old EXCEPT
           !.last = IF Good(c) THEN page[c].price ELSE @,
           !.error = CheckError(c),
           !.status = IF page[c].error = "unsupported_product_url"
                      THEN "unsupported" ELSE @])

SourceAfter(c) ==
  LET old == SourceSeen(c)
      row == IF SourceIsNew(c) THEN old ELSE source[SourceOf[mon[c]]]
      new == IF Good(c)
             THEN [currency |-> CurrencyOf(page[c]), price |-> page[c].price,
                   status |-> "active", error |-> None]
             ELSE [old EXCEPT
                     !.status = "error",
                     !.error = IF CurrencyChanged(c) THEN "currency_changed"
                               ELSE page[c].error]
  IN  Update(row, old, new)

ShouldNotify(target, price) == target # None /\ price <= target

Alerts(c) ==
  /\ Good(c)
  /\ ShouldNotify(seen[c].monitor.target, page[c].price)
  /\ seen[c].monitor.channel # None

(* The semantic payload of the dedupe key.  The key holds the numbers as   *)
(* text; here they are equal if their values are.  The variant leaves out  *)
(* what the alert says.                                                    *)
SameMonitor(a, b) == a.mon = b.mon
SameGroup(a, b) ==
  /\ a.mon = b.mon
  /\ a.target = b.target
  /\ a.price = b.price
  /\ a.currency = b.currency

(* A row of the group inside the window that the view shows as live.       *)
HasDuplicate(c, a) ==
  \E i \in seen[c].live : alerts[i].recent /\ SameGroup(alerts[i], a)

NewAlert(c) ==
  LET a == [mon |-> mon[c], target |-> seen[c].monitor.target,
            price |-> page[c].price, currency |-> CurrencyOf(page[c]),
            status |-> "pending", recent |-> TRUE]
  IN  IF HasDuplicate(c, a) THEN [a EXCEPT !.status = "duplicated"] ELSE a

CommitCheck(c) ==
  /\ phase[c] = "fetched"
  /\ Unchanged(c)
  /\ seen[c].monitor.status = "active"
  /\ monitor' = [monitor EXCEPT ![mon[c]] = MonitorAfter(c)]
  /\ source' = [source EXCEPT ![SourceOf[mon[c]]] = SourceAfter(c)]
  /\ lastCheck' = [lastCheck EXCEPT ![mon[c]] = CheckAfter(c)]
  /\ IF Alerts(c)
     THEN /\ Len(alerts) < MaxAlerts
          /\ alerts' = Append(alerts, NewAlert(c))
     ELSE UNCHANGED alerts
  /\ EndCheck(c, Staled({mon[c]}, {SourceOf[mon[c]]}, c))
  /\ UNCHANGED edits

-----------------------------------------------------------------------------
(* The other writers.                                                      *)

(* A user edits the monitor: status, target price and channel.             *)
SaveEdit(m) ==
  /\ edits[m] < MaxEdits
  /\ edits' = [edits EXCEPT ![m] = @ + 1]
  /\ \E s \in {"active", "stopped"}, t \in Target, ch \in {"email", None} :
       monitor' = [monitor EXCEPT ![m] = [@ EXCEPT !.status = s, !.target = t,
                                                   !.channel = ch]]
  /\ seen' = Staled({m}, {}, None)
  /\ UNCHANGED <<source, lastCheck, alerts, phase, mon, page>>

(* The last try of a worker's check failed (_mark_monitor_error).          *)
MarkError(m) ==
  /\ edits[m] < MaxEdits
  /\ edits' = [edits EXCEPT ![m] = @ + 1]
  /\ monitor' = [monitor EXCEPT ![m] = [@ EXCEPT !.status = "stopped",
                                                !.error = "job_failed"]]
  /\ seen' = Staled({m}, {}, None)
  /\ UNCHANGED <<source, lastCheck, alerts, phase, mon, page>>

(* send_notification, of which only the status it writes matters here.     *)
Deliver(i) ==
  /\ \/ /\ alerts[i].status \in {"pending", "failed"}
        /\ alerts' = [alerts EXCEPT ![i].status = "processing"]
     \/ /\ alerts[i].status = "processing"
        /\ \E s \in {"sent", "failed", "skipped"} :
             alerts' = [alerts EXCEPT ![i].status = s]
  /\ UNCHANGED <<monitor, source, lastCheck, edits, checkVars>>

(* created_at leaves the dedupe window, the oldest row first.              *)
LeaveWindow(i) ==
  /\ alerts[i].recent
  /\ \A k \in 1..(i - 1) : ~alerts[k].recent
  /\ alerts' = [alerts EXCEPT ![i].recent = FALSE]
  /\ UNCHANGED <<monitor, source, lastCheck, edits, checkVars>>

Next ==
  \/ \E c \in Check :
       \/ \E m \in Monitor : Begin(c, m)
       \/ \E p \in Page : Fetch(c, p)
       \/ LoseInsert(c)
       \/ Abort(c)
       \/ RefuseInactive(c)
       \/ CommitCheck(c)
  \/ \E m \in Monitor : SaveEdit(m) \/ MarkError(m)
  \/ \E i \in DOMAIN alerts : Deliver(i) \/ LeaveWindow(i)

Spec == Init /\ [][Next]_vars
-----------------------------------------------------------------------------
(* Every variable has its type, and an idle check has no monitor.          *)
TypeOK ==
  /\ monitor \in [Monitor -> MonitorRow]
  /\ source \in [Source -> SourceRow \cup {None}]
  /\ lastCheck \in [Monitor -> CheckRow \cup {None}]
  /\ alerts \in Seq(AlertRow)
  /\ Len(alerts) <= MaxAlerts
  /\ edits \in [Monitor -> 0..MaxEdits]
  /\ phase \in [Check -> {"idle", "fetching", "fetched"}]
  /\ mon \in [Check -> Monitor \cup {None}]
  /\ page \in [Check -> Page \cup {None}]
  /\ \A c \in Check :
       IF phase[c] = "idle"
       THEN mon[c] = None /\ seen[c] = NoView
       ELSE /\ mon[c] # None
            /\ seen[c].monitor \in MonitorRow \cup {Stale}
            /\ seen[c].source \in SourceRow \cup {None, Stale}
            /\ seen[c].live \subseteq DOMAIN alerts
  /\ \A c \in Check : page[c] # None <=> phase[c] = "fetched"

(* Counts against a second alert; a skipped one does not.                  *)
Stands(i) ==
  alerts[i].recent /\ alerts[i].status \notin {"skipped", "duplicated"}

(* What an alert tells the user.                                           *)
Message(i) == [f \in {"mon", "target", "price", "currency"} |-> alerts[i][f]]

(* Inside the dedupe window a dedupe group has one alert, however many     *)
(* checks of the monitor run side by side (_create_target_notifications    *)
(* reads first and inserts later).                                         *)
OneAlertPerWindow ==
  \A i, k \in DOMAIN alerts :
    Stands(i) /\ Stands(k) /\ SameGroup(alerts[i], alerts[k]) => i = k

(* An alert is suppressed only for one that says the same.                 *)
SuppressedByTwin ==
  \A i \in DOMAIN alerts :
    alerts[i].status = "duplicated"
      => \E k \in 1..(i - 1) :
           alerts[k].status # "duplicated" /\ Message(k) = Message(i)

IsNewAlert(i) ==
  i \notin DOMAIN alerts /\ alerts'[i].status = "pending"

(* An alert is created only for an active monitor, and for the target and  *)
(* channel that the user has set by then, even if the user changed them    *)
(* while the provider was fetching.                                        *)
AlertWithinTarget ==
  [][\A i \in DOMAIN alerts' :
       IsNewAlert(i)
         => LET a == alerts'[i]
            IN  /\ monitor[a.mon].status = "active"
                /\ monitor[a.mon].channel # None
                /\ monitor[a.mon].target = a.target
                /\ a.price <= a.target]_vars

(* No alert compares a price with one in another currency: the source's    *)
(* currency is unknown or the alert's, even if another monitor of the same *)
(* source was checked meanwhile.                                           *)
AlertInSourceCurrency ==
  [][\A i \in DOMAIN alerts' :
       IsNewAlert(i)
         => LET s == SourceOf[alerts'[i].mon]
            IN  \/ source[s] = None
                \/ source[s].currency \in {None, alerts'[i].currency}]_vars

(* The error that the monitor's page shows is that of its newest check, or *)
(* that of a job that failed since, although two checks of the monitor may *)
(* run side by side and each sets only the columns it changed.             *)
MonitorShowsNewestCheck ==
  \A m \in Monitor :
    \/ monitor[m].error = "job_failed"
    \/ monitor[m].error = (IF lastCheck[m] = None THEN None ELSE lastCheck[m].error)

(* The source is as the newest check of monitor m left it.                 *)
ShowsCheckOf(m) ==
  LET row == source[SourceOf[m]]
  IN  /\ lastCheck[m] # None
      /\ IF lastCheck[m].status = "success"
         THEN row = [currency |-> row.currency, price |-> monitor[m].last,
                     status |-> "active", error |-> None]
         ELSE /\ row.status = "error"
              /\ row.error = (IF lastCheck[m].error = "price_not_found"
                               THEN None ELSE lastCheck[m].error)

(* A product source shows the outcome of one check as a whole, never a mix *)
(* of two, although checks of the monitors that share it run side by side: *)
(* the price and the status are those of some monitor's newest check.      *)
SourceShowsOneCheck ==
  \A s \in Source :
    source[s] # None => \E m \in Monitor : SourceOf[m] = s /\ ShowsCheckOf(m)

(* However checks overlap with each other and with edits, the tables       *)
(* change as if each check read and wrote everything in one step, at the   *)
(* moment of its commit.                                                   *)
Serial == INSTANCE SerialChecks

ChecksAreSerial == Serial!Spec
=============================================================================
