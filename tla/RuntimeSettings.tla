---------------------------- MODULE RuntimeSettings ----------------------------
(***************************************************************************)
(* The settings that an administrator overrides in the database, and the   *)
(* checks and internal calls that resolve them: RuntimeSettingsService.    *)
(*                                                                         *)
(* A save or a clear reads the row of its key in the view of its request   *)
(* and writes it in a later commit, which the database refuses when the    *)
(* row has changed since the view was opened (error 1020); an INSERT fails *)
(* when the row is there.                                                  *)
(*                                                                         *)
(* A check of the worker, and a call of the internal API, resolve their    *)
(* settings when they begin and build a provider that keeps them for every *)
(* request of the fetch and its retries.  The rows and the environment may *)
(* change, or the rows become unreadable, while they run.                  *)
(*                                                                         *)
(* Four keys stand for the eleven: the provider, a setting that is parsed  *)
(* as a number, a provider's credential, and the token of the internal     *)
(* API.  The rows of audit_logs, which nothing reads, are not kept.        *)
(***************************************************************************)
EXTENDS Naturals

CONSTANTS
  Choices,    \* the values an administrator may save, for each key
  Deployment, \* environments: ADMIN_SECRETS_KEY and the variable of each key
  Request,    \* slots for an administrator's requests
  Caller,     \* slots for the worker's checks and the internal API's calls
  MaxChanges, \* bound: saves, clears and deployments in one behaviour
  None

Key == {"product_fetch_provider", "wildberries_basket_max_host",
        "apify_api_token", "internal_api_token"}
SecretKey == {"apify_api_token", "internal_api_token"}
Value == (UNION {Choices[k] : k \in Key})
           \cup (UNION {{d.env[k] : k \in Key} : d \in Deployment})

ASSUME SettingsAssumption ==
  /\ DOMAIN Choices = Key
  /\ \A d \in Deployment : DOMAIN d = {"master", "env"} /\ DOMAIN d.env = Key
  /\ MaxChanges \in Nat
  /\ \A k \in Key : None \notin Choices[k]
  /\ None \notin Key

VARIABLES
  row,      \* service_settings
  deployed, \* the environment of the running processes
  req,      \* the administrators' requests
  call,     \* the checks and the internal calls
  changes   \* saves, clears and deployments so far

vars == <<row, deployed, req, call, changes>>

(* A value, and the key it is encrypted with if it is a secret.            *)
Row == [value : Value, sealed : {d.master : d \in Deployment} \cup {None}]
NoRow == [value |-> None, sealed |-> None]

(* found: the row in the request's view; stale: it has changed since.      *)
Idle == [op |-> "idle", key |-> None, value |-> None, found |-> NoRow,
         stale |-> FALSE]

(* Reference: an override wins over the environment (README.md).           *)
InForce(rows, d) ==
  [k \in Key |-> IF rows[k] # NoRow THEN rows[k].value ELSE d.env[k]]

(* view: the rows as the session of an internal call reads them; settings: *)
(* what the provider was built from; used: history, the values used so far *)
(* of each key; since: history, all that has been in force since it began. *)
NoRows == [k \in Key |-> NoRow]
NoCall == [phase |-> "idle", view |-> NoRows, settings |-> [k \in Key |-> None],
           used |-> [k \in Key |-> {}], since |-> {}]

CallRecord ==
  [phase : {"idle", "admitted", "running"}, view : [Key -> Row \cup {NoRow}],
   settings : [Key -> Value \cup {None}],
   used : [Key -> SUBSET (Value \cup {None})], since : SUBSET [Key -> Value]]

Init ==
  /\ row = [k \in Key |-> NoRow]
  /\ deployed \in Deployment
  /\ req = [r \in Request |-> Idle]
  /\ call = [c \in Caller |-> NoCall]
  /\ changes = 0

-----------------------------------------------------------------------------
(* Saving and clearing.                                                    *)

Open(r, op, k, v) ==
  /\ req[r].op = "idle"
  /\ req' = [req EXCEPT ![r] = [op |-> op, key |-> k, value |-> v,
                                found |-> row[k], stale |-> FALSE]]
  /\ UNCHANGED <<row, deployed, call, changes>>

(* A secret cannot be saved without a valid ADMIN_SECRETS_KEY.             *)
OpenSave(r, k, v) ==
  /\ v \in Choices[k]
  /\ k \in SecretKey => deployed.master # None
  /\ Open(r, "save", k, v)

(* What is not there is not deleted, but audited all the same.             *)
OpenClear(r, k) ==
  Open(r, IF row[k] = NoRow THEN "audit" ELSE "clear", k, None)

(* The other requests after r has written the row of key k.  The variant   *)
(* is a database that does not compare the row with the view.              *)
StaledNever(r, k) == req
Staled(r, k) ==
  [q \in Request |->
     IF q # r /\ req[q].key = k THEN [req[q] EXCEPT !.stale = TRUE] ELSE req[q]]

Witnessed(rows) ==
  [c \in Caller |->
     IF call[c].phase = "idle" THEN call[c]
     ELSE [call[c] EXCEPT !.since = @ \cup {InForce(rows, deployed)}]]

WriteRow(r, new) ==
  LET k == req[r].key
  IN  /\ changes < MaxChanges
      /\ changes' = changes + 1
      /\ row' = [row EXCEPT ![k] = new]
      /\ call' = Witnessed(row')
      /\ req' = [Staled(r, k) EXCEPT ![r].op = "audit"]
      /\ UNCHANGED deployed

(* The UPDATE is left out when the session sees no new value: the same     *)
(* text, saved by the same administrator.  An encrypted value is always    *)
(* new.                                                                    *)
SameRow(r) ==
  /\ req[r].found # NoRow
  /\ req[r].key \notin SecretKey
  /\ req[r].found.value = req[r].value

(* The key that a value is encrypted with.  The variant keeps text.        *)
Unsealed(k) == None
SealFor(k) == IF k \in SecretKey THEN deployed.master ELSE None

MayWrite(r) ==
  IF req[r].found = NoRow THEN row[req[r].key] = NoRow ELSE ~req[r].stale

CommitSave(r) ==
  /\ req[r].op = "save"
  /\ MayWrite(r)
  /\ WriteRow(r, [value |-> req[r].value, sealed |-> SealFor(req[r].key)])

(* Nothing is written; the row is then read again, and must be there.      *)
CommitSame(r) ==
  /\ req[r].op = "save"
  /\ SameRow(r)
  /\ row[req[r].key] # NoRow
  /\ req' = [req EXCEPT ![r].op = "audit"]
  /\ UNCHANGED <<row, deployed, call, changes>>

CommitClear(r) ==
  /\ req[r].op = "clear"
  /\ MayWrite(r)
  /\ WriteRow(r, NoRow)

(* The audit row is written in a commit of its own.                        *)
Audit(r) ==
  /\ req[r].op = "audit"
  /\ req' = [req EXCEPT ![r] = Idle]
  /\ UNCHANGED <<row, deployed, call, changes>>

(* An error or a refused commit: what is not committed is not written.     *)
Fail(r) ==
  /\ req[r].op # "idle"
  /\ req' = [req EXCEPT ![r] = Idle]
  /\ UNCHANGED <<row, deployed, call, changes>>

(* All processes are restarted, in another environment.  What they were    *)
(* doing is lost.                                                          *)
Deploy(d) ==
  /\ d # deployed
  /\ changes < MaxChanges
  /\ changes' = changes + 1
  /\ deployed' = d
  /\ req' = [r \in Request |-> Idle]
  /\ call' = [c \in Caller |-> NoCall]
  /\ UNCHANGED row

-----------------------------------------------------------------------------
(* Resolving, and using what was resolved.                                 *)

(* The value can be decrypted.                                             *)
Readable(rows, k) ==
  k \in SecretKey => deployed.master # None /\ rows[k].sealed = deployed.master

(* The value is accepted by the field of Settings.                         *)
WellTyped(k, v) == k = "wildberries_basket_max_host" => v # "many"

(* The value of a key: an override that cannot be decrypted raises.  The   *)
(* variant takes it for missing.                                           *)
Resolved(rows, k) ==
  IF rows[k] # NoRow /\ Readable(rows, k) THEN rows[k].value ELSE deployed.env[k]
NeverRaises(rows, k) == FALSE
Raises(rows, k) == rows[k] # NoRow /\ ~Readable(rows, k)
Resolution(rows) == [k \in Key |-> Resolved(rows, k)]

(* resolve_settings and the factory: every override is decrypted and       *)
(* parsed, also those of other providers, and the provider must be known   *)
(* and have its credential.                                                *)
Configured(rows) ==
  LET kind == Resolved(rows, "product_fetch_provider")
  IN  /\ \A k \in Key : ~Raises(rows, k) /\ WellTyped(k, Resolved(rows, k))
      /\ kind \in {"wildberries_direct", "apify", "zyte", "mock"}
      /\ kind = "apify" => Resolved(rows, "apify_api_token") # None

(* A worker's check resolves its settings and builds its provider.         *)
Check(c) ==
  /\ call[c].phase = "idle"
  /\ Configured(row)
  /\ call' = [call EXCEPT ![c] = [NoCall EXCEPT
                 !.phase = "running", !.settings = Resolution(row),
                 !.since = {InForce(row, deployed)}]]
  /\ UNCHANGED <<row, deployed, req, changes>>

(* An internal call is let in by the token, which opens its view, ...      *)
Admitted(token) ==
  /\ ~Raises(row, "internal_api_token")
  /\ Resolved(row, "internal_api_token") \in {None, token}
Call(c, token) ==
  /\ call[c].phase = "idle"
  /\ Admitted(token)
  /\ call' = [call EXCEPT ![c] = [NoCall EXCEPT
                 !.phase = "admitted", !.view = row,
                 !.used["internal_api_token"] =
                   {Resolved(row, "internal_api_token")},
                 !.since = {InForce(row, deployed)}]]
  /\ UNCHANGED <<row, deployed, req, changes>>

(* ... and resolves its settings later, in the same view.  The variant     *)
(* reads the rows as they are by then.                                     *)
SeenNow(c) == row
Seen(c) == call[c].view
Configure(c) ==
  /\ call[c].phase = "admitted"
  /\ Configured(Seen(c))
  /\ call' = [call EXCEPT ![c].phase = "running", ![c].view = NoRows,
                          ![c].settings = Resolution(Seen(c))]
  /\ UNCHANGED <<row, deployed, req, changes>>

(* A request of the fetch, which may be a retry, minutes after the         *)
(* settings were resolved.                                                 *)
Needed(kind) ==
  {"product_fetch_provider"}
    \cup (IF kind = "apify" THEN {"apify_api_token"} ELSE {})
    \cup (IF kind = "wildberries_direct" THEN {"wildberries_basket_max_host"}
          ELSE {})
Send(c) ==
  LET now == call[c].settings
      keys == Needed(now["product_fetch_provider"])
  IN  /\ call[c].phase = "running"
      /\ call' = [call EXCEPT ![c].used =
                    [k \in Key |-> IF k \in keys THEN @[k] \cup {now[k]} ELSE @[k]]]
      /\ UNCHANGED <<row, deployed, req, changes>>

(* It is committed, fails or is cut off, or its settings are refused.      *)
EndCall(c) ==
  /\ call[c].phase # "idle"
  /\ call' = [call EXCEPT ![c] = NoCall]
  /\ UNCHANGED <<row, deployed, req, changes>>

Next ==
  \/ \E r \in Request :
       \/ \E k \in Key, v \in Value : OpenSave(r, k, v)
       \/ \E k \in Key : OpenClear(r, k)
       \/ CommitSave(r) \/ CommitSame(r) \/ CommitClear(r)
       \/ Audit(r) \/ Fail(r)
  \/ \E d \in Deployment : Deploy(d)
  \/ \E c \in Caller :
       \/ \E t \in Value : Call(c, t)
       \/ Check(c) \/ Configure(c) \/ Send(c) \/ EndCall(c)

Spec == Init /\ [][Next]_vars
-----------------------------------------------------------------------------
(* Every variable has its type: secrets are kept encrypted, and nothing    *)
(* else is.                                                                *)
TypeOK ==
  /\ row \in [Key -> Row \cup {NoRow}]
  /\ \A k \in Key :
       row[k] # NoRow => /\ row[k].value \in Choices[k]
                         /\ row[k].sealed # None <=> k \in SecretKey
  /\ deployed \in Deployment
  /\ \A r \in Request :
       \/ req[r] = Idle
       \/ /\ req[r].op \in {"save", "clear", "audit"}
          /\ req[r].key \in Key
          /\ req[r].found \in Row \cup {NoRow}
  /\ call \in [Caller -> CallRecord]
  /\ changes \in 0..MaxChanges

(* All that a check or an internal call uses, from the token that let it   *)
(* in to the provider and the credential of its last retry, was in force   *)
(* together at one moment since it began.  So one that begins after a      *)
(* replacement does not use the old value, also when the new one can no    *)
(* longer be decrypted (README.md: overrides take precedence over env      *)
(* values); one under way may finish with the old values, but never mixes  *)
(* them with new ones.                                                     *)
UsedWasInForce ==
  \A c \in Caller :
    call[c].phase # "idle"
      => \E s \in call[c].since : \A k \in Key : call[c].used[k] \subseteq {s[k]}

(* Of two administrators who change one setting side by side the second    *)
(* never overwrites, or deletes, what it has not seen.                     *)
NothingOverwrittenUnseen ==
  [][\A k \in Key :
       row'[k] # row[k]
         => \E r \in Request : /\ req[r].key = k /\ req[r].found = row[k]
                               /\ req'[r].op = "audit"]_vars
=============================================================================
