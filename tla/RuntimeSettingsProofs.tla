------------------------- MODULE RuntimeSettingsProofs -------------------------
(***************************************************************************)
(* What is proved of RuntimeSettings, for any number of administrators'    *)
(* requests, checks and internal calls, any values and any environments.   *)
(***************************************************************************)
EXTENDS RuntimeSettings, TLAPS

USE SettingsAssumption

(* The names of the actions that end a request without a write, or change  *)
(* no row at all.                                                          *)
RequestStep(r) == CommitSame(r) \/ Audit(r) \/ Fail(r)

(* The steps of a check or an internal call.                               *)
CallerStep(c) ==
  (\E t \in Value : Call(c, t)) \/ Check(c) \/ Configure(c) \/ Send(c) \/ EndCall(c)

LEMMA NextSplits ==
  ASSUME Next
  PROVE  \/ \E r \in Request, k \in Key, v \in Value : OpenSave(r, k, v)
         \/ \E r \in Request, k \in Key : OpenClear(r, k)
         \/ \E r \in Request : CommitSave(r) \/ CommitClear(r)
         \/ \E r \in Request : RequestStep(r)
         \/ \E d \in Deployment : Deploy(d)
         \/ \E c \in Caller : CallerStep(c)
BY DEF Next, RequestStep, CallerStep

(* They change nothing that the administrators share.                      *)
LEMMA CallerLeavesRows ==
  ASSUME NEW c \in Caller, CallerStep(c)
  PROVE  UNCHANGED <<row, deployed, req, changes>>
BY DEF CallerStep, Call, Check, Configure, Send, EndCall

-----------------------------------------------------------------------------
(* A request that may still write its row has seen it as it is, and keeps  *)
(* the type that the step needs.                                           *)
PendingOp == {"save", "clear"}

AnyValue == Value \cup {None}
RowRecord ==
  [value : AnyValue, sealed : {d.master : d \in Deployment} \cup {None}]
RequestRecord ==
  [op : {"idle", "save", "clear", "audit"}, key : Key \cup {None},
   value : AnyValue, found : RowRecord, stale : BOOLEAN]

RequestOK == req \in [Request -> RequestRecord]
RowOK == row \in [Key -> RowRecord]

FreshViewIsRow ==
  \A r \in Request :
    req[r].op \in PendingOp
      => /\ req[r].key \in Key
         /\ ~req[r].stale => req[r].found = row[req[r].key]

ViewInv == RequestOK /\ RowOK /\ deployed \in Deployment /\ FreshViewIsRow

(* A commit writes what its request found.                                 *)
LEMMA MayWriteSeesRow ==
  ASSUME ViewInv, NEW r \in Request, req[r].op \in PendingOp, MayWrite(r)
  PROVE  req[r].key \in Key /\ req[r].found = row[req[r].key]
BY DEF ViewInv, FreshViewIsRow, MayWrite

LEMMA WriteKeepsViews ==
  ASSUME ViewInv, NEW r \in Request, req[r].op \in PendingOp,
         NEW new \in RowRecord, WriteRow(r, new)
  PROVE  ViewInv'
<1>1. req[r].key \in Key
  BY DEF ViewInv, FreshViewIsRow
<1>2. /\ row' = [row EXCEPT ![req[r].key] = new]
      /\ req' = [Staled(r, req[r].key) EXCEPT ![r].op = "audit"]
      /\ deployed' = deployed
  BY DEF WriteRow
<1>3. RowOK'
  BY <1>1, <1>2 DEF ViewInv, RowOK
<1>4. Staled(r, req[r].key) \in [Request -> RequestRecord]
  <2>1. \A q \in Request : [req[q] EXCEPT !.stale = TRUE] \in RequestRecord
    BY DEF ViewInv, RequestOK, RequestRecord
  <2>2. \A q \in Request : Staled(r, req[r].key)[q] \in RequestRecord
    BY <2>1 DEF Staled, ViewInv, RequestOK
  <2> QED
    BY <2>2 DEF Staled
<1>5. RequestOK'
  <2>1. \A x \in RequestRecord : [x EXCEPT !.op = "audit"] \in RequestRecord
    BY DEF RequestRecord
  <2> QED
    BY <1>2, <1>4, <2>1 DEF RequestOK
<1>6. FreshViewIsRow'
  <2> SUFFICES ASSUME NEW q \in Request, req'[q].op \in PendingOp
               PROVE  /\ req'[q].key \in Key
                      /\ ~req'[q].stale => req'[q].found = row'[req'[q].key]
    BY DEF FreshViewIsRow
  <2>1. q # r
    BY <1>2, <1>4 DEF PendingOp, RequestRecord
  <2>2. req'[q] = Staled(r, req[r].key)[q]
    BY <1>2, <1>4, <2>1
  <2>3. CASE req[q].key = req[r].key
    <3>1. req'[q] = [req[q] EXCEPT !.stale = TRUE]
      BY <2>1, <2>2, <2>3 DEF Staled
    <3> QED
      BY <1>1, <2>3, <3>1 DEF ViewInv, RequestOK, RequestRecord
  <2>4. CASE req[q].key # req[r].key
    <3>1. req'[q] = req[q]
      BY <2>2, <2>4 DEF Staled
    <3>2. req[q].key \in Key /\ row'[req[q].key] = row[req[q].key]
      BY <1>2, <2>4, <3>1 DEF ViewInv, FreshViewIsRow, RowOK
    <3> QED
      BY <3>1, <3>2 DEF ViewInv, FreshViewIsRow
  <2> QED
    BY <2>3, <2>4
<1> QED
  BY <1>2, <1>3, <1>5, <1>6 DEF ViewInv

(* A request is left without a row to write.                               *)
LEMMA EndKeepsViews ==
  ASSUME ViewInv, UNCHANGED <<row, deployed>>, RequestOK',
         \A q \in Request : req'[q].op \in PendingOp => req'[q] = req[q]
  PROVE  ViewInv'
BY DEF ViewInv, RowOK, FreshViewIsRow

LEMMA OpenKeepsViews ==
  ASSUME ViewInv, NEW r \in Request, NEW op \in PendingOp \cup {"audit"},
         NEW k \in Key, NEW v \in AnyValue, Open(r, op, k, v)
  PROVE  ViewInv'
<1>1. /\ req' = [req EXCEPT ![r] = [op |-> op, key |-> k, value |-> v,
                                   found |-> row[k], stale |-> FALSE]]
      /\ UNCHANGED <<row, deployed>>
  BY DEF Open
<1>2. RequestOK'
  BY <1>1 DEF ViewInv, RequestOK, RequestRecord, RowOK, PendingOp
<1>3. FreshViewIsRow'
  BY <1>1 DEF ViewInv, RequestOK, FreshViewIsRow
<1> QED
  BY <1>1, <1>2, <1>3 DEF ViewInv, RowOK

(* A save or a clear that the database would still let write has seen the  *)
(* row of its key as it is, and one that saw none may still insert it.     *)
THEOREM FreshViews == Spec => []ViewInv
<1>1. Init => ViewInv
  BY DEF Init, ViewInv, RequestOK, RequestRecord, RowOK, RowRecord, AnyValue,
         FreshViewIsRow, Idle, NoRow, PendingOp
<1>2. ViewInv /\ [Next]_vars => ViewInv'
  <2> SUFFICES ASSUME ViewInv, [Next]_vars
               PROVE  ViewInv'
    OBVIOUS
  <2>a. ASSUME UNCHANGED <<row, deployed, req>>
        PROVE  ViewInv'
    BY <2>a DEF ViewInv, RequestOK, RowOK, FreshViewIsRow
  <2>1. CASE UNCHANGED vars
    BY <2>1, <2>a DEF vars
  <2>2. ASSUME NEW r \in Request, NEW k \in Key, NEW v \in Value,
               OpenSave(r, k, v)
        PROVE  ViewInv'
    BY <2>2, OpenKeepsViews DEF OpenSave, PendingOp, AnyValue
  <2>3. ASSUME NEW r \in Request, NEW k \in Key, OpenClear(r, k)
        PROVE  ViewInv'
    BY <2>3, OpenKeepsViews DEF OpenClear, PendingOp, AnyValue
  <2>4. ASSUME NEW r \in Request, CommitSave(r)
        PROVE  ViewInv'
    <3>1. req[r].value \in AnyValue
      BY DEF ViewInv, RequestOK, RequestRecord
    <3>2. SealFor(req[r].key) \in {d.master : d \in Deployment} \cup {None}
      BY DEF SealFor, ViewInv
    <3>3. [value |-> req[r].value, sealed |-> SealFor(req[r].key)] \in RowRecord
      BY <3>1, <3>2 DEF RowRecord
    <3> QED
      BY <2>4, <3>3, WriteKeepsViews DEF CommitSave, PendingOp
  <2>5. ASSUME NEW r \in Request, CommitClear(r)
        PROVE  ViewInv'
    <3>1. NoRow \in RowRecord
      BY DEF NoRow, RowRecord, AnyValue
    <3> QED
      BY <2>5, <3>1, WriteKeepsViews DEF CommitClear, PendingOp
  <2>6. ASSUME NEW r \in Request, RequestStep(r)
        PROVE  ViewInv'
    <3>1. /\ UNCHANGED <<row, deployed>>
          /\ \/ req' = [req EXCEPT ![r].op = "audit"]
             \/ req' = [req EXCEPT ![r] = Idle]
      <4>1. CASE CommitSame(r)
        BY <4>1 DEF CommitSame
      <4>2. CASE Audit(r) \/ Fail(r)
        BY <4>2 DEF Audit, Fail
      <4> QED
        BY <2>6, <4>1, <4>2 DEF RequestStep
    <3>2. RequestOK'
      <4>1. Idle \in RequestRecord
        BY DEF Idle, NoRow, RequestRecord, RowRecord, AnyValue
      <4>2. [req[r] EXCEPT !.op = "audit"] \in RequestRecord
        BY DEF ViewInv, RequestOK, RequestRecord
      <4> QED
        BY <3>1, <4>1, <4>2 DEF ViewInv, RequestOK
    <3>3. \A q \in Request : req'[q].op \in PendingOp => req'[q] = req[q]
      BY <3>1 DEF ViewInv, RequestOK, RequestRecord, Idle, PendingOp
    <3> QED
      BY <3>1, <3>2, <3>3, EndKeepsViews
  <2>7. ASSUME NEW d \in Deployment, Deploy(d)
        PROVE  ViewInv'
    BY <2>7 DEF Deploy, ViewInv, RequestOK, RequestRecord, RowOK, RowRecord,
         AnyValue, FreshViewIsRow, Idle, NoRow, PendingOp
  <2>8. ASSUME NEW c \in Caller, CallerStep(c)
        PROVE  ViewInv'
    BY <2>8, <2>a, CallerLeavesRows
  <2> QED
    BY <2>1, <2>2, <2>3, <2>4, <2>5, <2>6, <2>7, <2>8, NextSplits
<1> QED
  BY <1>1, <1>2, PTL DEF Spec

(* No save and no clear of a setting destroys a change that its            *)
(* administrator has not seen.                                             *)
THEOREM NoUnseenOverwrite == Spec => NothingOverwrittenUnseen
<1>1. ViewInv /\ [Next]_vars
        => [\A k \in Key :
              row'[k] # row[k]
                => \E r \in Request :
                     /\ req[r].key = k /\ req[r].found = row[k]
                     /\ req'[r].op = "audit"]_vars
  <2> SUFFICES ASSUME ViewInv, Next, NEW k \in Key, row'[k] # row[k]
               PROVE  \E r \in Request :
                        /\ req[r].key = k /\ req[r].found = row[k]
                        /\ req'[r].op = "audit"
    OBVIOUS
  <2>1. PICK r \in Request : CommitSave(r) \/ CommitClear(r)
    <3>1. row' # row
      OBVIOUS
    <3> QED
      BY <3>1, NextSplits, CallerLeavesRows DEF OpenSave, OpenClear, Open,
           RequestStep, CommitSame, Audit, Fail, Deploy
  <2>2. /\ req[r].op \in PendingOp /\ MayWrite(r)
        /\ \E new : row' = [row EXCEPT ![req[r].key] = new]
        /\ req' = [Staled(r, req[r].key) EXCEPT ![r].op = "audit"]
    BY <2>1 DEF CommitSave, CommitClear, WriteRow, PendingOp
  <2>3. req[r].key = k
    BY <2>2 DEF ViewInv, RowOK
  <2>4. req[r].found = row[k]
    BY <2>2, <2>3, MayWriteSeesRow
  <2>5. req'[r].op = "audit"
    BY <2>2 DEF Staled, ViewInv, RequestOK, RequestRecord
  <2> QED
    BY <2>3, <2>4, <2>5
<1> QED
  BY <1>1, FreshViews, PTL DEF Spec, NothingOverwrittenUnseen

-----------------------------------------------------------------------------
(* Secrets are kept encrypted.  What is to be saved was allowed when the   *)
(* request was opened, and a deployment that takes the key away ends the   *)
(* request.                                                                *)
SaveIsAllowed ==
  \A r \in Request :
    req[r].op = "save"
      => /\ req[r].value \in Choices[req[r].key]
         /\ req[r].key \in SecretKey => deployed.master # None

SealInv == TypeOK /\ SaveIsAllowed

(* What the environments give are values, and so is all that is in force   *)
(* or resolves.                                                            *)
LEMMA EnvironmentIsTyped ==
  ASSUME NEW d \in Deployment, NEW k \in Key
  PROVE  d.env[k] \in Value
<1> DEFINE saved == UNION {Choices[x] : x \in Key}
           given == UNION {{e.env[x] : x \in Key} : e \in Deployment}
<1>1. Value = saved \cup given
  BY DEF Value
<1>2. d.env[k] \in {d.env[x] : x \in Key}
  OBVIOUS
<1>3. d.env[k] \in given
  BY <1>2
<1> HIDE DEF saved, given
<1> QED
  BY <1>1, <1>3

LEMMA InForceIsTyped ==
  ASSUME NEW rows \in [Key -> Row \cup {NoRow}], deployed \in Deployment
  PROVE  InForce(rows, deployed) \in [Key -> Value]
BY EnvironmentIsTyped DEF InForce, Row

LEMMA ResolutionIsTyped ==
  ASSUME NEW rows \in [Key -> Row \cup {NoRow}], deployed \in Deployment
  PROVE  Resolution(rows) \in [Key -> Value]
<1>1. \A k \in Key : Resolved(rows, k) \in Value
  BY EnvironmentIsTyped DEF Resolved, Row
<1> QED
  BY <1>1 DEF Resolution

LEMMA NoCallIsTyped == NoCall \in CallRecord
<1>1. NoRows \in [Key -> Row \cup {NoRow}]
  BY DEF NoRows
<1> QED
  BY <1>1 DEF NoCall, CallRecord

(* Replacing one field by another of its type keeps a record typed.        *)
LEMMA FieldsKeepTypes ==
  ASSUME NEW x \in CallRecord
  PROVE  /\ \A u \in [Key -> SUBSET (Value \cup {None})] :
              [x EXCEPT !.used = u] \in CallRecord
         /\ \A f \in [Key -> Value] :
              [x EXCEPT !.since = @ \cup {f}] \in CallRecord
         /\ \A f \in [Key -> Value], v \in [Key -> Row \cup {NoRow}] :
              [x EXCEPT !.phase = "running", !.view = v, !.settings = f]
                \in CallRecord
<1> DEFINE Views == [Key -> Row \cup {NoRow}]
           Forces == [Key -> Value]
           Parsed == [Key -> Value \cup {None}]
           Uses == [Key -> SUBSET (Value \cup {None})]
<1>1. Forces \subseteq Parsed
  OBVIOUS
<1>2. CallRecord = [phase : {"idle", "admitted", "running"}, view : Views,
                    settings : Parsed, used : Uses, since : SUBSET Forces]
  BY DEF CallRecord
<1> HIDE DEF Views, Forces, Parsed, Uses
<1>3. \A u \in Uses : [x EXCEPT !.used = u] \in CallRecord
  BY <1>2
<1>4. \A f \in Forces : [x EXCEPT !.since = @ \cup {f}] \in CallRecord
  BY <1>2
<1>5. \A f \in Forces, v \in Views :
        [x EXCEPT !.phase = "running", !.view = v, !.settings = f] \in CallRecord
  BY <1>1, <1>2
<1> QED
  BY <1>3, <1>4, <1>5 DEF Views, Forces, Uses

(* A step of a check or a call keeps the record of its slot typed.         *)
LEMMA CallerKeepsTypes ==
  ASSUME TypeOK, NEW c \in Caller, CallerStep(c)
  PROVE  call' \in [Caller -> CallRecord]
<1>1. /\ row \in [Key -> Row \cup {NoRow}] /\ deployed \in Deployment
      /\ call \in [Caller -> CallRecord]
  BY DEF TypeOK
<1>2. InForce(row, deployed) \in [Key -> Value]
  BY <1>1, InForceIsTyped
<1>3. Resolution(row) \in [Key -> Value]
  BY <1>1, ResolutionIsTyped
<1>4. ASSUME NEW t \in Value, Call(c, t)
      PROVE  call' \in [Caller -> CallRecord]
  <2>1. "internal_api_token" \in Key
    BY DEF Key
  <2>2. Resolved(row, "internal_api_token") \in Value
    BY <1>3, <2>1 DEF Resolution
  <2>3. [NoCall EXCEPT !.phase = "admitted", !.view = row,
           !.used["internal_api_token"] = {Resolved(row, "internal_api_token")},
           !.since = {InForce(row, deployed)}] \in CallRecord
    BY <1>1, <1>2, <2>2, NoCallIsTyped DEF CallRecord
  <2> QED
    BY <1>1, <1>4, <2>3 DEF Call
<1>5. CASE Check(c)
  <2>1. [NoCall EXCEPT !.phase = "running", !.settings = Resolution(row),
           !.since = {InForce(row, deployed)}] \in CallRecord
    BY <1>2, <1>3, NoCallIsTyped DEF CallRecord
  <2> QED
    BY <1>1, <1>5, <2>1 DEF Check
<1>6. CASE Configure(c)
  <2>1. Resolution(Seen(c)) \in [Key -> Value]
    BY <1>1, ResolutionIsTyped DEF Seen, CallRecord
  <2>2. NoRows \in [Key -> Row \cup {NoRow}]
    BY DEF NoRows
  <2>3. call' = [call EXCEPT ![c] = [call[c] EXCEPT !.phase = "running",
                   !.view = NoRows, !.settings = Resolution(Seen(c))]]
    BY <1>1, <1>6 DEF Configure, CallRecord
  <2> QED
    BY <1>1, <2>1, <2>2, <2>3, FieldsKeepTypes
<1>7. CASE Send(c)
  <2> DEFINE now == call[c].settings
             new == [k \in Key |->
                       IF k \in Needed(now["product_fetch_provider"])
                       THEN call[c].used[k] \cup {now[k]} ELSE call[c].used[k]]
  <2>1. \A k \in Key : now[k] \in Value \cup {None}
    BY <1>1 DEF CallRecord
  <2>2. new \in [Key -> SUBSET (Value \cup {None})]
    BY <1>1, <2>1 DEF CallRecord
  <2>3. call' = [call EXCEPT ![c] = [call[c] EXCEPT !.used = new]]
    BY <1>7 DEF Send
  <2> HIDE DEF new
  <2> QED
    BY <1>1, <2>2, <2>3, FieldsKeepTypes
<1>8. CASE EndCall(c)
  BY <1>1, <1>8, NoCallIsTyped DEF EndCall
<1> QED
  BY <1>4, <1>5, <1>6, <1>7, <1>8 DEF CallerStep

(* Requests that are not touched by a step are as good as before.          *)
RequestTyped(q) ==
  \/ q = Idle
  \/ /\ q.op \in {"save", "clear", "audit"}
     /\ q.key \in Key
     /\ q.found \in Row \cup {NoRow}

LEMMA RequestKeepsSeals ==
  ASSUME SealInv, UNCHANGED <<row, deployed, call, changes>>,
         \A r \in Request :
           \/ req'[r] = req[r]
           \/ RequestTyped(req'[r]) /\ req'[r].op # "save"
           \/ /\ RequestTyped(req'[r])
              /\ req'[r].value \in Choices[req'[r].key]
              /\ req'[r].key \in SecretKey => deployed.master # None
  PROVE  SealInv'
<1>1. \A r \in Request : RequestTyped(req'[r])
  BY DEF SealInv, TypeOK, RequestTyped
<1>2. TypeOK'
  BY <1>1 DEF SealInv, TypeOK, RequestTyped
<1>3. SaveIsAllowed'
  BY DEF SealInv, SaveIsAllowed
<1> QED
  BY <1>2, <1>3 DEF SealInv

LEMMA OpenKeepsSeals ==
  ASSUME SealInv, ViewInv, NEW r \in Request,
         NEW op \in {"save", "clear", "audit"}, NEW k \in Key, NEW v,
         Open(r, op, k, v),
         op = "save" => v \in Choices[k] /\ (k \in SecretKey => deployed.master # None)
  PROVE  SealInv'
<1> DEFINE new == [op |-> op, key |-> k, value |-> v, found |-> row[k],
                   stale |-> FALSE]
<1>1. RequestTyped(new)
  BY DEF RequestTyped, SealInv, TypeOK
<1>2. \A q \in Request : req'[q] = IF q = r THEN new ELSE req[q]
  BY DEF Open, ViewInv, RequestOK
<1>3. UNCHANGED <<row, deployed, call, changes>>
  BY DEF Open
<1>4. new.op = op /\ new.key = k /\ new.value = v
  OBVIOUS
<1> HIDE DEF new
<1>5. ASSUME NEW q \in Request
      PROVE  \/ req'[q] = req[q]
             \/ RequestTyped(req'[q]) /\ req'[q].op # "save"
             \/ /\ RequestTyped(req'[q])
                /\ req'[q].value \in Choices[req'[q].key]
                /\ req'[q].key \in SecretKey => deployed.master # None
  <2>1. CASE q # r
    BY <1>2, <2>1
  <2>2. CASE q = r
    <3>1. req'[q] = new
      BY <1>2, <2>2
    <3> QED
      BY <1>1, <1>4, <3>1
  <2> QED
    BY <2>1, <2>2
<1> QED
  BY <1>3, <1>5, RequestKeepsSeals

LEMMA EndKeepsSeals ==
  ASSUME SealInv, ViewInv, NEW r \in Request, req[r].op # "idle",
         \/ req' = [req EXCEPT ![r].op = "audit"]
         \/ req' = [req EXCEPT ![r] = Idle],
         UNCHANGED <<row, deployed, call, changes>>
  PROVE  SealInv'
<1>1. RequestTyped(req[r]) /\ req[r] # Idle
  BY DEF SealInv, TypeOK, RequestTyped, Idle
<1>2. RequestTyped([req[r] EXCEPT !.op = "audit"])
      /\ [req[r] EXCEPT !.op = "audit"].op = "audit"
  BY <1>1 DEF RequestTyped, ViewInv, RequestOK, RequestRecord
<1>3. RequestTyped(Idle) /\ Idle.op = "idle"
  BY DEF RequestTyped, Idle
<1>4. \A q \in Request :
        \/ req'[q] = req[q]
        \/ req'[q] = [req[r] EXCEPT !.op = "audit"]
        \/ req'[q] = Idle
  BY DEF ViewInv, RequestOK
<1> QED
  BY <1>2, <1>3, <1>4, RequestKeepsSeals

LEMMA WriteKeepsSeals ==
  ASSUME SealInv, ViewInv, NEW r \in Request, req[r].op \in PendingOp,
         NEW new \in Row \cup {NoRow}, WriteRow(r, new),
         new # NoRow => /\ new.value \in Choices[req[r].key]
                        /\ new.sealed # None <=> req[r].key \in SecretKey
  PROVE  SealInv'
<1>1. req[r].key \in Key
  BY DEF ViewInv, FreshViewIsRow
<1>2. /\ row' = [row EXCEPT ![req[r].key] = new]
      /\ req' = [Staled(r, req[r].key) EXCEPT ![r].op = "audit"]
      /\ deployed' = deployed
      /\ call' = Witnessed(row')
      /\ changes' = changes + 1 /\ changes < MaxChanges
  BY DEF WriteRow
<1>3. /\ row' \in [Key -> Row \cup {NoRow}]
      /\ \A k \in Key :
           row'[k] # NoRow => /\ row'[k].value \in Choices[k]
                              /\ row'[k].sealed # None <=> k \in SecretKey
  BY <1>1, <1>2 DEF SealInv, TypeOK
<1>4. call' \in [Caller -> CallRecord]
  <2>1. InForce(row', deployed) \in [Key -> Value]
    BY <1>3, InForceIsTyped DEF SealInv, TypeOK
  <2> QED
    BY <1>2, <2>1, FieldsKeepTypes DEF Witnessed, SealInv, TypeOK
<1>5. changes' \in 0..MaxChanges
  BY <1>2 DEF SealInv, TypeOK
<1>6. \A q \in Request :
        /\ req[q] \in RequestRecord
        /\ q # r => req'[q] \in {req[q], [req[q] EXCEPT !.stale = TRUE]}
  BY <1>2 DEF Staled, ViewInv, RequestOK
<1>7. \A q \in Request \ {r} :
        /\ req'[q].op = req[q].op /\ req'[q].key = req[q].key
        /\ req'[q].value = req[q].value /\ req'[q].found = req[q].found
  BY <1>6 DEF RequestRecord
<1>8. req'[r] = [req[r] EXCEPT !.op = "audit"]
  BY <1>2 DEF Staled
<1>9. /\ req'[r].op = "audit" /\ req'[r].key = req[r].key
      /\ req'[r].found = req[r].found
  BY <1>6, <1>8 DEF RequestRecord
<1>10. \A q \in Request : RequestTyped(req'[q])
  <2>1. RequestTyped(req'[r])
    BY <1>9 DEF RequestTyped, SealInv, TypeOK, PendingOp, Idle
  <2>2. ASSUME NEW q \in Request \ {r}
        PROVE  RequestTyped(req'[q])
    <3>1. CASE req[q] = Idle
      <4>1. req[q].key # req[r].key
        BY <1>1, <3>1 DEF Idle
      <4>2. req'[q] = req[q]
        BY <1>2, <4>1 DEF Staled
      <4> QED
        BY <3>1, <4>2 DEF RequestTyped
    <3>2. CASE req[q] # Idle
      BY <1>7, <3>2 DEF RequestTyped, SealInv, TypeOK
    <3> QED
      BY <3>1, <3>2
  <2> QED
    BY <2>1, <2>2
<1>11. TypeOK'
  BY <1>2, <1>3, <1>4, <1>5, <1>10 DEF SealInv, TypeOK, RequestTyped
<1>12. SaveIsAllowed'
  BY <1>2, <1>7, <1>9 DEF SealInv, SaveIsAllowed
<1> QED
  BY <1>11, <1>12 DEF SealInv

(* Every variable keeps its type: each value in the table was one that an  *)
(* administrator may save, secrets are kept encrypted, and nothing else is.*)
THEOREM TypeCorrect == Spec => []TypeOK
<1>1. Init => SealInv
  BY NoCallIsTyped DEF Init, SealInv, TypeOK, SaveIsAllowed, Idle, NoRow
<1>2. SealInv /\ ViewInv /\ [Next]_vars => SealInv'
  <2> SUFFICES ASSUME SealInv, ViewInv, [Next]_vars
               PROVE  SealInv'
    OBVIOUS
  <2>1. CASE UNCHANGED vars
    BY <2>1 DEF vars, SealInv, TypeOK, SaveIsAllowed
  <2>2. ASSUME NEW r \in Request, NEW k \in Key, NEW v \in Value,
               OpenSave(r, k, v)
        PROVE  SealInv'
    BY <2>2, OpenKeepsSeals DEF OpenSave
  <2>3. ASSUME NEW r \in Request, NEW k \in Key, OpenClear(r, k)
        PROVE  SealInv'
    BY <2>3, OpenKeepsSeals DEF OpenClear
  <2>4. ASSUME NEW r \in Request, CommitSave(r)
        PROVE  SealInv'
    <3> DEFINE new == [value |-> req[r].value, sealed |-> SealFor(req[r].key)]
    <3>1. /\ req[r].op = "save" /\ req[r].key \in Key
          /\ req[r].value \in Choices[req[r].key]
          /\ req[r].key \in SecretKey => deployed.master # None
      BY <2>4 DEF CommitSave, SealInv, SaveIsAllowed, ViewInv, FreshViewIsRow,
                  PendingOp
    <3>2. new \in Row /\ (new.sealed # None <=> req[r].key \in SecretKey)
      BY <3>1 DEF SealFor, Row, Value, SealInv, TypeOK
    <3> QED
      BY <2>4, <3>1, <3>2, WriteKeepsSeals DEF CommitSave, PendingOp
  <2>5. ASSUME NEW r \in Request, CommitClear(r)
        PROVE  SealInv'
    BY <2>5, WriteKeepsSeals DEF CommitClear, PendingOp
  <2>6. ASSUME NEW r \in Request, RequestStep(r)
        PROVE  SealInv'
    BY <2>6, EndKeepsSeals DEF RequestStep, CommitSame, Audit, Fail
  <2>7. ASSUME NEW d \in Deployment, Deploy(d)
        PROVE  SealInv'
    <3>1. call' \in [Caller -> CallRecord]
      BY <2>7, NoCallIsTyped DEF Deploy
    <3>2. changes' \in 0..MaxChanges
      BY <2>7 DEF Deploy, SealInv, TypeOK
    <3> QED
      BY <2>7, <3>1, <3>2 DEF Deploy, SealInv, TypeOK, SaveIsAllowed, Idle
  <2>8. ASSUME NEW c \in Caller, CallerStep(c)
        PROVE  SealInv'
    BY <2>8, CallerLeavesRows, CallerKeepsTypes DEF SealInv, TypeOK, SaveIsAllowed
  <2> QED
    BY <2>1, <2>2, <2>3, <2>4, <2>5, <2>6, <2>7, <2>8, NextSplits
<1>3. SealInv => TypeOK
  BY DEF SealInv
<1> QED
  BY <1>1, <1>2, <1>3, FreshViews, PTL DEF Spec
-----------------------------------------------------------------------------
(* What is used was in force.  What resolves without an error is what is   *)
(* in force.                                                               *)
LEMMA ResolutionIsInForce ==
  ASSUME NEW rows, \A k \in Key : ~Raises(rows, k)
  PROVE  Resolution(rows) = InForce(rows, deployed)
BY DEF Raises, Resolved, Resolution, InForce

(* The moment that a check or a call belongs to: that of its view until it *)
(* has resolved its settings, and then that of its settings.               *)
Moment(c) ==
  IF call[c].phase = "admitted" THEN InForce(call[c].view, deployed)
  ELSE call[c].settings

OfOneMoment(c) ==
  call[c].phase # "idle"
    => /\ Moment(c) \in call[c].since
       /\ \A k \in Key : call[c].used[k] \subseteq {Moment(c)[k]}
UseInv == \A c \in Caller : OfOneMoment(c)

(* The other checks and calls go on as they are.                           *)
LEMMA OthersKeepMoment ==
  ASSUME UseInv, deployed' = deployed, NEW c \in Caller, call'[c] = call[c]
  PROVE  OfOneMoment(c)'
BY DEF UseInv, OfOneMoment, Moment, InForce

LEMMA CallerKeepsMoment ==
  ASSUME TypeOK, UseInv, NEW c \in Caller, CallerStep(c)
  PROVE  UseInv'
<1>1. call \in [Caller -> CallRecord] /\ deployed' = deployed
  BY CallerLeavesRows DEF TypeOK
<1>2. \A x \in Caller \ {c} : call'[x] = call[x]
  BY <1>1 DEF CallerStep, Call, Check, Configure, Send, EndCall
<1> SUFFICES OfOneMoment(c)'
  BY <1>1, <1>2, OthersKeepMoment DEF UseInv
<1>3. ASSUME NEW t \in Value, Call(c, t)
      PROVE  OfOneMoment(c)'
  <2>1. /\ call'[c].phase = "admitted" /\ call'[c].view = row
        /\ call'[c].since = {InForce(row, deployed)}
        /\ call'[c].used = [NoCall.used EXCEPT !["internal_api_token"] =
                              {Resolved(row, "internal_api_token")}]
    BY <1>1, <1>3 DEF Call, NoCall
  <2>2. Resolved(row, "internal_api_token")
          = InForce(row, deployed)["internal_api_token"]
    BY <1>3 DEF Call, Admitted, Raises, Resolved, InForce, Key
  <2>3. Moment(c)' = InForce(row, deployed)
    BY <1>1, <2>1 DEF Moment, InForce
  <2>4. \A k \in Key : call'[c].used[k] \subseteq {InForce(row, deployed)[k]}
    BY <2>1, <2>2 DEF NoCall
  <2> QED
    BY <2>1, <2>3, <2>4 DEF OfOneMoment
<1>4. CASE Check(c)
  <2>1. /\ call'[c].phase = "running" /\ call'[c].settings = Resolution(row)
        /\ call'[c].since = {InForce(row, deployed)}
        /\ call'[c].used = [k \in Key |-> {}]
    BY <1>1, <1>4 DEF Check, NoCall
  <2>2. Resolution(row) = InForce(row, deployed)
    BY <1>4, ResolutionIsInForce DEF Check, Configured
  <2> QED
    BY <2>1, <2>2 DEF OfOneMoment, Moment
<1>5. CASE Configure(c)
  <2>1. /\ call[c].phase = "admitted" /\ call'[c].phase = "running"
        /\ call'[c].settings = Resolution(call[c].view)
        /\ call'[c].since = call[c].since /\ call'[c].used = call[c].used
    BY <1>1, <1>5 DEF Configure, Seen, CallRecord
  <2>2. Resolution(call[c].view) = InForce(call[c].view, deployed)
    BY <1>5, ResolutionIsInForce DEF Configure, Configured, Seen
  <2>3. Moment(c)' = Moment(c)
    BY <2>1, <2>2 DEF Moment
  <2> QED
    BY <2>1, <2>3 DEF UseInv, OfOneMoment
<1>6. CASE Send(c)
  <2> DEFINE now == call[c].settings
             keys == Needed(now["product_fetch_provider"])
             new == [k \in Key |-> IF k \in keys THEN call[c].used[k] \cup {now[k]}
                                   ELSE call[c].used[k]]
  <2>1. call' = [call EXCEPT ![c].used = new] /\ call[c].phase = "running"
    BY <1>6 DEF Send
  <2>2. \A k \in Key : new[k] \subseteq call[c].used[k] \cup {now[k]}
    OBVIOUS
  <2> HIDE DEF new
  <2>3. /\ call'[c].used = new /\ call'[c].phase = "running"
        /\ call'[c].settings = now /\ call'[c].since = call[c].since
    BY <1>1, <2>1 DEF CallRecord
  <2>4. Moment(c) = now /\ Moment(c)' = now
    BY <2>1, <2>3 DEF Moment
  <2> QED
    BY <2>1, <2>2, <2>3, <2>4 DEF UseInv, OfOneMoment
<1>7. CASE EndCall(c)
  BY <1>1, <1>7 DEF EndCall, OfOneMoment, NoCall
<1> QED
  BY <1>3, <1>4, <1>5, <1>6, <1>7 DEF CallerStep

(* A change of a row is one more moment that was seen.                     *)
LEMMA WriteKeepsMoment ==
  ASSUME TypeOK, UseInv, NEW r \in Request, NEW new, WriteRow(r, new)
  PROVE  UseInv'
<1> SUFFICES ASSUME NEW c \in Caller
             PROVE  OfOneMoment(c)'
  BY DEF UseInv
<1>1. deployed' = deployed /\ call' = Witnessed(row')
  BY DEF WriteRow
<1>2. CASE call[c].phase = "idle"
  BY <1>1, <1>2, OthersKeepMoment DEF Witnessed
<1>3. CASE call[c].phase # "idle"
  <2>1. call[c] \in CallRecord
    BY DEF TypeOK
  <2>2. call'[c] = [call[c] EXCEPT !.since = @ \cup {InForce(row', deployed)}]
    BY <1>1, <1>3 DEF Witnessed
  <2>3. /\ call'[c].phase = call[c].phase /\ call'[c].view = call[c].view
        /\ call'[c].settings = call[c].settings /\ call'[c].used = call[c].used
        /\ call[c].since \subseteq call'[c].since
    BY <2>1, <2>2 DEF CallRecord
  <2>4. Moment(c)' = Moment(c)
    BY <1>1, <2>3 DEF Moment, InForce
  <2> QED
    BY <2>3, <2>4 DEF UseInv, OfOneMoment
<1> QED
  BY <1>2, <1>3

(* What a check or an internal call uses was in force all at one moment    *)
(* since it began: a check that begins after a change never uses the old   *)
(* value, and none mixes values of different moments.                      *)
THEOREM UsedTogether == Spec => []UsedWasInForce
<1>1. Init => UseInv
  BY DEF Init, UseInv, OfOneMoment, NoCall
<1>2. TypeOK /\ UseInv /\ [Next]_vars => UseInv'
  <2> SUFFICES ASSUME TypeOK, UseInv, [Next]_vars
               PROVE  UseInv'
    OBVIOUS
  <2>a. ASSUME UNCHANGED <<deployed, call>>
        PROVE  UseInv'
    BY <2>a, OthersKeepMoment DEF UseInv
  <2>1. CASE UNCHANGED vars
    BY <2>1, <2>a DEF vars
  <2>2. ASSUME NEW r \in Request, NEW k \in Key, NEW v \in Value,
               OpenSave(r, k, v)
        PROVE  UseInv'
    BY <2>2, <2>a DEF OpenSave, OpenClear, Open
  <2>3. ASSUME NEW r \in Request, CommitSave(r) \/ CommitClear(r)
        PROVE  UseInv'
    BY <2>3, WriteKeepsMoment DEF CommitSave, CommitClear
  <2>4. ASSUME NEW r \in Request, RequestStep(r)
        PROVE  UseInv'
    BY <2>4, <2>a DEF RequestStep, CommitSame, Audit, Fail
  <2>5. ASSUME NEW d \in Deployment, Deploy(d)
        PROVE  UseInv'
    BY <2>5 DEF Deploy, UseInv, OfOneMoment, NoCall
  <2>6. ASSUME NEW c \in Caller, CallerStep(c)
        PROVE  UseInv'
    BY <2>6, CallerKeepsMoment
  <2>7. ASSUME NEW r \in Request, NEW k \in Key, OpenClear(r, k)
        PROVE  UseInv'
    BY <2>7, <2>a DEF OpenClear, Open
  <2> QED
    BY <2>1, <2>2, <2>3, <2>4, <2>5, <2>6, <2>7, NextSplits
<1>3. UseInv => UsedWasInForce
  BY DEF UseInv, OfOneMoment, UsedWasInForce
<1> QED
  BY <1>1, <1>2, <1>3, TypeCorrect, PTL DEF Spec
=============================================================================
