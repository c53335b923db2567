---------------------------- MODULE AccountsProofs ----------------------------
(***************************************************************************)
(* What is proved of Accounts, for any addresses and administrators, any   *)
(* number of concurrent requests and any number of reset links.            *)
(***************************************************************************)
EXTENDS Accounts, TLAPS, SequenceTheorems

USE AccountsAssumption

Row == Account \cup {NoAccount}
RequestRecord ==
  [op : Op \cup {"idle"}, target : User \cup {None}, token : Nat, plan : Row,
   stale : BOOLEAN]

UsersTyped == user \in [User -> Row]
TokensTyped == tokens \in Seq(Token) /\ Len(tokens) <= MaxTokens

RequestsTyped ==
  /\ req \in [Request -> RequestRecord]
  /\ \A r \in Request :
       /\ req[r].op = "idle" => req[r] = Idle
       /\ req[r].op # "idle" => req[r].target \in User
       /\ req[r].op = "confirm"
            => /\ req[r].token \in DOMAIN tokens
               /\ tokens[req[r].token].user = req[r].target

(* A link that has not been used is the user's newest, and has set no      *)
(* password.                                                               *)
UnusedIsNewest ==
  \A i \in DOMAIN tokens :
    ~tokens[i].used
      => /\ tokens[i].resets = 0
         /\ \A k \in DOMAIN tokens : tokens[k].user = tokens[i].user => k <= i

UsedOnce == \A i \in DOMAIN tokens : tokens[i].resets <= 1

(* A request that the database would still let commit finds the account as *)
(* active, and the link as unused, as when it read them.                   *)
FreshIsActive ==
  \A r \in Request :
    req[r].op \in {"login", "confirm"} /\ ~req[r].stale => Active(req[r].target)

FreshIsUnused ==
  \A r \in Request :
    req[r].op = "confirm" /\ ~req[r].stale => ~tokens[req[r].token].used

LinkInv ==
  /\ UsersTyped /\ TokensTyped /\ RequestsTyped
  /\ UnusedIsNewest /\ UsedOnce
  /\ FreshIsActive /\ FreshIsUnused

-----------------------------------------------------------------------------
LEMMA LinkInvImplies ==
  ASSUME LinkInv
  PROVE  TypeOK /\ OneUsableLink
<1>1. \A i \in DOMAIN tokens : tokens[i] \in Token
  BY DEF LinkInv, TokensTyped
<1>2. OneUsableLink
  <2> SUFFICES ASSUME NEW i \in DOMAIN tokens, NEW k \in DOMAIN tokens,
                      Usable(i), Usable(k), tokens[i].user = tokens[k].user
               PROVE  i = k
    BY DEF OneUsableLink
  <2>1. i <= k /\ k <= i
    BY DEF LinkInv, UnusedIsNewest, Usable
  <2>2. i \in Nat /\ k \in Nat
    BY DEF LinkInv, TokensTyped
  <2> QED
    BY <2>1, <2>2
<1>3. \A r \in Request :
        \/ req[r] = Idle
        \/ /\ req[r].op \in Op
           /\ req[r].target \in User
           /\ req[r].plan \in Account \cup {NoAccount}
           /\ req[r].op = "confirm" => req[r].token \in DOMAIN tokens
  BY DEF LinkInv, RequestsTyped, RequestRecord, Row
<1> QED
  BY <1>1, <1>2, <1>3
     DEF TypeOK, LinkInv, UsersTyped, TokensTyped, UsedOnce, Row

LEMMA InitInv ==
  ASSUME Init
  PROVE  LinkInv
<1>1. TokensTyped
  BY DEF Init, TokensTyped
<1>2. Idle \in RequestRecord /\ Idle.op = "idle"
  BY DEF Idle, RequestRecord, Row, NoAccount
<1>3. UsersTyped /\ RequestsTyped
  BY <1>2 DEF Init, UsersTyped, RequestsTyped, Row
<1>4. UnusedIsNewest /\ UsedOnce
  BY DEF Init, UnusedIsNewest, UsedOnce
<1>5. FreshIsActive /\ FreshIsUnused
  BY <1>2 DEF Init, FreshIsActive, FreshIsUnused
<1> QED
  BY <1>1, <1>3, <1>4, <1>5 DEF LinkInv

(* A request is opened by what it reads.                                   *)
LEMMA OpenKeepsInv ==
  ASSUME LinkInv, NEW r \in Request, NEW op \in Op, NEW u \in User,
         NEW i \in Nat, NEW plan \in Row, Open(r, op, u, i, plan),
         op \in {"login", "confirm"} => Active(u),
         op = "confirm"
           => i \in DOMAIN tokens /\ ~tokens[i].used /\ tokens[i].user = u
  PROVE  LinkInv'
<1> DEFINE new == [op |-> op, target |-> u, token |-> i, plan |-> plan,
                   stale |-> FALSE]
<1>1. new \in RequestRecord
  BY DEF RequestRecord
<1>2. /\ req' = [req EXCEPT ![r] = new]
      /\ UNCHANGED <<user, tokens>>
  BY DEF Open
<1>3. \A q \in Request : req'[q] = IF q = r THEN new ELSE req[q]
  BY <1>2 DEF LinkInv, RequestsTyped
<1>4. op # "idle"
  BY DEF Op
<1>5. RequestsTyped'
  BY <1>1, <1>2, <1>3, <1>4 DEF LinkInv, RequestsTyped
<1>6. FreshIsActive' /\ FreshIsUnused'
  BY <1>2, <1>3 DEF LinkInv, FreshIsActive, FreshIsUnused, Active
<1>7. UsersTyped' /\ TokensTyped' /\ UnusedIsNewest' /\ UsedOnce'
  BY <1>2 DEF LinkInv, UsersTyped, TokensTyped, UnusedIsNewest, UsedOnce
<1> QED
  BY <1>5, <1>6, <1>7 DEF LinkInv

(* What a commit does to the other requests.                               *)
LEMMA StaledRequests ==
  ASSUME LinkInv, NEW r \in Request, req[r].op # "idle", req' = Staled(r)
  PROVE  /\ req' \in [Request -> RequestRecord]
         /\ req'[r] = Idle
         /\ \A q \in Request \ {r} :
              /\ req'[q] \in RequestRecord
              /\ req'[q].op = req[q].op
              /\ req'[q].target = req[q].target
              /\ req'[q].token = req[q].token
              /\ req[q].op = "idle" => req'[q] = req[q]
              /\ req[q].stale => req'[q].stale
              /\ /\ req[q].target = req[r].target
                 /\ \/ WritesUser(q) /\ WritesUser(r)
                    \/ WritesTokens(q) /\ WritesTokens(r)
                 => req'[q].stale
<1>1. req \in [Request -> RequestRecord] /\ Idle \in RequestRecord
  BY DEF LinkInv, RequestsTyped, Idle, RequestRecord, Row, NoAccount
<1>2. req'[r] = Idle
  BY DEF Staled
<1>3. ASSUME NEW q \in Request \ {r}
      PROVE  /\ req'[q] \in RequestRecord
             /\ req'[q].op = req[q].op
             /\ req'[q].target = req[q].target
             /\ req'[q].token = req[q].token
             /\ req[q].op = "idle" => req'[q] = req[q]
             /\ req[q].stale => req'[q].stale
             /\ /\ req[q].target = req[r].target
                /\ \/ WritesUser(q) /\ WritesUser(r)
                   \/ WritesTokens(q) /\ WritesTokens(r)
                => req'[q].stale
  <2> DEFINE hit == /\ req[q].target = req[r].target
                    /\ \/ WritesUser(q) /\ WritesUser(r)
                       \/ WritesTokens(q) /\ WritesTokens(r)
  <2>1. req[q] \in RequestRecord
    BY <1>1
  <2>2. req'[q] = [req[q] EXCEPT !.stale = @ \/ hit]
    BY DEF Staled
  <2>3. req[q].op = "idle" => ~hit
    BY DEF WritesUser, WritesTokens
  <2> HIDE DEF hit
  <2>4. CASE req[q].stale \/ hit
    <3>1. req'[q] = [req[q] EXCEPT !.stale = TRUE]
      BY <2>1, <2>2, <2>4 DEF RequestRecord
    <3>2. req[q].op = "idle" => ~req[q].stale
      BY DEF LinkInv, RequestsTyped, Idle
    <3> QED
      BY <2>1, <2>3, <2>4, <3>1, <3>2 DEF RequestRecord, hit
  <2>5. CASE ~(req[q].stale \/ hit)
    <3>1. req'[q] = req[q]
      BY <2>1, <2>2, <2>5 DEF RequestRecord
    <3> QED
      BY <2>1, <2>5, <3>1 DEF RequestRecord, hit
  <2> QED
    BY <2>4, <2>5
<1>4. req' \in [Request -> RequestRecord]
  <2>1. req' = [q \in Request |-> req'[q]]
    BY DEF Staled
  <2>2. \A q \in Request : req'[q] \in RequestRecord
    BY <1>1, <1>2, <1>3
  <2> QED
    BY <2>1, <2>2
<1> QED
  BY <1>2, <1>3, <1>4

(* A commit that writes an account, or uses up links, stales the requests  *)
(* that rely on them.                                                      *)
LEMMA CommitKeepsRequests ==
  ASSUME LinkInv, NEW r \in Request, req[r].op # "idle", req' = Staled(r),
         NEW u \in User, u = req[r].target,
         \A v \in User \ {u} : user'[v] = user[v],
         user'[u] # user[u] => WritesUser(r),
         \A i \in DOMAIN tokens :
           /\ i \in DOMAIN tokens' /\ tokens'[i].user = tokens[i].user
           /\ tokens'[i].used /\ ~tokens[i].used
                => tokens[i].user = u /\ WritesTokens(r)
  PROVE  RequestsTyped' /\ FreshIsActive' /\ FreshIsUnused'
<1>0. req' \in [Request -> RequestRecord]
  BY StaledRequests
<1>1. RequestsTyped'
  <2> SUFFICES ASSUME NEW q \in Request
               PROVE  /\ req'[q].op = "idle" => req'[q] = Idle
                      /\ req'[q].op # "idle" => req'[q].target \in User
                      /\ req'[q].op = "confirm"
                           => /\ req'[q].token \in DOMAIN tokens'
                              /\ tokens'[req'[q].token].user = req'[q].target
    BY <1>0 DEF RequestsTyped
  <2>1. CASE q = r
    <3>1. req'[q] = Idle
      BY <2>1, StaledRequests
    <3> QED
      BY <3>1 DEF Idle
  <2>2. CASE q # r
    <3>1. /\ req'[q].op = req[q].op
          /\ req'[q].target = req[q].target
          /\ req'[q].token = req[q].token
          /\ req[q].op = "idle" => req'[q] = req[q]
      BY <2>2, StaledRequests
    <3> QED
      BY <3>1 DEF LinkInv, RequestsTyped
  <2> QED
    BY <2>1, <2>2
<1>2. FreshIsActive'
  <2> SUFFICES ASSUME NEW q \in Request, req'[q].op \in {"login", "confirm"},
                      ~req'[q].stale
               PROVE  user'[req'[q].target].status = "active"
    BY DEF FreshIsActive, Active
  <2>1. q # r
    BY StaledRequests DEF Idle
  <2>2. /\ req[q].op \in {"login", "confirm"} /\ ~req[q].stale
        /\ req'[q].target = req[q].target
        /\ req[q].target = u => ~(WritesUser(q) /\ WritesUser(r))
    BY <2>1, StaledRequests
  <2>3. WritesUser(q) /\ req[q].target \in User
    BY <2>2 DEF WritesUser, LinkInv, RequestsTyped
  <2>4. user[req[q].target].status = "active"
    BY <2>2 DEF LinkInv, FreshIsActive, Active
  <2> QED
    BY <2>2, <2>3, <2>4
<1>3. FreshIsUnused'
  <2> SUFFICES ASSUME NEW q \in Request, req'[q].op = "confirm", ~req'[q].stale,
                      tokens'[req'[q].token].used
               PROVE  FALSE
    BY DEF FreshIsUnused
  <2>1. q # r
    BY StaledRequests DEF Idle
  <2>2. /\ req[q].op = "confirm" /\ ~req[q].stale
        /\ req'[q].token = req[q].token
        /\ req[q].target = u => ~(WritesTokens(q) /\ WritesTokens(r))
    BY <2>1, StaledRequests
  <2>3. /\ WritesTokens(q)
        /\ req[q].token \in DOMAIN tokens
        /\ tokens[req[q].token].user = req[q].target
        /\ ~tokens[req[q].token].used
    BY <2>2 DEF WritesTokens, LinkInv, RequestsTyped, FreshIsUnused
  <2> QED
    BY <2>2, <2>3
<1> QED
  BY <1>1, <1>2, <1>3

(* A promotion, an administrator's update or a write of other columns.     *)
LEMMA AccountCommitKeepsInv ==
  ASSUME LinkInv, NEW r \in Request,
         CommitLogin(r) \/ CommitUpdate(r) \/ CommitTouch(r)
  PROVE  LinkInv'
<1>1. /\ req' = Staled(r) /\ tokens' = tokens
      /\ WritesUser(r) /\ req[r].op # "idle"
  BY DEF CommitLogin, CommitUpdate, CommitTouch, Commit, WritesUser
<1>2. PICK u \in User : u = req[r].target
  BY <1>1 DEF LinkInv, RequestsTyped
<1>3. user' \in {user, [user EXCEPT ![u] = req[r].plan]}
  BY <1>2 DEF CommitLogin, CommitUpdate, CommitTouch
<1>4. UsersTyped' /\ (\A v \in User \ {u} : user'[v] = user[v])
  BY <1>3 DEF LinkInv, UsersTyped, RequestsTyped, RequestRecord
<1>5. TokensTyped' /\ UnusedIsNewest' /\ UsedOnce'
  BY <1>1 DEF LinkInv, TokensTyped, UnusedIsNewest, UsedOnce
<1>6. RequestsTyped' /\ FreshIsActive' /\ FreshIsUnused'
  BY <1>1, <1>2, <1>4, CommitKeepsRequests
<1> QED
  BY <1>4, <1>5, <1>6 DEF LinkInv

LEMMA TokenRows ==
  ASSUME TokensTyped
  PROVE  /\ Len(tokens) \in Nat
         /\ DOMAIN tokens = 1..Len(tokens)
         /\ \A i \in DOMAIN tokens : tokens[i] \in Token
BY DEF TokensTyped

(* A new link replaces the user's older ones.                              *)
LEMMA ResetKeepsInv ==
  ASSUME LinkInv, NEW r \in Request, CommitReset(r)
  PROVE  LinkInv'
<1>1. /\ req' = Staled(r) /\ user' = user
      /\ WritesTokens(r) /\ req[r].op # "idle"
      /\ Len(tokens) < MaxTokens
  BY DEF CommitReset, Commit, WritesTokens
<1>2. PICK u \in User : u = req[r].target
  BY <1>1 DEF LinkInv, RequestsTyped
<1> DEFINE old == Invalidated(u)
           new == [user |-> u, used |-> FALSE, expired |-> FALSE, resets |-> 0]
<1>3. /\ Len(tokens) \in Nat
      /\ DOMAIN tokens = 1..Len(tokens)
      /\ \A i \in DOMAIN tokens : tokens[i] \in Token
  BY TokenRows DEF LinkInv
<1>4. PICK n \in Nat : n = Len(tokens) + 1
  BY <1>3
<1>5. ASSUME NEW i \in DOMAIN tokens
      PROVE  /\ old[i] \in Token
             /\ old[i].user = tokens[i].user
             /\ old[i].resets = tokens[i].resets
             /\ old[i].used <=> tokens[i].used \/ tokens[i].user = u
  <2>1. old[i] = [tokens[i] EXCEPT !.used = @ \/ tokens[i].user = u]
    BY DEF Invalidated
  <2>2. tokens[i].used \in BOOLEAN /\ (tokens[i].user = u) \in BOOLEAN
    BY <1>3 DEF Token
  <2> QED
    BY <1>3, <2>1, <2>2 DEF Token
<1>6. old \in Seq(Token) /\ Len(old) = Len(tokens)
  <2>1. old = [i \in 1..Len(tokens) |-> old[i]]
    BY <1>3 DEF Invalidated
  <2>2. \A i \in 1..Len(tokens) : old[i] \in Token
    BY <1>3, <1>5
  <2> QED
    BY <1>3, <2>1, <2>2, IsASeq
<1>7. new \in Token /\ tokens' = Append(old, new)
  BY <1>2 DEF Token, CommitReset
<1>15. ~new.used /\ new.resets = 0 /\ new.user = u
  OBVIOUS
<1> HIDE DEF old, new
<1>13. /\ Append(old, new) \in Seq(Token)
       /\ Len(Append(old, new)) = Len(old) + 1
       /\ \A i \in 1..Len(old) : Append(old, new)[i] = old[i]
       /\ Append(old, new)[Len(old) + 1] = new
  BY <1>6, <1>7, AppendProperties
<1>14. DOMAIN Append(old, new) = 1..n
  BY <1>4, <1>6, <1>13
<1>8. /\ tokens' \in Seq(Token) /\ Len(tokens') = n
      /\ DOMAIN tokens' = 1..n
      /\ \A i \in DOMAIN tokens : i \in DOMAIN tokens' /\ i # n /\ tokens'[i] = old[i]
      /\ \A i \in DOMAIN tokens' : i # n => i \in DOMAIN tokens
      /\ n \in DOMAIN tokens' /\ tokens'[n] = new
  BY <1>3, <1>4, <1>6, <1>7, <1>13, <1>14
<1>9. UsersTyped' /\ TokensTyped'
  BY <1>1, <1>3, <1>4, <1>8 DEF LinkInv, UsersTyped, TokensTyped
<1>10. UsedOnce'
  <2> SUFFICES ASSUME NEW i \in DOMAIN tokens'
               PROVE  tokens'[i].resets <= 1
    BY DEF UsedOnce
  <2>1. CASE i = n
    BY <1>8, <1>15, <2>1
  <2>2. CASE i # n
    BY <1>5, <1>8, <2>2 DEF LinkInv, UsedOnce
  <2> QED
    BY <2>1, <2>2
<1>11. UnusedIsNewest'
  <2> SUFFICES ASSUME NEW i \in DOMAIN tokens', ~tokens'[i].used
               PROVE  /\ tokens'[i].resets = 0
                      /\ \A k \in DOMAIN tokens' :
                           tokens'[k].user = tokens'[i].user => k <= i
    BY DEF UnusedIsNewest
  <2>1. CASE i = n
    BY <1>8, <1>15, <2>1
  <2>2. CASE i # n
    <3>1. i \in DOMAIN tokens /\ ~tokens[i].used /\ tokens[i].user # u
      BY <1>5, <1>8, <2>2
    <3>2. tokens'[i].resets = 0 /\ tokens'[i].user = tokens[i].user
      BY <1>5, <1>8, <3>1 DEF LinkInv, UnusedIsNewest
    <3>3. \A k \in DOMAIN tokens' : tokens'[k].user = tokens'[i].user => k <= i
      BY <1>5, <1>8, <1>15, <3>1, <3>2 DEF LinkInv, UnusedIsNewest
    <3> QED
      BY <3>2, <3>3
  <2> QED
    BY <2>1, <2>2
<1>12. RequestsTyped' /\ FreshIsActive' /\ FreshIsUnused'
  BY <1>1, <1>2, <1>5, <1>8, CommitKeepsRequests
<1> QED
  BY <1>9, <1>10, <1>11, <1>12 DEF LinkInv

(* The link that a confirmation uses, at its commit.                       *)
LEMMA ConfirmedLink ==
  ASSUME LinkInv, NEW r \in Request, CommitConfirm(r)
  PROVE  /\ req[r].token \in DOMAIN tokens
         /\ tokens[req[r].token].user = req[r].target
         /\ ~tokens[req[r].token].used
         /\ tokens[req[r].token].resets = 0
         /\ tokens' = [tokens EXCEPT ![req[r].token] =
                        [tokens[req[r].token] EXCEPT !.resets = 1, !.used = TRUE]]
<1>1. req[r].op = "confirm" /\ ~req[r].stale
  BY DEF CommitConfirm, Commit
<1>2. /\ req[r].token \in DOMAIN tokens
      /\ tokens[req[r].token].user = req[r].target
      /\ ~tokens[req[r].token].used
  BY <1>1 DEF LinkInv, RequestsTyped, FreshIsUnused
<1>3. tokens[req[r].token].resets = 0 /\ tokens[req[r].token] \in Token
  BY <1>2, TokenRows DEF LinkInv, UnusedIsNewest
<1>4. MarkUsed([tokens[req[r].token] EXCEPT !.resets = @ + 1])
        = [tokens[req[r].token] EXCEPT !.resets = 1, !.used = TRUE]
  BY <1>3 DEF MarkUsed, Token
<1>5. tokens' = [tokens EXCEPT ![req[r].token] =
                   MarkUsed([tokens[req[r].token] EXCEPT !.resets = @ + 1])]
  BY Zenon DEF CommitConfirm
<1> QED
  BY <1>2, <1>3, <1>4, <1>5

LEMMA ConfirmKeepsInv ==
  ASSUME LinkInv, NEW r \in Request, CommitConfirm(r)
  PROVE  LinkInv'
<1>1. /\ req' = Staled(r) /\ user' = user
      /\ WritesTokens(r) /\ req[r].op # "idle"
  BY DEF CommitConfirm, Commit, WritesTokens
<1>2. PICK u \in User : u = req[r].target
  BY <1>1 DEF LinkInv, RequestsTyped
<1>3. /\ Len(tokens) \in Nat
      /\ DOMAIN tokens = 1..Len(tokens)
      /\ \A i \in DOMAIN tokens : tokens[i] \in Token
  BY TokenRows DEF LinkInv
<1>4. PICK t \in DOMAIN tokens : t = req[r].token
  BY ConfirmedLink
<1> DEFINE new == [tokens[t] EXCEPT !.resets = 1, !.used = TRUE]
<1>5. /\ new \in Token /\ new.user = tokens[t].user
      /\ new.used /\ new.resets = 1
  BY <1>3 DEF Token
<1>6. tokens' = [tokens EXCEPT ![t] = new] /\ tokens[t].user = u
  BY <1>2, <1>4, ConfirmedLink
<1> HIDE DEF new
<1>7. /\ tokens' \in Seq(Token) /\ Len(tokens') = Len(tokens)
      /\ DOMAIN tokens' = DOMAIN tokens
      /\ \A i \in DOMAIN tokens : tokens'[i] = IF i = t THEN new ELSE tokens[i]
  BY <1>5, <1>6, ExceptSeq DEF LinkInv, TokensTyped
<1>8. UsersTyped' /\ TokensTyped'
  BY <1>1, <1>7 DEF LinkInv, UsersTyped, TokensTyped
<1>9. UsedOnce' /\ UnusedIsNewest'
  BY <1>5, <1>7 DEF LinkInv, UsedOnce, UnusedIsNewest
<1>10. RequestsTyped' /\ FreshIsActive' /\ FreshIsUnused'
  BY <1>1, <1>2, <1>5, <1>6, <1>7, CommitKeepsRequests
<1> QED
  BY <1>8, <1>9, <1>10 DEF LinkInv

(* An account appears: nobody could have relied on it.                     *)
LEMMA NewAccountKeepsFresh ==
  ASSUME LinkInv, NEW u \in User, user[u] = NoAccount,
         \A v \in User \ {u} : user'[v] = user[v],
         tokens' = tokens,
         \A q \in Request :
           \/ req'[q] = req[q]
           \/ req'[q].op \notin {"login", "confirm"}
  PROVE  FreshIsActive' /\ FreshIsUnused'
<1>1. FreshIsActive'
  <2> SUFFICES ASSUME NEW q \in Request, req'[q].op \in {"login", "confirm"},
                      ~req'[q].stale
               PROVE  user'[req'[q].target].status = "active"
    BY DEF FreshIsActive, Active
  <2>1. req'[q] = req[q]
    OBVIOUS
  <2>2. user[req[q].target].status = "active" /\ req[q].target \in User
    BY <2>1 DEF LinkInv, FreshIsActive, Active, RequestsTyped
  <2> QED
    BY <2>1, <2>2 DEF NoAccount
<1>2. FreshIsUnused'
  BY DEF LinkInv, FreshIsUnused
<1> QED
  BY <1>1, <1>2

LEMMA RegisterKeepsInv ==
  ASSUME LinkInv, NEW u \in User, Register(u)
  PROVE  LinkInv'
<1>1. [status |-> "active", role |-> RoleForEmail(u)] \in Row
  BY DEF Row, Account, UserStatus, UserRole, RoleForEmail
<1>2. UsersTyped' /\ (\A v \in User \ {u} : user'[v] = user[v])
  BY <1>1 DEF Register, LinkInv, UsersTyped
<1>3. FreshIsActive' /\ FreshIsUnused'
  BY <1>2, NewAccountKeepsFresh DEF Register
<1>4. TokensTyped' /\ RequestsTyped' /\ UnusedIsNewest' /\ UsedOnce'
  BY DEF Register, LinkInv, TokensTyped, RequestsTyped, UnusedIsNewest, UsedOnce
<1> QED
  BY <1>2, <1>3, <1>4 DEF LinkInv

LEMMA InsertKeepsInv ==
  ASSUME LinkInv, NEW r \in Request, InsertUser(r)
  PROVE  LinkInv'
<1>1. /\ req[r].op = "create" /\ req[r] \in RequestRecord
      /\ tokens' = tokens
      /\ req' = [req EXCEPT ![r].op = "update"]
  BY DEF InsertUser, LinkInv, RequestsTyped
<1>2. PICK u \in User : u = req[r].target
  BY <1>1 DEF LinkInv, RequestsTyped
<1>3. /\ user[u] = NoAccount
      /\ user' = [user EXCEPT ![u] = [req[r].plan EXCEPT !.status = "active"]]
  BY <1>2 DEF InsertUser
<1>4. [req[r].plan EXCEPT !.status = "active"] \in Row
  BY <1>1 DEF RequestRecord, Row, Account, NoAccount, UserStatus, UserRole
<1>5. UsersTyped' /\ (\A v \in User \ {u} : user'[v] = user[v])
  BY <1>3, <1>4 DEF LinkInv, UsersTyped
<1>6. /\ [req[r] EXCEPT !.op = "update"] \in RequestRecord
      /\ \A q \in Request :
           req'[q] = IF q = r THEN [req[r] EXCEPT !.op = "update"] ELSE req[q]
      /\ [req[r] EXCEPT !.op = "update"].op = "update"
      /\ [req[r] EXCEPT !.op = "update"].target = u
  BY <1>1, <1>2 DEF LinkInv, RequestsTyped, RequestRecord, Op
<1>7. RequestsTyped'
  BY <1>1, <1>6 DEF LinkInv, RequestsTyped
<1>8. FreshIsActive' /\ FreshIsUnused'
  BY <1>1, <1>3, <1>5, <1>6, NewAccountKeepsFresh
<1>9. TokensTyped' /\ UnusedIsNewest' /\ UsedOnce'
  BY <1>1 DEF LinkInv, TokensTyped, UnusedIsNewest, UsedOnce
<1> QED
  BY <1>5, <1>7, <1>8, <1>9 DEF LinkInv

LEMMA FailKeepsInv ==
  ASSUME LinkInv, NEW r \in Request, Fail(r)
  PROVE  LinkInv'
<1>1. Idle \in RequestRecord /\ Idle.op = "idle"
  BY DEF Idle, RequestRecord, Row, NoAccount
<1>2. /\ UNCHANGED <<user, tokens>>
      /\ \A q \in Request : req'[q] = IF q = r THEN Idle ELSE req[q]
      /\ req' \in [Request -> RequestRecord]
  BY <1>1 DEF Fail, LinkInv, RequestsTyped
<1>3. RequestsTyped'
  BY <1>1, <1>2 DEF LinkInv, RequestsTyped
<1>4. FreshIsActive' /\ FreshIsUnused'
  BY <1>1, <1>2 DEF LinkInv, FreshIsActive, FreshIsUnused, Active
<1>5. UsersTyped' /\ TokensTyped' /\ UnusedIsNewest' /\ UsedOnce'
  BY <1>2 DEF LinkInv, UsersTyped, TokensTyped, UnusedIsNewest, UsedOnce
<1> QED
  BY <1>3, <1>4, <1>5 DEF LinkInv

LEMMA ExpireKeepsInv ==
  ASSUME LinkInv, NEW i \in DOMAIN tokens, Expire(i)
  PROVE  LinkInv'
<1>1. tokens[i] \in Token
  BY TokenRows DEF LinkInv
<1> DEFINE new == [tokens[i] EXCEPT !.expired = TRUE]
<1>2. /\ new \in Token /\ new.user = tokens[i].user
      /\ new.used = tokens[i].used /\ new.resets = tokens[i].resets
  BY <1>1 DEF Token
<1>3. tokens' = [tokens EXCEPT ![i] = new] /\ UNCHANGED <<user, req>>
  BY DEF Expire
<1> HIDE DEF new
<1>4. /\ tokens' \in Seq(Token) /\ Len(tokens') = Len(tokens)
      /\ DOMAIN tokens' = DOMAIN tokens
      /\ \A k \in DOMAIN tokens : tokens'[k] = IF k = i THEN new ELSE tokens[k]
  BY <1>2, <1>3, ExceptSeq DEF LinkInv, TokensTyped
<1>5. UsersTyped' /\ TokensTyped' /\ RequestsTyped' /\ FreshIsActive'
  BY <1>2, <1>3, <1>4
     DEF LinkInv, UsersTyped, TokensTyped, RequestsTyped, FreshIsActive, Active
<1>6. UnusedIsNewest' /\ UsedOnce'
  BY <1>2, <1>4 DEF LinkInv, UnusedIsNewest, UsedOnce
<1>7. FreshIsUnused'
  BY <1>2, <1>3, <1>4 DEF LinkInv, FreshIsUnused, RequestsTyped
<1> QED
  BY <1>5, <1>6, <1>7 DEF LinkInv

(* Whatever opens a request has read what it relies on.                    *)
Opens(r) ==
  \/ \E u \in User : OpenLogin(r, u) \/ OpenReset(r, u) \/ OpenProfile(r, u)
  \/ \E i \in DOMAIN tokens : OpenConfirm(r, i)
  \/ \E a, u \in User : OpenPassword(r, a, u)
  \/ \E a, u \in User, p \in Account : OpenUpdate(r, a, u, p) \/ OpenCreate(r, a, u, p)

LEMMA OpensKeepInv ==
  ASSUME LinkInv, NEW r \in Request, Opens(r)
  PROVE  LinkInv'
<1>0. /\ NoAccount \in Row /\ Account \subseteq Row
      /\ {"login", "reset", "confirm", "update", "touch", "create"} = Op
  BY DEF Row, Op
<1>1. ASSUME NEW u \in User, OpenLogin(r, u)
      PROVE  LinkInv'
  <2>1. user[u] \in Row /\ user[u].status = "active"
    BY <1>1 DEF LinkInv, UsersTyped, OpenLogin, MayUse, Active
  <2>2. [user[u] EXCEPT !.role = "admin"] \in Row
    BY <2>1 DEF Row, Account, NoAccount, UserStatus, UserRole
  <2> QED
    BY <1>0, <1>1, <2>2, OpenKeepsInv DEF OpenLogin, MayUse
<1>2. ASSUME NEW u \in User, OpenReset(r, u) \/ OpenProfile(r, u)
      PROVE  LinkInv'
  BY <1>0, <1>2, OpenKeepsInv DEF OpenReset, OpenProfile
<1>3. ASSUME NEW i \in DOMAIN tokens, OpenConfirm(r, i)
      PROVE  LinkInv'
  <2>1. tokens[i].user \in User /\ i \in Nat
    BY TokenRows DEF LinkInv, Token
  <2> QED
    BY <1>0, <1>3, <2>1, OpenKeepsInv DEF OpenConfirm, MayUse, Usable
<1>4. ASSUME NEW a \in User, NEW u \in User, OpenPassword(r, a, u)
      PROVE  LinkInv'
  BY <1>0, <1>4, OpenKeepsInv DEF OpenPassword
<1>5. ASSUME NEW a \in User, NEW u \in User, NEW p \in Account,
             OpenUpdate(r, a, u, p) \/ OpenCreate(r, a, u, p)
      PROVE  LinkInv'
  BY <1>0, <1>5, OpenKeepsInv DEF OpenUpdate, OpenCreate
<1> QED
  BY <1>1, <1>2, <1>3, <1>4, <1>5 DEF Opens

LEMMA NextSplits ==
  ASSUME Next
  PROVE  \/ \E u \in User : Register(u)
         \/ \E i \in DOMAIN tokens : Expire(i)
         \/ \E r \in Request :
              \/ Opens(r)
              \/ CommitLogin(r) \/ CommitUpdate(r) \/ CommitTouch(r)
              \/ CommitReset(r)
              \/ CommitConfirm(r)
              \/ InsertUser(r)
              \/ Fail(r)
BY DEF Next, Opens

LEMMA StepKeepsInv ==
  ASSUME LinkInv, [Next]_vars
  PROVE  LinkInv'
<1>1. CASE UNCHANGED vars
  BY <1>1 DEF vars, LinkInv, UsersTyped, TokensTyped, RequestsTyped,
              UnusedIsNewest, UsedOnce, FreshIsActive, FreshIsUnused, Active
<1> QED
  BY <1>1, NextSplits, RegisterKeepsInv, ExpireKeepsInv, OpensKeepInv,
     AccountCommitKeepsInv, ResetKeepsInv, ConfirmKeepsInv, InsertKeepsInv,
     FailKeepsInv

(* A link that is unused is its user's newest, and a request that may      *)
(* still commit finds its account and its link as it read them.            *)
THEOREM LinksSound == Spec => []LinkInv
<1>1. Init => LinkInv
  BY InitInv
<1>2. LinkInv /\ [Next]_vars => LinkInv'
  BY StepKeepsInv
<1> QED
  BY <1>1, <1>2, PTL DEF Spec

(* Every variable keeps its type, and a link sets one password at most.    *)
THEOREM TypeCorrect == Spec => []TypeOK
<1>1. LinkInv => TypeOK
  BY LinkInvImplies
<1> QED
  BY <1>1, LinksSound, PTL

(* Of the links sent to a user one at most opens.                          *)
THEOREM OneLinkOpens == Spec => []OneUsableLink
<1>1. LinkInv => OneUsableLink
  BY LinkInvImplies
<1> QED
  BY <1>1, LinksSound, PTL

-----------------------------------------------------------------------------
(* Only the commit of a confirmation counts a password set.                *)
LEMMA ResetsChange ==
  ASSUME LinkInv, [Next]_vars, NEW i \in DOMAIN tokens,
         tokens'[i].resets # tokens[i].resets
  PROVE  \E r \in Request : CommitConfirm(r) /\ i = req[r].token
<1>1. ~UNCHANGED tokens
  OBVIOUS
<1>2. tokens[i] \in Token
  BY TokenRows DEF LinkInv
<1>3. ASSUME NEW k \in DOMAIN tokens, Expire(k)
      PROVE  FALSE
  <2>1. tokens'[i] \in {tokens[i], [tokens[i] EXCEPT !.expired = TRUE]}
    BY <1>3 DEF Expire, LinkInv, TokensTyped
  <2> QED
    BY <1>2, <2>1 DEF Token
<1>4. ASSUME NEW r \in Request, CommitReset(r)
      PROVE  FALSE
  <2> DEFINE old == Invalidated(req[r].target)
             new == [user |-> req[r].target, used |-> FALSE, expired |-> FALSE,
                     resets |-> 0]
  <2>1. DOMAIN tokens = 1..Len(tokens) /\ Len(tokens) \in Nat
    BY TokenRows DEF LinkInv
  <2>2. old[i] = [tokens[i] EXCEPT !.used = @ \/ tokens[i].user = req[r].target]
    BY DEF Invalidated
  <2>3. old[i].resets = tokens[i].resets
    BY <1>2, <2>2 DEF Token
  <2>4. tokens' = Append(old, new)
    BY <1>4 DEF CommitReset
  <2>5. old = [k \in 1..Len(tokens) |-> old[k]]
    BY <2>1 DEF Invalidated
  <2> HIDE DEF old, new
  <2>6. Append(old, new)[i] = old[i]
    BY <2>1, <2>5
  <2> QED
    BY <2>3, <2>4, <2>6
<1>5. ASSUME NEW r \in Request, CommitConfirm(r)
      PROVE  i = req[r].token
  BY <1>5, ConfirmedLink DEF LinkInv, TokensTyped
<1>6. ASSUME NEW r \in Request, Opens(r)
      PROVE  UNCHANGED tokens
  BY <1>6 DEF Opens, Open, OpenLogin, OpenReset, OpenProfile, OpenConfirm,
              OpenPassword, OpenUpdate, OpenCreate
<1>7. Next
  BY <1>1 DEF vars
<1> QED
  BY <1>1, <1>3, <1>4, <1>5, <1>6, <1>7, NextSplits
     DEF Register, CommitLogin, CommitUpdate, CommitTouch, InsertUser, Fail

(* A password is set only through the user's newest link, and only once,   *)
(* also when a newer link or the first use was committed after the         *)
(* confirmation had read the token.                                        *)
THEOREM LinksWorkOnce == Spec => NewestLinkOnce
<1>1. LinkInv /\ [Next]_vars
        => \A i \in DOMAIN tokens :
             tokens'[i].resets # tokens[i].resets
               => /\ tokens[i].resets = 0
                  /\ \A k \in DOMAIN tokens :
                       tokens[k].user = tokens[i].user => k <= i
  <2> SUFFICES ASSUME LinkInv, [Next]_vars, NEW i \in DOMAIN tokens,
                      tokens'[i].resets # tokens[i].resets
               PROVE  /\ tokens[i].resets = 0
                      /\ \A k \in DOMAIN tokens :
                           tokens[k].user = tokens[i].user => k <= i
    OBVIOUS
  <2>1. PICK r \in Request : CommitConfirm(r) /\ i = req[r].token
    BY ResetsChange
  <2>2. ~tokens[i].used
    BY <2>1, ConfirmedLink
  <2> QED
    BY <2>2 DEF LinkInv, UnusedIsNewest
<1> QED
  BY <1>1, LinksSound, PTL DEF Spec, NewestLinkOnce

(* A reset or a promotion lands on an account that is active then.         *)
THEOREM LandingIsActive == Spec => LandsOnActive
<1>1. LinkInv /\ [Next]_vars
        => \A r \in Request :
             req[r].op \in {"login", "confirm"} /\ req'[r] = Idle
             /\ <<user, tokens>>' # <<user, tokens>>
               => Active(req[r].target)
  <2> SUFFICES ASSUME LinkInv, [Next]_vars, NEW r \in Request,
                      req[r].op \in {"login", "confirm"}, req'[r] = Idle,
                      ~UNCHANGED <<user, tokens>>
               PROVE  Active(req[r].target)
    OBVIOUS
  <2>1. req[r].op # "idle" /\ req'[r].op = "idle" /\ ~UNCHANGED req /\ Next
    BY DEF Idle, vars
  <2>2. ASSUME NEW q \in Request,
               \/ CommitLogin(q) \/ CommitUpdate(q) \/ CommitTouch(q)
               \/ CommitReset(q) \/ CommitConfirm(q)
        PROVE  q = r
    <3>1. req[q].op # "idle" /\ req' = Staled(q)
      BY <2>2 DEF CommitLogin, CommitUpdate, CommitTouch, CommitReset,
                  CommitConfirm, Commit
    <3> QED
      BY <2>1, <3>1, StaledRequests
  <2>3. ASSUME NEW q \in Request, InsertUser(q)
        PROVE  FALSE
    <3>1. r # q /\ req'[r] = req[r]
      BY <2>3 DEF InsertUser, LinkInv, RequestsTyped
    <3> QED
      BY <2>1, <3>1
  <2>4. ASSUME NEW q \in Request, Opens(q)
        PROVE  FALSE
    BY <2>4 DEF Opens, Open, OpenLogin, OpenReset, OpenProfile, OpenConfirm,
                OpenPassword, OpenUpdate, OpenCreate
  <2>5. ~(\E q \in Request : Fail(q))
    BY DEF Fail
  <2>6. ~(\E u \in User : Register(u)) /\ ~(\E i \in DOMAIN tokens : Expire(i))
    BY <2>1 DEF Register, Expire
  <2>7. \/ CommitLogin(r) \/ CommitUpdate(r) \/ CommitTouch(r)
        \/ CommitReset(r) \/ CommitConfirm(r)
    BY <2>1, <2>2, <2>3, <2>4, <2>5, <2>6, NextSplits
  <2>8. ~req[r].stale
    BY <2>7 DEF CommitLogin, CommitUpdate, CommitTouch, CommitReset,
                CommitConfirm, Commit
  <2> QED
    BY <2>8 DEF LinkInv, FreshIsActive
<1> QED
  BY <1>1, LinksSound, PTL DEF Spec, LandsOnActive

-----------------------------------------------------------------------------
(* The last administrator, when requests come one at a time: who wants to  *)
(* save a row that is not an active administrator's leaves another one.    *)
AdminBut(u) == \E a \in User : a # u /\ ActiveAdmin(a)

AdminLeft ==
  \A r \in Request :
    /\ req[r].op = "login" => Unlocked(req[r].plan)
    /\ req[r].op = "update"
         => Unlocked(req[r].plan) \/ AdminBut(req[r].target)
    /\ req[r].op = "create"
         => AdminBut(req[r].target) \/ user[req[r].target] # NoAccount

LEMMA AdminsStay ==
  ASSUME UsersTyped, NEW u \in User, NEW row, user[u] = NoAccount,
         user' = [user EXCEPT ![u] = row]
  PROVE  \A a \in User : ActiveAdmin(a) => a # u /\ ActiveAdmin(a)'
BY DEF UsersTyped, ActiveAdmin, Active, NoAccount

LEMMA OpensLeaveAdmin ==
  ASSUME LinkInv, AdminLeft, NEW r \in Request, Opens(r)
  PROVE  AdminLeft'
<1>1. UNCHANGED user
  BY DEF Opens, Open, OpenLogin, OpenReset, OpenProfile, OpenConfirm,
         OpenPassword, OpenUpdate, OpenCreate
<1>2. \A u : AdminBut(u) <=> AdminBut(u)'
  BY <1>1 DEF AdminBut, ActiveAdmin, Active
<1>3. ASSUME NEW op, NEW u, NEW i, NEW plan, Open(r, op, u, i, plan),
             op = "login" => Unlocked(plan),
             op = "update" => Unlocked(plan) \/ AdminBut(u),
             op = "create" => AdminBut(u) \/ user[u] # NoAccount
      PROVE  AdminLeft'
  <2>1. /\ req' = [req EXCEPT ![r] = [op |-> op, target |-> u, token |-> i,
                                      plan |-> plan, stale |-> FALSE]]
        /\ user' = user
    BY <1>3 DEF Open
  <2> SUFFICES ASSUME NEW q \in Request
               PROVE  /\ req'[q].op = "login" => Unlocked(req'[q].plan)
                      /\ req'[q].op = "update"
                           => Unlocked(req'[q].plan) \/ AdminBut(req'[q].target)
                      /\ req'[q].op = "create"
                           => \/ AdminBut(req'[q].target)
                              \/ user[req'[q].target] # NoAccount
    BY <1>2, <2>1 DEF AdminLeft, Unlocked
  <2>2. CASE q = r
    <3>1. req'[q].op = op /\ req'[q].target = u /\ req'[q].plan = plan
      BY <2>1, <2>2 DEF LinkInv, RequestsTyped
    <3> QED
      BY <1>3, <3>1
  <2>3. CASE q # r
    <3>1. req'[q] = req[q]
      BY <2>1, <2>3 DEF LinkInv, RequestsTyped
    <3> QED
      BY <3>1 DEF AdminLeft
  <2> QED
    BY <2>2, <2>3
<1>4. ASSUME NEW u \in User, OpenLogin(r, u)
      PROVE  AdminLeft'
  <2>1. user[u] \in Row /\ user[u].status = "active"
    BY <1>4 DEF LinkInv, UsersTyped, OpenLogin, MayUse, Active
  <2>2. Unlocked([user[u] EXCEPT !.role = "admin"])
    BY <2>1 DEF Unlocked, Row, Account, NoAccount
  <2> QED
    BY <1>3, <1>4, <2>2 DEF OpenLogin
<1>5. ASSUME NEW a \in User, NEW u \in User, NEW p \in Account,
             OpenUpdate(r, a, u, p)
      PROVE  AdminLeft'
  <2>1. Unlocked(p) \/ AdminBut(u)
    BY <1>5 DEF OpenUpdate, LocksSelf, AdminBut
  <2> QED
    BY <1>3, <1>5, <2>1 DEF OpenUpdate
<1>6. ASSUME NEW a \in User, NEW u \in User, NEW p \in Account,
             OpenCreate(r, a, u, p)
      PROVE  AdminLeft'
  <2>1. AdminBut(u) \/ user[u] # NoAccount
    BY <1>6 DEF OpenCreate, AdminBut, ActiveAdmin, Active, NoAccount
  <2> QED
    BY <1>3, <1>6, <2>1 DEF OpenCreate
<1> QED
  BY <1>3, <1>4, <1>5, <1>6 DEF Opens, OpenReset, OpenProfile, OpenConfirm,
                               OpenPassword

LEMMA StepLeavesAdmin ==
  ASSUME LinkInv, AdminLeft, [Next]_vars, \A q, r \in Request : q = r
  PROVE  /\ AdminLeft'
         /\ (\E u \in User : ActiveAdmin(u)) => (\E u \in User : ActiveAdmin(u))'
<1>a. ASSUME UNCHANGED <<user, req>>
      PROVE  /\ AdminLeft'
             /\ (\E u \in User : ActiveAdmin(u)) => (\E u \in User : ActiveAdmin(u))'
  BY <1>a DEF AdminLeft, AdminBut, ActiveAdmin, Active
<1>b. ASSUME NEW r \in Request, req'[r].op = "idle"
      PROVE  AdminLeft'
  BY <1>b DEF AdminLeft
<1>1. CASE UNCHANGED vars
  BY <1>1, <1>a DEF vars
<1>2. ASSUME NEW u \in User, Register(u)
      PROVE  /\ AdminLeft'
             /\ (\E w \in User : ActiveAdmin(w)) => (\E w \in User : ActiveAdmin(w))'
  <2>1. \A a \in User : ActiveAdmin(a) => ActiveAdmin(a)'
    BY <1>2, AdminsStay DEF Register, LinkInv
  <2>2. \A w : AdminBut(w) => AdminBut(w)'
    BY <2>1 DEF AdminBut
  <2>3. \A w \in User : user[w] # NoAccount => user'[w] # NoAccount
    BY <1>2 DEF Register, LinkInv, UsersTyped, NoAccount
  <2>4. AdminLeft'
    <3> SUFFICES ASSUME NEW r \in Request
                 PROVE  /\ req[r].op = "login" => Unlocked(req[r].plan)
                        /\ req[r].op = "update"
                             => Unlocked(req[r].plan) \/ AdminBut(req[r].target)'
                        /\ req[r].op = "create"
                             => \/ AdminBut(req[r].target)'
                                \/ user'[req[r].target] # NoAccount
      BY <1>2 DEF Register, AdminLeft, Unlocked, AdminBut
    <3>1. req[r].op # "idle" => req[r].target \in User
      BY DEF LinkInv, RequestsTyped
    <3> QED
      BY <1>2, <2>2, <2>3, <3>1 DEF AdminLeft, Register
  <2> QED
    BY <2>1, <2>4
<1>3. ASSUME NEW i \in DOMAIN tokens, Expire(i)
      PROVE  UNCHANGED <<user, req>>
  BY <1>3 DEF Expire
<1>4. ASSUME NEW r \in Request, Opens(r)
      PROVE  /\ AdminLeft'
             /\ (\E u \in User : ActiveAdmin(u)) => (\E u \in User : ActiveAdmin(u))'
  <2>1. UNCHANGED user
    BY <1>4 DEF Opens, Open, OpenLogin, OpenReset, OpenProfile, OpenConfirm,
         OpenPassword, OpenUpdate, OpenCreate
  <2> QED
    BY <1>4, <2>1, OpensLeaveAdmin DEF ActiveAdmin, Active
<1>5. ASSUME NEW r \in Request, Commit(r, req[r].op), req[r].op # "idle"
      PROVE  req'[r].op = "idle"
  BY <1>5, StaledRequests DEF Commit, Idle
<1>6. ASSUME NEW r \in Request,
             CommitTouch(r) \/ CommitReset(r) \/ CommitConfirm(r)
      PROVE  /\ AdminLeft'
             /\ (\E u \in User : ActiveAdmin(u)) => (\E u \in User : ActiveAdmin(u))'
  <2>1. UNCHANGED user /\ req'[r].op = "idle"
    BY <1>5, <1>6 DEF CommitTouch, CommitReset, CommitConfirm, Commit
  <2> QED
    BY <1>b, <2>1 DEF ActiveAdmin, Active
<1>7. ASSUME NEW r \in Request, CommitLogin(r) \/ CommitUpdate(r)
      PROVE  /\ AdminLeft'
             /\ (\E u \in User : ActiveAdmin(u)) => (\E u \in User : ActiveAdmin(u))'
  <2>1. /\ req'[r].op = "idle"
        /\ user' = [user EXCEPT ![req[r].target] = req[r].plan]
        /\ req[r].target \in User
        /\ Unlocked(req[r].plan) \/ AdminBut(req[r].target)
    BY <1>5, <1>7 DEF CommitLogin, CommitUpdate, Commit, AdminLeft, LinkInv,
                      RequestsTyped
  <2>2. CASE Unlocked(req[r].plan)
    <3>1. user'[req[r].target] = req[r].plan
      BY <2>1 DEF LinkInv, UsersTyped
    <3>2. \E u \in User : user'[u].status = "active" /\ user'[u].role = "admin"
      BY <2>1, <2>2, <3>1 DEF Unlocked
    <3> QED
      BY <1>b, <2>1, <3>2 DEF ActiveAdmin, Active
  <2>3. CASE AdminBut(req[r].target)
    <3>1. PICK a \in User : a # req[r].target /\ ActiveAdmin(a)
      BY <2>3 DEF AdminBut
    <3>2. user'[a] = user[a]
      BY <2>1, <3>1 DEF LinkInv, UsersTyped
    <3>3. ActiveAdmin(a)'
      BY <3>1, <3>2 DEF ActiveAdmin, Active
    <3> QED
      BY <1>b, <2>1, <3>3
  <2> QED
    BY <2>1, <2>2, <2>3
<1>8. ASSUME NEW r \in Request, InsertUser(r)
      PROVE  /\ AdminLeft'
             /\ (\E u \in User : ActiveAdmin(u)) => (\E u \in User : ActiveAdmin(u))'
  <2>1. /\ req[r].op = "create" /\ req[r].target \in User
        /\ user[req[r].target] = NoAccount
        /\ req' = [req EXCEPT ![r].op = "update"]
    BY <1>8 DEF InsertUser, LinkInv, RequestsTyped
  <2>2. \A a \in User : ActiveAdmin(a) => ActiveAdmin(a)'
    BY <1>8, <2>1, AdminsStay DEF InsertUser, LinkInv
  <2>3. PICK a \in User : a # req[r].target /\ ActiveAdmin(a)
    BY <2>1 DEF AdminLeft, AdminBut
  <2>4. req'[r].op = "update" /\ req'[r].target = req[r].target
    BY <2>1 DEF LinkInv, RequestsTyped, RequestRecord
  <2>5. AdminLeft'
    BY <2>2, <2>3, <2>4 DEF AdminLeft, AdminBut
  <2> QED
    BY <2>2, <2>5
<1>9. ASSUME NEW r \in Request, Fail(r)
      PROVE  /\ AdminLeft'
             /\ (\E u \in User : ActiveAdmin(u)) => (\E u \in User : ActiveAdmin(u))'
  <2>1. UNCHANGED user /\ req'[r].op = "idle"
    BY <1>9 DEF Fail, Idle, LinkInv, RequestsTyped
  <2> QED
    BY <1>b, <2>1 DEF ActiveAdmin, Active
<1> QED
  BY <1>a, <1>1, <1>2, <1>3, <1>4, <1>6, <1>7, <1>8, <1>9, NextSplits

(* Once there is an active administrator there always is one, as long as   *)
(* no two requests run side by side: only a race can remove the last one.  *)
THEOREM AdminRemainsAlone ==
  ASSUME \A q, r \in Request : q = r
  PROVE  Spec => AdminRemains
<1>1. Init => AdminLeft
  BY DEF Init, AdminLeft, Idle
<1>2. LinkInv /\ AdminLeft /\ [Next]_vars
        => /\ AdminLeft'
           /\ (\E u \in User : ActiveAdmin(u)) => (\E u \in User : ActiveAdmin(u))'
  BY StepLeavesAdmin
<1> QED
  BY <1>1, <1>2, LinksSound, PTL DEF Spec, AdminRemains
=============================================================================
