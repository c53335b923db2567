------------------------------- MODULE Accounts -------------------------------
(***************************************************************************)
(* Accounts, roles and password reset links: AuthService, the user and the *)
(* token repositories, and the administrator's pages for users.            *)
(*                                                                         *)
(* A request reads in one view and commits later, so its guards are        *)
(* evaluated when it opens.  Its commit is refused (error 1020) when       *)
(* another request has meanwhile written a row that it writes: a user, or  *)
(* the reset tokens of a user, which a reset request locks together.  Rows *)
(* that a request only read are not protected.                             *)
(*                                                                         *)
(* A registration that meets an existing address, a login that promotes    *)
(* nobody and the mail of a reset link write nothing and are left out.     *)
(***************************************************************************)
EXTENDS Naturals, Sequences

CONSTANTS
  User,       \* e-mail addresses
  AdminEmail, \* those listed in ADMIN_EMAILS
  Request,    \* slots for concurrent requests
  MaxTokens,  \* bound: reset tokens in one behaviour
  None

ASSUME AccountsAssumption ==
  /\ AdminEmail \subseteq User
  /\ MaxTokens \in Nat
  /\ None \notin User

VARIABLES
  user,   \* users: status ("absent" before the row) and role
  tokens, \* password_reset_tokens, oldest first
  req     \* the open requests

vars == <<user, tokens, req>>

(* "disabled" also stands for deleted.                                     *)
UserStatus == {"active", "disabled"}
UserRole == {"user", "admin"}
Account == [status : UserStatus, role : UserRole]
NoAccount == [status |-> "absent", role |-> "user"]

(* resets counts the passwords set through the token (history).            *)
Token == [user : User, used : BOOLEAN, expired : BOOLEAN, resets : Nat]

(* op: what the request does; target: the account it writes; token: the    *)
(* reset link; plan: the account row it wants; stale: its commit would be  *)
(* refused.                                                                *)
Idle == [op |-> "idle", target |-> None, token |-> 0, plan |-> NoAccount,
         stale |-> FALSE]
Op == {"login", "reset", "confirm", "update", "touch", "create"}

Active(u) == user[u].status = "active"
ActiveAdmin(u) == Active(u) /\ user[u].role = "admin"

(* The role of an account made by registration, or left to a login.        *)
RoleForEmail(u) == IF u \in AdminEmail THEN "admin" ELSE "user"

Init ==
  /\ user = [u \in User |-> NoAccount]
  /\ tokens = << >>
  /\ req = [r \in Request |-> Idle]

-----------------------------------------------------------------------------
Open(r, op, u, i, plan) ==
  /\ req[r].op = "idle"
  /\ req' = [req EXCEPT ![r] = [op |-> op, target |-> u, token |-> i,
                                plan |-> plan, stale |-> FALSE]]
  /\ UNCHANGED <<user, tokens>>

WritesUser(q) == req[q].op \in {"login", "confirm", "update", "touch"}
WritesTokens(q) == req[q].op \in {"reset", "confirm"}

(* The other requests after r commits.  The variant is a database that     *)
(* does not compare rows with the view.                                    *)
StaledNever(r) == [req EXCEPT ![r] = Idle]
Staled(r) ==
  [q \in Request |->
     IF q = r THEN Idle
     ELSE [req[q] EXCEPT !.stale =
             @ \/ /\ req[q].target = req[r].target
                  /\ \/ WritesUser(q) /\ WritesUser(r)
                     \/ WritesTokens(q) /\ WritesTokens(r)]]

Commit(r, op) ==
  /\ req[r].op = op
  /\ ~req[r].stale
  /\ req' = Staled(r)

(* An error, or a refused commit: nothing is written.                      *)
Fail(r) ==
  /\ req[r].op # "idle"
  /\ req' = [req EXCEPT ![r] = Idle]
  /\ UNCHANGED <<user, tokens>>

-----------------------------------------------------------------------------
(* One INSERT and its commit.                                              *)
Register(u) ==
  /\ user[u] = NoAccount
  /\ user' = [user EXCEPT ![u] = [status |-> "active",
                                  role |-> RoleForEmail(u)]]
  /\ UNCHANGED <<tokens, req>>

(* Login, when ADMIN_EMAILS has gained the address.  The variant does not  *)
(* look at the status.                                                     *)
AnyStatus(u) == user[u] # NoAccount
MayUse(u) == Active(u)

OpenLogin(r, u) ==
  /\ MayUse(u)
  /\ RoleForEmail(u) = "admin" /\ user[u].role # "admin"
  /\ Open(r, "login", u, 0, [user[u] EXCEPT !.role = "admin"])

CommitLogin(r) ==
  /\ Commit(r, "login")
  /\ user' = [user EXCEPT ![req[r].target] = req[r].plan]
  /\ UNCHANGED tokens

-----------------------------------------------------------------------------
(* Password reset links.                                                   *)

OpenReset(r, u) ==
  /\ MayUse(u)
  /\ Open(r, "reset", u, 0, NoAccount)

(* invalidate_active_for_user.  The variant leaves the older links alone.  *)
LeftAlone(u) == tokens
Invalidated(u) ==
  [i \in DOMAIN tokens |->
     [tokens[i] EXCEPT !.used = @ \/ tokens[i].user = u]]

CommitReset(r) ==
  /\ Len(tokens) < MaxTokens
  /\ Commit(r, "reset")
  /\ tokens' = Append(Invalidated(req[r].target),
                      [user |-> req[r].target, used |-> FALSE,
                       expired |-> FALSE, resets |-> 0])
  /\ UNCHANGED user

Usable(i) == ~tokens[i].used /\ ~tokens[i].expired

Expire(i) ==
  /\ ~tokens[i].expired
  /\ tokens' = [tokens EXCEPT ![i].expired = TRUE]
  /\ UNCHANGED <<user, req>>

OpenConfirm(r, i) ==
  /\ Usable(i)
  /\ MayUse(tokens[i].user)
  /\ Open(r, "confirm", tokens[i].user, i, NoAccount)

(* The new password and mark_used, in one commit.  The variant forgets to  *)
(* mark the token.                                                         *)
Unmarked(t) == t
MarkUsed(t) == [t EXCEPT !.used = TRUE]

CommitConfirm(r) ==
  /\ Commit(r, "confirm")
  /\ LET t == tokens[req[r].token]
     IN  tokens' = [tokens EXCEPT ![req[r].token] =
                      MarkUsed([t EXCEPT !.resets = @ + 1])]
  /\ UNCHANGED user

-----------------------------------------------------------------------------
(* The administrator's pages and the profile.                              *)

(* A row of an active administrator.                                       *)
Unlocked(p) == p.status = "active" /\ p.role = "admin"

(* Why administrator a may not save row p for account u.                   *)
LocksSelf(a, u, p) == a = u /\ ~Unlocked(p)
IsLastAdmin(u) == \A a \in User : ActiveAdmin(a) => a = u

OpenUpdate(r, a, u, p) ==
  /\ ActiveAdmin(a)
  /\ user[u] # NoAccount
  /\ ~LocksSelf(a, u, p)
  /\ ~(ActiveAdmin(u) /\ ~Unlocked(p) /\ IsLastAdmin(u))
  /\ Open(r, "update", u, 0, p)

(* A row that is as wanted is not written.                                 *)
CommitUpdate(r) ==
  /\ Commit(r, "update")
  /\ user[req[r].target] # req[r].plan
  /\ user' = [user EXCEPT ![req[r].target] = req[r].plan]
  /\ UNCHANGED tokens

(* A new account is committed as active, and then gets its status.         *)
OpenCreate(r, a, u, p) ==
  /\ ActiveAdmin(a)
  /\ Open(r, "create", u, 0, p)

InsertUser(r) ==
  LET q == req[r]
  IN  /\ q.op = "create"
      /\ user[q.target] = NoAccount
      /\ user' = [user EXCEPT ![q.target] = [q.plan EXCEPT !.status = "active"]]
      /\ req' = [req EXCEPT ![r].op = "update"]
      /\ UNCHANGED tokens

(* What else writes an account: its password set by an administrator, and  *)
(* its owner's profile.                                                    *)
OpenPassword(r, a, u) ==
  /\ ActiveAdmin(a)
  /\ user[u] # NoAccount
  /\ Open(r, "touch", u, 0, NoAccount)

OpenProfile(r, u) ==
  /\ Active(u)
  /\ Open(r, "touch", u, 0, NoAccount)

CommitTouch(r) ==
  /\ Commit(r, "touch")
  /\ UNCHANGED <<user, tokens>>

-----------------------------------------------------------------------------
Next ==
  \/ \E u \in User : Register(u)
  \/ \E i \in DOMAIN tokens : Expire(i)
  \/ \E r \in Request :
       \/ \E u \in User : OpenLogin(r, u) \/ OpenReset(r, u) \/ OpenProfile(r, u)
       \/ \E i \in DOMAIN tokens : OpenConfirm(r, i)
       \/ \E a, u \in User : OpenPassword(r, a, u)
       \/ \E a, u \in User, p \in Account :
            OpenUpdate(r, a, u, p) \/ OpenCreate(r, a, u, p)
       \/ CommitLogin(r) \/ CommitReset(r) \/ CommitConfirm(r)
       \/ CommitUpdate(r) \/ InsertUser(r) \/ CommitTouch(r)
       \/ Fail(r)

Spec == Init /\ [][Next]_vars
-----------------------------------------------------------------------------
(* Every variable has its type; a link changes the password at most once   *)
(* (api/v1/auth.py: a one-time reset token), however many requests present *)
(* it at a time.                                                           *)
TypeOK ==
  /\ user \in [User -> Account \cup {NoAccount}]
  /\ Len(tokens) <= MaxTokens
  /\ \A i \in DOMAIN tokens : tokens[i] \in Token /\ tokens[i].resets <= 1
  /\ \A r \in Request :
       \/ req[r] = Idle
       \/ /\ req[r].op \in Op
          /\ req[r].target \in User
          /\ req[r].plan \in Account \cup {NoAccount}
          /\ req[r].op = "confirm" => req[r].token \in DOMAIN tokens

(* Of the links sent to a user one at most opens, the newest, even if two  *)
(* requests for a link ran side by side.                                   *)
OneUsableLink ==
  \A i, k \in DOMAIN tokens :
    Usable(i) /\ Usable(k) /\ tokens[i].user = tokens[k].user => i = k

(* A password is set through the user's newest link, which no request has  *)
(* used before: also when a newer link or the first use was committed      *)
(* after the confirmation had read the token.                              *)
NewestLinkOnce ==
  [][\A i \in DOMAIN tokens :
       tokens'[i].resets # tokens[i].resets
         => /\ tokens[i].resets = 0
            /\ \A k \in DOMAIN tokens :
                 tokens[k].user = tokens[i].user => k <= i]_vars

(* A reset or a promotion at login lands on an account that is active at   *)
(* that moment, also when an administrator disables it meanwhile.          *)
LandsOnActive ==
  [][\A r \in Request :
       req[r].op \in {"login", "confirm"} /\ req'[r] = Idle
       /\ <<user, tokens>>' # <<user, tokens>>
         => Active(req[r].target)]_vars

(* Once there is an active administrator there always is one               *)
(* (ADMIN_ERROR_LABELS: the last active administrator cannot be disabled). *)
AdminRemains ==
  [][(\E u \in User : ActiveAdmin(u)) => (\E u \in User : ActiveAdmin(u))']_vars
=============================================================================
