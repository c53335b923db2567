------------------------------- MODULE UrlLock -------------------------------
(***************************************************************************)
(* What a check job may rely on from the URL lock: a job works on a URL    *)
(* only while it owns the lock, and the lock is given only when it is free *)
(* and nobody works on the URL.  It says nothing of tokens, of expiry, of  *)
(* deadlines or of crashes, through which the lock may be lost only after  *)
(* the work.                                                               *)
(***************************************************************************)
CONSTANTS Url, Job, NoJob

VARIABLES
  owner,    \* the job that has the lock of a URL, or NoJob
  working   \* the jobs that may still act on a URL

vars == <<owner, working>>

Init ==
  /\ owner = [u \in Url |-> NoJob]
  /\ working = [u \in Url |-> {}]

Take(u, j) ==
  /\ owner[u] = NoJob
  /\ working[u] = {}
  /\ owner' = [owner EXCEPT ![u] = j]
  /\ working' = [working EXCEPT ![u] = {j}]

(* Work ends, or locks of URLs where nobody works any more are let go: of  *)
(* many URLs in one step if a worker dies or keys expire together.         *)
LetGo ==
  /\ owner' \in [Url -> Job \cup {NoJob}]
  /\ working' \in [Url -> SUBSET Job]
  /\ \A u \in Url :
       /\ working'[u] \subseteq working[u]
       /\ owner'[u] # owner[u] => owner'[u] = NoJob /\ working'[u] = {}

Next == LetGo \/ \E u \in Url, j \in Job : Take(u, j)

Spec == Init /\ [][Next]_vars
=============================================================================
