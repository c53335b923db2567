----------------------------- MODULE Migrations -----------------------------
(***************************************************************************)
(* The upgrades of the database: alembic upgrade head, run by the migrate  *)
(* service that each deployment starts before its api and worker           *)
(* (docker-compose.yml), or by hand (docs/DEPLOYMENT.md).                  *)
(*                                                                         *)
(* A release r is the code whose last revision is the r-th.  Its upgrade   *)
(* reads the version row once, then runs the statements of each later      *)
(* revision and writes the version.  MariaDB commits every DDL statement   *)
(* by itself, so what an upgrade that stops has done stays, and an object  *)
(* that exists cannot be created again.  Several upgrades may overlap:     *)
(* nothing locks them out, and the services of the release before keep     *)
(* running, and writing, meanwhile.                                        *)
(***************************************************************************)
EXTENDS Naturals, Sequences

CONSTANTS
  Revisions, \* the revisions in order, each a sequence of statements
  Upgrade,   \* slots for upgrades that run at the same time
  MaxStarts, \* bound: upgrades started in one behaviour
  MaxFaults  \* bound: upgrades killed and rows written too late

Newest == Len(Revisions)
Release == 1..Newest

(* What the first n statements of revision r add to the schema, and the    *)
(* whole schema of a version.                                              *)
Adds == {"create", "require"}
Added(r, n) ==
  {Revisions[r][i].object : i \in {j \in 1..n : Revisions[r][j].does \in Adds}}
SchemaOf ==
  [v \in 0..Newest |-> UNION {Added(r, Len(Revisions[r])) : r \in 1..v}]

(* Each revision opens by creating something and uses only what is there   *)
(* by then, nothing is created twice, and rows are filled in before their  *)
(* column is required.                                                     *)
RevisionsInOrder ==
  \A r \in Release :
    /\ Len(Revisions[r]) \in Nat \ {0}
    /\ Revisions[r][1].does = "create"
    /\ \A i \in 1..Len(Revisions[r]) :
         /\ Revisions[r][i].needs \subseteq SchemaOf[r - 1] \cup Added(r, i - 1)
         /\ Revisions[r][i].does \in Adds
              => Revisions[r][i].object \notin SchemaOf[r - 1] \cup Added(r, i - 1)
         /\ Revisions[r][i].does = "require"
              => \E j \in 1..(i - 1) : Revisions[r][j].does = "backfill"

ASSUME MigrationsAssumption ==
  /\ Newest \in Nat
  /\ RevisionsInOrder
  /\ MaxStarts \in Nat
  /\ MaxFaults \in Nat

VARIABLES
  schema,  \* the objects of the database
  version, \* the revision that alembic_version names
  keyless, \* whether a row lacks the value that a later statement requires
  serving, \* the release whose api and worker run, 0 if none
  run,     \* the upgrades
  starts,  \* upgrades started so far
  faults   \* upgrades killed, and rows written too late, so far

vars == <<schema, version, keyless, serving, run, starts, faults>>

(* An upgrade to a release: the revision, and the statement, it is at.     *)
Idle == [release |-> 0, rev |-> 0, pc |-> 0]
Place == [release : Release, rev : 1..(Newest + 1), pc : Nat \ {0}]
Running(u) == run[u] # Idle
Working(u) == Running(u) /\ run[u].rev <= run[u].release
AtLast(u) == Working(u) /\ run[u].pc >= Len(Revisions[run[u].rev])
AtEnd(u) == Working(u) /\ run[u].pc > Len(Revisions[run[u].rev])
Current(u) == Revisions[run[u].rev][run[u].pc]

(* What is required of every row, once the statement that requires it ran; *)
(* a release whose schema does not have it writes rows without.            *)
Keys ==
  UNION {{Revisions[r][i].object :
            i \in {j \in 1..Len(Revisions[r]) : Revisions[r][j].does = "require"}} :
         r \in Release}
WritesKeyless(r) == r > 0 /\ Keys \cap SchemaOf[r] = {}

Init ==
  /\ version \in 0..Newest
  /\ schema = SchemaOf[version]
  /\ keyless \in {FALSE, WritesKeyless(version)}
  /\ serving \in {0, version}
  /\ run = [u \in Upgrade |-> Idle]
  /\ starts = 0
  /\ faults = 0

(* A release that does not know the version of the database, one that is   *)
(* rolled back to, is refused before it does anything, and not deployed.   *)
Start(u, r) ==
  /\ ~Running(u)
  /\ starts < MaxStarts
  /\ starts' = starts + 1
  /\ run' = IF version <= r
              THEN [run EXCEPT ![u] = [release |-> r, rev |-> version + 1,
                                       pc |-> 1]]
              ELSE run
  /\ UNCHANGED <<schema, version, keyless, serving, faults>>

Refused(s) ==
  \/ s.does \in Adds /\ s.object \in schema
  \/ ~(s.needs \subseteq schema)
  \/ s.does = "require" /\ keyless

(* The backfill fills in every row that lacks the value.                   *)
NotBackfilled(s) == keyless
StillKeyless(s) == keyless /\ s.does # "backfill"

Execute(u) ==
  /\ Working(u) /\ ~AtEnd(u)
  /\ ~Refused(Current(u))
  /\ schema' = schema \cup {o \in {Current(u).object} : Current(u).does \in Adds}
  /\ keyless' = StillKeyless(Current(u))
  /\ run' = [run EXCEPT ![u].pc = @ + 1]
  /\ UNCHANGED <<version, serving, starts, faults>>

(* The first error ends the upgrade, and the deployment with it.           *)
Fail(u) ==
  /\ Working(u) /\ ~AtEnd(u)
  /\ Refused(Current(u))
  /\ run' = [run EXCEPT ![u] = Idle]
  /\ UNCHANGED <<schema, version, keyless, serving, starts, faults>>

(* The version row is written where it still names the revision before.    *)
MatchesItself(u) == version = run[u].rev
Matches(u) == version = run[u].rev - 1
SkipsOne(u) == run[u].rev + 2
NextRevision(u) == run[u].rev + 1

SetVersion(u) ==
  /\ AtEnd(u)
  /\ IF Matches(u)
       THEN /\ version' = run[u].rev
            /\ run' = [run EXCEPT ![u] = [release |-> @.release,
                                         rev |-> NextRevision(u), pc |-> 1]]
       ELSE /\ run' = [run EXCEPT ![u] = Idle]
            /\ UNCHANGED version
  /\ UNCHANGED <<schema, keyless, serving, starts, faults>>

(* The deployment that waits for it, if any does, replaces the services.   *)
FinishAnyway(u) ==
  /\ Running(u)
  /\ serving' \in {serving, run[u].release}
  /\ run' = [run EXCEPT ![u] = Idle]
  /\ UNCHANGED <<schema, version, keyless, starts, faults>>
Finish(u) ==
  /\ Running(u) /\ ~Working(u)
  /\ serving' \in {serving, run[u].release}
  /\ run' = [run EXCEPT ![u] = Idle]
  /\ UNCHANGED <<schema, version, keyless, starts, faults>>

Kill(u) ==
  /\ Running(u)
  /\ faults < MaxFaults
  /\ faults' = faults + 1
  /\ run' = [run EXCEPT ![u] = Idle]
  /\ UNCHANGED <<schema, version, keyless, serving, starts>>

(* The services of the release before write a row that has no value.       *)
LateRow ==
  /\ WritesKeyless(serving) /\ Keys \cap schema = {}
  /\ ~keyless
  /\ faults < MaxFaults
  /\ faults' = faults + 1
  /\ keyless' = TRUE
  /\ UNCHANGED <<schema, version, serving, run, starts>>

UpgradeStep(u) == Execute(u) \/ Fail(u) \/ SetVersion(u) \/ Finish(u)

Next ==
  \/ \E u \in Upgrade, r \in Release : Start(u, r)
  \/ \E u \in Upgrade : UpgradeStep(u) \/ Kill(u)
  \/ LateRow

(* An upgrade that is not killed runs on.                                  *)
Fairness == \A u \in Upgrade : WF_vars(UpgradeStep(u))

Spec == Init /\ [][Next]_vars /\ Fairness

-----------------------------------------------------------------------------
(* Every upgrade is at a statement of a revision, or behind the last one.  *)
TypeOK ==
  /\ version \in 0..Newest
  /\ serving \in 0..Newest
  /\ keyless \in BOOLEAN
  /\ starts \in 0..MaxStarts
  /\ faults \in 0..MaxFaults
  /\ run \in [Upgrade -> {Idle} \cup Place]
  /\ \A u \in Upgrade : Running(u) =>
       /\ run[u].rev <= run[u].release + 1
       /\ run[u].pc <= (IF Working(u) THEN Len(Revisions[run[u].rev]) ELSE 0) + 1

(* The version that the database names is never ahead of its schema,       *)
(* whatever fails, is killed or overlaps: an upgrade that goes on from it  *)
(* skips no statement.                                                     *)
VersionMeansSchema == SchemaOf[version] \subseteq schema

(* The api and worker that run never miss a table, column or index of      *)
(* their release: a failed upgrade does not deploy them.                   *)
ServesOnItsSchema ==
  /\ serving <= version
  /\ SchemaOf[serving] \subseteq schema

(* An upgrade that stops half way blocks every later one.  It takes a kill *)
(* or a row written between the backfill and the statement that requires   *)
(* the value: upgrades that overlap, whichever wins, leave the schema at a *)
(* version.                                                                *)
NothingHalfDone ==
  (faults = 0 /\ \A u \in Upgrade : ~Running(u)) => schema = SchemaOf[version]

(* While nothing goes wrong, an upgrade that works on the revision after   *)
(* the database's version finishes it, or the one that overtook it does.   *)
OneOfThemFinishes ==
  \A v \in 0..(Newest - 1) :
    (version = v /\ \E u \in Upgrade : Working(u) /\ run[u].rev = v + 1)
      ~> (version > v \/ faults > 0)
=============================================================================
