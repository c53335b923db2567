-------------------------- MODULE MigrationsProofs --------------------------
(***************************************************************************)
(* What is proved of Migrations, for every chain of revisions that is in   *)
(* order, any number of upgrades that overlap, any releases and any        *)
(* faults.                                                                 *)
(***************************************************************************)
EXTENDS Migrations, TLAPS

(* The parts of the assumption that the proofs cite.                       *)
LEMMA Lengths ==
  /\ Newest \in Nat
  /\ \A r \in Release : Len(Revisions[r]) \in Nat \ {0}
BY MigrationsAssumption DEF RevisionsInOrder

LEMMA Opening ==
  ASSUME NEW r \in Release
  PROVE  Revisions[r][1].does \in Adds
BY MigrationsAssumption DEF RevisionsInOrder, Adds

LEMMA Ordered ==
  ASSUME NEW r \in Release, NEW i \in 1..Len(Revisions[r])
  PROVE  /\ Revisions[r][i].needs \subseteq SchemaOf[r - 1] \cup Added(r, i - 1)
         /\ Revisions[r][i].does \in Adds
              => Revisions[r][i].object \notin SchemaOf[r - 1] \cup Added(r, i - 1)
         /\ Revisions[r][i].does = "require"
              => \E j \in 1..(i - 1) : Revisions[r][j].does = "backfill"
BY MigrationsAssumption DEF RevisionsInOrder

-----------------------------------------------------------------------------
(* A revision that has run brings the schema to its version.               *)
LEMMA SchemaStep ==
  ASSUME NEW r \in Release
  PROVE  SchemaOf[r] = SchemaOf[r - 1] \cup Added(r, Len(Revisions[r]))
<1>1. r \in 0..Newest /\ r - 1 \in 0..Newest /\ 1..r = (1..(r - 1)) \cup {r}
  BY Lengths DEF Release
<1>2. /\ SchemaOf[r] = UNION {Added(q, Len(Revisions[q])) : q \in 1..r}
      /\ SchemaOf[r - 1] = UNION {Added(q, Len(Revisions[q])) : q \in 1..(r - 1)}
  BY <1>1 DEF SchemaOf
<1> DEFINE A(q) == Added(q, Len(Revisions[q]))
<1>3. UNION {A(q) : q \in (1..(r - 1)) \cup {r}}
        = (UNION {A(q) : q \in 1..(r - 1)}) \cup A(r)
  <2> HIDE DEF A
  <2> QED
    OBVIOUS
<1> QED
  BY <1>1, <1>2, <1>3

(* A later version has all of an earlier one's schema.                     *)
LEMMA SchemaGrows ==
  ASSUME NEW v \in 0..Newest, NEW w \in 0..Newest, v <= w
  PROVE  SchemaOf[v] \subseteq SchemaOf[w]
<1> DEFINE A(q) == Added(q, Len(Revisions[q]))
<1>1. SchemaOf[v] = UNION {A(q) : q \in 1..v} /\ SchemaOf[w] = UNION {A(q) : q \in 1..w}
  BY DEF SchemaOf
<1>2. 1..v \subseteq 1..w
  BY Lengths
<1> HIDE DEF A
<1> QED
  BY <1>1, <1>2

(* What one more statement adds.                                           *)
LEMMA AddedStep ==
  ASSUME NEW r \in Release, NEW i \in 1..Len(Revisions[r])
  PROVE  Added(r, i) = Added(r, i - 1)
           \cup {o \in {Revisions[r][i].object} : Revisions[r][i].does \in Adds}
<1>1. 1..i = (1..(i - 1)) \cup {i}
  BY Lengths
<1> QED
  BY <1>1 DEF Added

LEMMA AddedNothing == ASSUME NEW r PROVE Added(r, 0) = {}
BY DEF Added

-----------------------------------------------------------------------------
(* The inductive invariant: what an upgrade has executed of its revision   *)
(* is there, and so is what its revision builds on.                        *)
Executed(u) == Added(run[u].rev, run[u].pc - 1)

UpgradesOnSchema ==
  \A u \in Upgrade : Running(u) =>
    /\ run[u].rev <= version + 1
    /\ Working(u) => Executed(u) \subseteq schema

SchemaInv == TypeOK /\ VersionMeansSchema /\ ServesOnItsSchema /\ UpgradesOnSchema

(* The steps of the upgrades one by one.                                   *)
LEMMA NextSplits ==
  ASSUME [Next]_vars
  PROVE  \/ UNCHANGED vars
         \/ \E u \in Upgrade, r \in Release : Start(u, r)
         \/ \E u \in Upgrade : Execute(u)
         \/ \E u \in Upgrade : Fail(u)
         \/ \E u \in Upgrade : SetVersion(u)
         \/ \E u \in Upgrade : Finish(u)
         \/ \E u \in Upgrade : Kill(u)
         \/ LateRow
BY DEF Next, UpgradeStep

(* Where an upgrade that works is.                                         *)
LEMMA WorkingPlace ==
  ASSUME TypeOK, NEW u \in Upgrade, Working(u)
  PROVE  /\ run[u] \in Place
         /\ run[u].rev \in Release
         /\ run[u].rev <= run[u].release
         /\ run[u].pc \in 1..(Len(Revisions[run[u].rev]) + 1)
<1>1. run[u] \in Place /\ run[u].rev <= run[u].release
  BY DEF TypeOK, Working, Running
<1>2. run[u].rev \in Release
  BY <1>1, Lengths DEF Place, Release
<1>3. run[u].pc <= Len(Revisions[run[u].rev]) + 1
  BY DEF TypeOK, Working
<1> QED
  BY <1>1, <1>2, <1>3, Lengths DEF Place

(* An upgrade at a statement of its revision.                              *)
LEMMA ExecutingPlace ==
  ASSUME TypeOK, NEW u \in Upgrade, Working(u), ~AtEnd(u)
  PROVE  /\ run[u].rev \in Release
         /\ run[u].pc \in 1..Len(Revisions[run[u].rev])
BY WorkingPlace, Lengths DEF AtEnd

LEMMA InitTyped == Init => TypeOK
<1> SUFFICES ASSUME Init PROVE TypeOK
  OBVIOUS
<1>1. keyless \in BOOLEAN
  BY DEF Init, WritesKeyless
<1>2. version \in 0..Newest /\ serving \in 0..Newest
  BY Lengths DEF Init
<1>3. starts \in 0..MaxStarts /\ faults \in 0..MaxFaults
  BY MigrationsAssumption DEF Init
<1>4. run \in [Upgrade -> {Idle} \cup Place] /\ \A u \in Upgrade : ~Running(u)
  BY DEF Init, Running
<1> QED
  BY <1>1, <1>2, <1>3, <1>4 DEF TypeOK

(* A step that ends an upgrade keeps the type of the others.               *)
LEMMA EndKeepsTyped ==
  ASSUME TypeOK, NEW u \in Upgrade, run' = [run EXCEPT ![u] = Idle],
         UNCHANGED <<version, keyless, starts>>,
         serving' \in 0..Newest, faults' \in 0..MaxFaults
  PROVE  TypeOK'
BY DEF TypeOK, Running, Working

LEMMA NextTyped ==
  ASSUME TypeOK, [Next]_vars
  PROVE  TypeOK'
<1>1. CASE UNCHANGED vars
  BY <1>1 DEF vars, TypeOK, Running, Working
<1>2. ASSUME NEW u \in Upgrade, NEW r \in Release, Start(u, r)
      PROVE  TypeOK'
  <2>1. starts' \in 0..MaxStarts
    BY <1>2, MigrationsAssumption DEF Start, TypeOK
  <2>2. CASE version <= r
    <3> DEFINE p == [release |-> r, rev |-> version + 1, pc |-> 1]
    <3>1. run' = [run EXCEPT ![u] = p]
      BY <1>2, <2>2 DEF Start
    <3>2. p \in Place /\ p.rev <= p.release + 1
      BY <2>2, Lengths DEF TypeOK, Place, Release
    <3>3. p.rev <= p.release => p.pc <= Len(Revisions[p.rev]) + 1
      BY <2>2, Lengths DEF TypeOK, Release
    <3> HIDE DEF p
    <3>4. p.pc <= (IF p # Idle /\ p.rev <= p.release
                     THEN Len(Revisions[p.rev]) ELSE 0) + 1
      BY <3>3 DEF p
    <3> QED
      BY <1>2, <2>1, <3>1, <3>2, <3>4 DEF Start, TypeOK, Running, Working
  <2>3. CASE ~(version <= r)
    BY <1>2, <2>1, <2>3 DEF Start, TypeOK, Running, Working
  <2> QED
    BY <2>2, <2>3
<1>3. ASSUME NEW u \in Upgrade, Execute(u)
      PROVE  TypeOK'
  <2>1. run[u].rev \in Release /\ run[u].pc \in 1..Len(Revisions[run[u].rev])
    BY <1>3, ExecutingPlace DEF Execute
  <2>2. run[u] \in Place /\ run[u].rev <= run[u].release
    BY <1>3, WorkingPlace DEF Execute
  <2> DEFINE p == [run[u] EXCEPT !.pc = run[u].pc + 1]
  <2>3. /\ p \in Place
        /\ p.rev = run[u].rev /\ p.release = run[u].release
        /\ p.pc <= Len(Revisions[p.rev]) + 1
    BY <2>1, <2>2, Lengths DEF Place
  <2>4. run' = [run EXCEPT ![u] = p]
    BY <1>3 DEF Execute, TypeOK
  <2>5. keyless' \in BOOLEAN
    BY <1>3 DEF Execute, StillKeyless
  <2> HIDE DEF p
  <2>6. p # Idle
    BY <2>3 DEF Place, Idle, Release
  <2> QED
    BY <1>3, <2>2, <2>3, <2>4, <2>5, <2>6 DEF Execute, TypeOK, Running, Working
<1>4. ASSUME NEW u \in Upgrade, Fail(u)
      PROVE  TypeOK'
  BY <1>4, EndKeepsTyped DEF Fail, TypeOK
<1>5. ASSUME NEW u \in Upgrade, SetVersion(u)
      PROVE  TypeOK'
  <2>1. /\ run[u] \in Place
        /\ run[u].rev \in Release
        /\ run[u].rev <= run[u].release
    BY <1>5, WorkingPlace DEF SetVersion, AtEnd
  <2>2. CASE Matches(u)
    <3> DEFINE p == [release |-> run[u].release, rev |-> run[u].rev + 1, pc |-> 1]
    <3>1. run' = [run EXCEPT ![u] = p]
      BY <1>5, <2>2 DEF SetVersion, NextRevision, TypeOK
    <3>2. p \in Place /\ p.rev <= p.release + 1 /\ p.pc = 1
      BY <2>1, Lengths DEF Place, Release
    <3>3. p.rev <= p.release => p.rev \in Release
      BY <2>1, Lengths DEF Place, Release
    <3> HIDE DEF p
    <3>4. p.pc <= (IF p # Idle /\ p.rev <= p.release
                     THEN Len(Revisions[p.rev]) ELSE 0) + 1
      BY <3>2, <3>3, Lengths
    <3>5. version' \in 0..Newest
      BY <1>5, <2>1, <2>2, Lengths DEF SetVersion, Release
    <3> QED
      BY <1>5, <3>1, <3>2, <3>4, <3>5 DEF SetVersion, TypeOK, Running, Working
  <2>3. CASE ~Matches(u)
    BY <1>5, <2>3, EndKeepsTyped DEF SetVersion, TypeOK
  <2> QED
    BY <2>2, <2>3
<1>6. ASSUME NEW u \in Upgrade, Finish(u)
      PROVE  TypeOK'
  <2>1. run[u].release \in 0..Newest
    BY <1>6, Lengths DEF Finish, Running, TypeOK, Place, Release
  <2> QED
    BY <1>6, <2>1, EndKeepsTyped DEF Finish, TypeOK
<1>7. ASSUME NEW u \in Upgrade, Kill(u)
      PROVE  TypeOK'
  <2>1. faults' \in 0..MaxFaults
    BY <1>7, MigrationsAssumption DEF Kill, TypeOK
  <2> QED
    BY <1>7, <2>1, EndKeepsTyped DEF Kill, TypeOK
<1>8. CASE LateRow
  BY <1>8, MigrationsAssumption DEF LateRow, TypeOK, Running, Working
<1> QED
  BY <1>1, <1>2, <1>3, <1>4, <1>5, <1>6, <1>7, <1>8, NextSplits

(* Every upgrade is at a statement of a revision, or behind the last one.  *)
THEOREM TypeCorrect == Spec => []TypeOK
BY InitTyped, NextTyped, PTL DEF Spec

-----------------------------------------------------------------------------
(* Nothing of the schema is ever dropped.                                  *)
LEMMA SchemaOnlyGrows ==
  ASSUME [Next]_vars
  PROVE  schema \subseteq schema'
<1>1. CASE UNCHANGED vars
  BY <1>1 DEF vars
<1>2. CASE \E u \in Upgrade : Execute(u)
  BY <1>2 DEF Execute
<1>3. CASE ~(\E u \in Upgrade : Execute(u)) /\ ~(UNCHANGED vars)
  BY <1>3, NextSplits DEF Start, Fail, SetVersion, Finish, Kill, LateRow
<1> QED
  BY <1>1, <1>2, <1>3

(* What a statement adds is in the schema after it.                        *)
LEMMA ExecuteAdds ==
  ASSUME TypeOK, NEW u \in Upgrade, Execute(u)
  PROVE  /\ Added(run[u].rev, run[u].pc)
              = Executed(u) \cup {o \in {Current(u).object} : Current(u).does \in Adds}
         /\ Executed(u) \subseteq schema => schema' = schema \cup Added(run[u].rev, run[u].pc)
         /\ run'[u] # Idle
         /\ run'[u].release = run[u].release
         /\ run'[u].rev = run[u].rev
         /\ run'[u].pc = run[u].pc + 1
         /\ \A w \in Upgrade \ {u} : run'[w] = run[w]
<1>1. run[u].rev \in Release /\ run[u].pc \in 1..Len(Revisions[run[u].rev])
  BY ExecutingPlace DEF Execute
<1>2. Added(run[u].rev, run[u].pc)
        = Executed(u) \cup {o \in {Current(u).object} : Current(u).does \in Adds}
  BY <1>1, AddedStep DEF Executed, Current
<1>3. run[u] \in Place
  BY WorkingPlace DEF Execute
<1>4. /\ run' = [run EXCEPT ![u].pc = @ + 1]
      /\ run \in [Upgrade -> {Idle} \cup Place]
  BY DEF Execute, TypeOK
<1>5. /\ run'[u].release = run[u].release
      /\ run'[u].rev = run[u].rev
      /\ run'[u].pc = run[u].pc + 1
      /\ \A w \in Upgrade \ {u} : run'[w] = run[w]
  BY <1>3, <1>4 DEF Place
<1>6. run'[u] # Idle
  BY <1>1, <1>5 DEF Idle, Release
<1> QED
  BY <1>2, <1>5, <1>6 DEF Execute

LEMMA InitSchema == Init => SchemaInv
<1> SUFFICES ASSUME Init PROVE SchemaInv
  OBVIOUS
<1>1. TypeOK
  BY InitTyped
<1>2. serving \in 0..Newest /\ version \in 0..Newest /\ serving <= version
  BY Lengths DEF Init
<1> QED
  BY <1>1, <1>2, SchemaGrows
     DEF Init, SchemaInv, VersionMeansSchema, ServesOnItsSchema,
         UpgradesOnSchema, Running

(* A step that only ends an upgrade, or changes what no part of the        *)
(* invariant but the type mentions.                                        *)
LEMMA OthersKeepSchemaInv ==
  ASSUME SchemaInv, TypeOK',
         UNCHANGED <<schema, version, serving>>,
         \A w \in Upgrade : run'[w] = run[w] \/ run'[w] = Idle
  PROVE  SchemaInv'
<1>1. VersionMeansSchema' /\ ServesOnItsSchema'
  BY DEF SchemaInv, VersionMeansSchema, ServesOnItsSchema
<1>2. UpgradesOnSchema'
  BY DEF SchemaInv, UpgradesOnSchema, Running, Working, Executed
<1> QED
  BY <1>1, <1>2 DEF SchemaInv

LEMMA NextSchema ==
  ASSUME SchemaInv, [Next]_vars
  PROVE  SchemaInv'
<1>0. TypeOK'
  BY NextTyped DEF SchemaInv
<1>g. schema \subseteq schema'
  BY SchemaOnlyGrows
<1>1. CASE UNCHANGED vars
  BY <1>1 DEF vars, SchemaInv, TypeOK, VersionMeansSchema, ServesOnItsSchema,
              UpgradesOnSchema, Running, Working, Executed
<1>2. ASSUME NEW u \in Upgrade, NEW r \in Release, Start(u, r)
      PROVE  SchemaInv'
  <2>1. VersionMeansSchema' /\ ServesOnItsSchema'
    BY <1>2 DEF Start, SchemaInv, VersionMeansSchema, ServesOnItsSchema
  <2>2. ASSUME NEW w \in Upgrade, Running(w)'
        PROVE  run'[w].rev <= version' + 1 /\ (Working(w)' => Executed(w)' \subseteq schema')
    <3>1. CASE run'[w] = run[w]
      BY <1>2, <2>2, <3>1 DEF Start, SchemaInv, UpgradesOnSchema, Running, Working,
                              Executed
    <3>2. CASE run'[w] # run[w]
      <4>1. run'[w] = [release |-> r, rev |-> version + 1, pc |-> 1]
        BY <1>2, <3>2 DEF Start, SchemaInv, TypeOK
      <4>2. Executed(w)' = {}
        BY <4>1, AddedNothing DEF Executed
      <4>3. version' = version /\ version \in Nat
        BY <1>2, Lengths DEF Start, SchemaInv, TypeOK
      <4> QED
        BY <4>1, <4>2, <4>3
    <3> QED
      BY <3>1, <3>2
  <2> QED
    BY <1>0, <2>1, <2>2 DEF SchemaInv, UpgradesOnSchema
<1>3. ASSUME NEW u \in Upgrade, Execute(u)
      PROVE  SchemaInv'
  <2>1. VersionMeansSchema' /\ ServesOnItsSchema'
    BY <1>3, <1>g DEF Execute, SchemaInv, VersionMeansSchema, ServesOnItsSchema
  <2>2. ASSUME NEW w \in Upgrade, Running(w)'
        PROVE  run'[w].rev <= version' + 1 /\ (Working(w)' => Executed(w)' \subseteq schema')
    <3>0. version' = version
      BY <1>3 DEF Execute
    <3>1. CASE w # u
      BY <1>3, <1>g, <2>2, <3>0, <3>1, ExecuteAdds
         DEF SchemaInv, UpgradesOnSchema, Running, Working, Executed
    <3>2. CASE w = u
      <4>1. Executed(u) \subseteq schema /\ run[u].rev <= version + 1
        BY <1>3 DEF Execute, Working, SchemaInv, UpgradesOnSchema
      <4>2. /\ run'[u].rev = run[u].rev
            /\ run'[u].pc = run[u].pc + 1
            /\ Added(run[u].rev, run[u].pc) \subseteq schema'
        BY <1>3, <4>1, ExecuteAdds DEF SchemaInv
      <4>3. run[u].pc \in Nat
        BY <1>3, ExecutingPlace, Lengths DEF Execute, SchemaInv
      <4>4. Executed(u)' = Added(run[u].rev, run[u].pc)
        BY <4>2, <4>3 DEF Executed
      <4> QED
        BY <3>0, <3>2, <4>1, <4>2, <4>4
    <3> QED
      BY <3>1, <3>2
  <2> QED
    BY <1>0, <2>1, <2>2 DEF SchemaInv, UpgradesOnSchema
<1>4. ASSUME NEW u \in Upgrade, Fail(u)
      PROVE  SchemaInv'
  BY <1>0, <1>4, OthersKeepSchemaInv DEF Fail, SchemaInv, TypeOK
<1>5. ASSUME NEW u \in Upgrade, SetVersion(u)
      PROVE  SchemaInv'
  <2>1. CASE ~Matches(u)
    BY <1>0, <1>5, <2>1, OthersKeepSchemaInv DEF SetVersion, SchemaInv, TypeOK
  <2>2. CASE Matches(u)
    <3>1. /\ run[u] \in Place
          /\ run[u].rev \in Release
          /\ run[u].pc \in 1..(Len(Revisions[run[u].rev]) + 1)
      BY <1>5, WorkingPlace DEF SetVersion, AtEnd, SchemaInv
    <3>2. run[u].pc - 1 = Len(Revisions[run[u].rev])
      BY <1>5, <3>1, Lengths DEF SetVersion, AtEnd
    <3>3. Added(run[u].rev, Len(Revisions[run[u].rev])) \subseteq schema
      BY <1>5, <3>2 DEF SetVersion, AtEnd, Working, SchemaInv, UpgradesOnSchema, Executed
    <3>4. version = run[u].rev - 1 /\ version' = run[u].rev /\ schema' = schema
      BY <1>5, <2>2 DEF SetVersion, Matches
    <3>5. VersionMeansSchema'
      BY <3>1, <3>3, <3>4, SchemaStep DEF SchemaInv, VersionMeansSchema
    <3>6. serving \in Nat /\ version \in Nat /\ version' = version + 1
      BY <3>1, <3>4, Lengths DEF SchemaInv, TypeOK, Release
    <3>7. ServesOnItsSchema'
      BY <1>5, <3>4, <3>6 DEF SetVersion, SchemaInv, ServesOnItsSchema
    <3>8. ASSUME NEW w \in Upgrade, Running(w)'
          PROVE  run'[w].rev <= version' + 1 /\ (Working(w)' => Executed(w)' \subseteq schema')
      <4>1. CASE w = u
        <5>1. run'[u].rev = run[u].rev + 1 /\ run'[u].pc = 1
          BY <1>5, <2>2 DEF SetVersion, NextRevision, SchemaInv, TypeOK
        <5>2. Executed(u)' = {}
          BY <5>1, AddedNothing DEF Executed
        <5> QED
          BY <3>1, <3>4, <4>1, <5>1, <5>2, Lengths DEF Release
      <4>2. CASE w # u
        <5>1. run'[w] = run[w]
          BY <1>5, <2>2, <4>2 DEF SetVersion, SchemaInv, TypeOK
        <5>2. run[w] \in Place
          BY <3>8, <5>1 DEF Running, SchemaInv, TypeOK
        <5>3. run[w].rev <= version + 1 /\ (Working(w) => Executed(w) \subseteq schema)
          BY <3>8, <5>1 DEF Running, SchemaInv, UpgradesOnSchema
        <5>4. run[w].rev <= version' + 1
          BY <3>6, <5>2, <5>3, Lengths DEF Place
        <5> QED
          BY <3>4, <5>1, <5>3, <5>4 DEF Working, Running, Executed
      <4> QED
        BY <4>1, <4>2
    <3> QED
      BY <1>0, <3>5, <3>7, <3>8 DEF SchemaInv, UpgradesOnSchema
  <2> QED
    BY <2>1, <2>2
<1>6. ASSUME NEW u \in Upgrade, Finish(u)
      PROVE  SchemaInv'
  <2>1. /\ run[u].release \in 0..Newest /\ run[u].release <= version
        /\ version \in 0..Newest
    <3>1. run[u] \in Place /\ run[u].rev <= version + 1
      BY <1>6 DEF Finish, Running, SchemaInv, TypeOK, UpgradesOnSchema
    <3>2. ~(run[u].rev <= run[u].release)
      BY <1>6 DEF Finish, Working
    <3> QED
      BY <3>1, <3>2, Lengths DEF Place, Release, SchemaInv, TypeOK
  <2>2. SchemaOf[run[u].release] \subseteq schema
    BY <2>1, SchemaGrows DEF SchemaInv, VersionMeansSchema
  <2>3. VersionMeansSchema' /\ ServesOnItsSchema'
    BY <1>6, <2>1, <2>2 DEF Finish, SchemaInv, VersionMeansSchema, ServesOnItsSchema
  <2>4. UpgradesOnSchema'
    BY <1>6 DEF Finish, SchemaInv, TypeOK, UpgradesOnSchema, Running, Working, Executed
  <2> QED
    BY <1>0, <2>3, <2>4 DEF SchemaInv
<1>7. ASSUME NEW u \in Upgrade, Kill(u)
      PROVE  SchemaInv'
  BY <1>0, <1>7, OthersKeepSchemaInv DEF Kill, SchemaInv, TypeOK
<1>8. CASE LateRow
  BY <1>0, <1>8 DEF LateRow, SchemaInv, VersionMeansSchema, ServesOnItsSchema,
                    UpgradesOnSchema, Running, Working, Executed
<1> QED
  BY <1>1, <1>2, <1>3, <1>4, <1>5, <1>6, <1>7, <1>8, NextSplits

LEMMA SchemaInvariant == Spec => []SchemaInv
BY InitSchema, NextSchema, PTL DEF Spec

(* The version that the database names is never ahead of its schema.       *)
THEOREM VersionSound == Spec => []VersionMeansSchema
<1>1. SchemaInv => VersionMeansSchema
  BY DEF SchemaInv
<1> QED
  BY <1>1, SchemaInvariant, PTL

(* The services that run never miss a part of their release's schema.      *)
THEOREM ServedSchema == Spec => []ServesOnItsSchema
<1>1. SchemaInv => ServesOnItsSchema
  BY DEF SchemaInv
<1> QED
  BY <1>1, SchemaInvariant, PTL

-----------------------------------------------------------------------------
(* An upgrade that has executed a statement of its revision.  While        *)
(* nothing goes wrong there is one at most, at the revision after the      *)
(* version; the rest of the schema is the version's, and after the         *)
(* backfill no row lacks its value.                                        *)
Started(u) == Working(u) /\ run[u].pc > 1
Backfilled(u) ==
  \E j \in 1..(run[u].pc - 1) : Revisions[run[u].rev][j].does = "backfill"

StartedAtVersion ==
  \A u \in Upgrade : Started(u) =>
    /\ run[u].rev = version + 1
    /\ Backfilled(u) => ~keyless
OneStarted == \A u, w \in Upgrade : Started(u) /\ Started(w) => u = w
NothingElse ==
  \A o \in schema :
    o \in SchemaOf[version] \/ \E u \in Upgrade : Started(u) /\ o \in Executed(u)

OnePartAtWork == StartedAtVersion /\ OneStarted /\ NothingElse
CleanInv == SchemaInv /\ (faults = 0 => OnePartAtWork)

LEMMA AddedGrows ==
  ASSUME NEW r, NEW i \in Nat, NEW j \in Nat, i <= j
  PROVE  Added(r, i) \subseteq Added(r, j)
<1>1. 1..i \subseteq 1..j
  OBVIOUS
<1> QED
  BY <1>1 DEF Added

(* The first statement of a revision succeeds only where nobody has begun  *)
(* the revision, and no later one has run.                                 *)
LEMMA FirstIsAlone ==
  ASSUME SchemaInv, OnePartAtWork, NEW u \in Upgrade, Execute(u), run[u].pc = 1
  PROVE  /\ run[u].rev = version + 1
         /\ \A w \in Upgrade : ~Started(w)
<1>1. run[u].rev \in Release /\ 1 \in 1..Len(Revisions[run[u].rev])
  BY ExecutingPlace DEF Execute, SchemaInv
<1>2. /\ Current(u) = Revisions[run[u].rev][1]
      /\ Current(u).does \in Adds
      /\ Current(u).object \notin schema
  BY <1>1, Opening DEF Current, Execute, Refused
<1>3. Current(u).object \in Added(run[u].rev, 1)
  BY <1>2 DEF Added
<1>4. run[u].rev <= version + 1 /\ version \in 0..Newest
  BY DEF Execute, Working, SchemaInv, UpgradesOnSchema, TypeOK
<1>5. ~(run[u].rev <= version)
  <2> SUFFICES ASSUME run[u].rev <= version PROVE FALSE
    OBVIOUS
  <2>1. Added(run[u].rev, 1) \subseteq Added(run[u].rev, Len(Revisions[run[u].rev]))
    BY <1>1, AddedGrows, Lengths
  <2>2. Added(run[u].rev, 1) \subseteq SchemaOf[run[u].rev]
    BY <1>1, <2>1, SchemaStep
  <2>3. SchemaOf[run[u].rev] \subseteq SchemaOf[version]
    BY <1>1, <1>4, SchemaGrows, Lengths DEF Release
  <2> QED
    BY <1>2, <1>3, <2>2, <2>3 DEF SchemaInv, VersionMeansSchema
<1>6. run[u].rev = version + 1
  BY <1>1, <1>4, <1>5, Lengths DEF Release
<1>7. ASSUME NEW w \in Upgrade, Started(w)
      PROVE  FALSE
  <2>1. run[w].rev = run[u].rev
    BY <1>6, <1>7 DEF OnePartAtWork, StartedAtVersion
  <2>2. run[w].pc - 1 \in Nat /\ 1 <= run[w].pc - 1
    BY <1>7, WorkingPlace, Lengths DEF Started, SchemaInv
  <2>3. Added(run[u].rev, 1) \subseteq Executed(w)
    BY <2>1, <2>2, AddedGrows DEF Executed
  <2>4. Executed(w) \subseteq schema
    BY <1>7 DEF Started, Working, SchemaInv, UpgradesOnSchema
  <2> QED
    BY <1>2, <1>3, <2>3, <2>4
<1> QED
  BY <1>6, <1>7

(* An upgrade that has begun its revision is never refused.                *)
LEMMA StartedIsNotRefused ==
  ASSUME SchemaInv, OnePartAtWork, NEW u \in Upgrade, Started(u), ~AtEnd(u)
  PROVE  ~Refused(Current(u))
<1>1. run[u].rev \in Release /\ run[u].pc \in 1..Len(Revisions[run[u].rev])
  BY ExecutingPlace DEF Started, SchemaInv
<1>2. run[u].rev = version + 1 /\ (Backfilled(u) => ~keyless)
  BY DEF OnePartAtWork, StartedAtVersion
<1>3. version = run[u].rev - 1
  BY <1>2, Lengths DEF SchemaInv, TypeOK
<1>4. /\ Current(u).needs \subseteq SchemaOf[version] \cup Executed(u)
      /\ Current(u).does \in Adds
           => Current(u).object \notin SchemaOf[version] \cup Executed(u)
      /\ Current(u).does = "require" => Backfilled(u)
  BY <1>1, <1>3, Ordered DEF Current, Executed, Backfilled
<1>5. SchemaOf[version] \subseteq schema /\ Executed(u) \subseteq schema
  BY DEF SchemaInv, VersionMeansSchema, UpgradesOnSchema, Started, Working
<1>6. \A o \in schema : o \in SchemaOf[version] \cup Executed(u)
  BY DEF OnePartAtWork, OneStarted, NothingElse
<1> QED
  BY <1>2, <1>4, <1>5, <1>6 DEF Refused

(* A step that moves no upgrade that has begun its revision.               *)
LEMMA OthersKeepPart ==
  ASSUME OnePartAtWork, UNCHANGED <<schema, version, keyless>>,
         \A w \in Upgrade : Started(w) => run'[w] = run[w],
         \A w \in Upgrade : Started(w)' => Started(w)
  PROVE  OnePartAtWork'
<1>1. StartedAtVersion'
  BY DEF OnePartAtWork, StartedAtVersion, Backfilled
<1>2. OneStarted'
  BY DEF OnePartAtWork, OneStarted
<1>3. NothingElse'
  BY DEF OnePartAtWork, NothingElse, Started, Working, Running, Executed
<1> QED
  BY <1>1, <1>2, <1>3 DEF OnePartAtWork

LEMMA NextPart ==
  ASSUME SchemaInv, OnePartAtWork, [Next]_vars, faults = 0, faults' = 0
  PROVE  OnePartAtWork'
<1>1. CASE UNCHANGED vars
  BY <1>1, OthersKeepPart DEF vars, Started, Working, Running
<1>2. ASSUME NEW u \in Upgrade, NEW r \in Release, Start(u, r)
      PROVE  OnePartAtWork'
  <2>1. \A w \in Upgrade : Started(w) => run'[w] = run[w]
    BY <1>2 DEF Start, Started, Working, SchemaInv, TypeOK
  <2>2. \A w \in Upgrade : run'[w] = run[w] \/ run'[w].pc = 1
    BY <1>2 DEF Start, SchemaInv, TypeOK
  <2>3. \A w \in Upgrade : Started(w)' => Started(w)
    BY <2>2 DEF Started, Working, Running
  <2> QED
    BY <1>2, <2>1, <2>3, OthersKeepPart DEF Start
<1>3. ASSUME NEW u \in Upgrade, Execute(u)
      PROVE  OnePartAtWork'
  <2>1. /\ run[u].rev \in Release
        /\ run[u].pc \in 1..Len(Revisions[run[u].rev])
    BY <1>3, ExecutingPlace DEF Execute, SchemaInv
  <2>2. run[u].pc \in Nat
    BY <2>1, Lengths
  <2>3. run[u].rev = version + 1 /\ \A w \in Upgrade \ {u} : ~Started(w)
    <3>1. CASE run[u].pc = 1
      BY <1>3, <3>1, FirstIsAlone
    <3>2. CASE run[u].pc # 1
      <4>1. Started(u)
        BY <1>3, <2>1, <3>2, Lengths DEF Execute, Started
      <4> QED
        BY <4>1 DEF OnePartAtWork, StartedAtVersion, OneStarted
    <3> QED
      BY <3>1, <3>2
  <2>4. /\ run'[u].rev = run[u].rev
        /\ run'[u].pc = run[u].pc + 1
        /\ \A w \in Upgrade \ {u} : run'[w] = run[w]
    BY <1>3, ExecuteAdds DEF SchemaInv
  <2>5. \A w \in Upgrade \ {u} : ~Started(w)'
    BY <2>3, <2>4 DEF Started, Working, Running
  <2>6. version' = version /\ (keyless' => keyless /\ Current(u).does # "backfill")
    BY <1>3 DEF Execute, StillKeyless
  <2>7. Backfilled(u)' => ~keyless'
    <3> SUFFICES ASSUME NEW j \in 1..run[u].pc,
                        Revisions[run[u].rev][j].does = "backfill"
                 PROVE  ~keyless'
      BY <2>2, <2>4 DEF Backfilled
    <3>1. CASE j = run[u].pc
      BY <2>6, <3>1 DEF Current
    <3>2. CASE j # run[u].pc
      <4>1. j \in 1..(run[u].pc - 1) /\ run[u].pc > 1
        BY <2>2, <3>2
      <4>2. Started(u) /\ Backfilled(u)
        BY <1>3, <4>1 DEF Execute, Started, Backfilled
      <4> QED
        BY <2>6, <4>2 DEF OnePartAtWork, StartedAtVersion
    <3> QED
      BY <3>1, <3>2
  <2>8. Started(u)'
    <3>1. run'[u].release = run[u].release /\ run'[u] # Idle
      BY <1>3, ExecuteAdds DEF SchemaInv
    <3>2. run[u].rev <= run[u].release
      BY <1>3 DEF Execute, Working
    <3> QED
      BY <2>1, <2>2, <2>4, <3>1, <3>2 DEF Started, Working, Running
  <2>9. NothingElse'
    <3>1. /\ Executed(u)' = Added(run[u].rev, run[u].pc)
          /\ Executed(u) \subseteq schema
      BY <1>3, <2>2, <2>4 DEF Executed, Execute, Working, SchemaInv, UpgradesOnSchema
    <3>2. /\ schema' = schema \cup Executed(u)'
          /\ Executed(u) \subseteq Executed(u)'
      BY <1>3, <3>1, ExecuteAdds DEF SchemaInv
    <3>3. \A o \in schema : o \in SchemaOf[version] \/ o \in Executed(u)
      BY <2>3 DEF OnePartAtWork, NothingElse
    <3>4. ASSUME NEW o \in schema'
          PROVE  o \in SchemaOf[version'] \/ o \in Executed(u)'
      BY <2>6, <3>2, <3>3, <3>4
    <3> QED
      BY <2>8, <3>4 DEF NothingElse
  <2>10. StartedAtVersion' /\ OneStarted'
    BY <2>3, <2>4, <2>5, <2>6, <2>7 DEF StartedAtVersion, OneStarted
  <2> QED
    BY <2>9, <2>10 DEF OnePartAtWork
<1>4. ASSUME NEW u \in Upgrade, Fail(u)
      PROVE  OnePartAtWork'
  <2>1. ~Started(u)
    BY <1>4, StartedIsNotRefused DEF Fail
  <2> QED
    BY <1>4, <2>1, OthersKeepPart
       DEF Fail, Started, Working, Running, SchemaInv, TypeOK
<1>5. ASSUME NEW u \in Upgrade, SetVersion(u)
      PROVE  OnePartAtWork'
  <2>1. /\ run[u].rev \in Release
        /\ run[u].pc \in 1..(Len(Revisions[run[u].rev]) + 1)
    BY <1>5, WorkingPlace DEF SetVersion, AtEnd, SchemaInv
  <2>2. run[u].pc - 1 = Len(Revisions[run[u].rev]) /\ run[u].pc > 1
    BY <1>5, <2>1, Lengths DEF SetVersion, AtEnd
  <2>3. Started(u)
    BY <1>5, <2>2 DEF SetVersion, AtEnd, Started
  <2>4. version = run[u].rev - 1
    BY <2>3, Lengths DEF OnePartAtWork, StartedAtVersion, SchemaInv, TypeOK
  <2>5. /\ version' = run[u].rev /\ schema' = schema
        /\ run'[u].pc = 1
        /\ \A w \in Upgrade \ {u} : run'[w] = run[w]
    BY <1>5, <2>4 DEF SetVersion, Matches, SchemaInv, TypeOK
  <2>6. \A w \in Upgrade : ~Started(w)'
    BY <2>3, <2>5 DEF OnePartAtWork, OneStarted, Started, Working, Running
  <2>7. SchemaOf[version'] = SchemaOf[version] \cup Executed(u)
    BY <2>1, <2>2, <2>4, <2>5, SchemaStep DEF Executed
  <2>8. NothingElse'
    BY <2>3, <2>5, <2>7 DEF OnePartAtWork, OneStarted, NothingElse
  <2> QED
    BY <2>6, <2>8 DEF OnePartAtWork, StartedAtVersion, OneStarted
<1>6. ASSUME NEW u \in Upgrade, Finish(u)
      PROVE  OnePartAtWork'
  BY <1>6, OthersKeepPart DEF Finish, Started, Working, Running, SchemaInv, TypeOK
<1>7. ASSUME NEW u \in Upgrade, Kill(u)
      PROVE  FALSE
  BY <1>7 DEF Kill
<1>8. CASE LateRow
  BY <1>8 DEF LateRow
<1> QED
  BY <1>1, <1>2, <1>3, <1>4, <1>5, <1>6, <1>7, <1>8, NextSplits

(* However many upgrades overlap, and to whichever releases, what they     *)
(* leave is the schema of a version, unless one is killed or a row is      *)
(* written too late.                                                       *)
THEOREM OverlapIsHarmless == Spec => []NothingHalfDone
<1>1. Init => CleanInv
  <2> SUFFICES ASSUME Init PROVE OnePartAtWork
    BY InitSchema DEF CleanInv
  <2>1. \A u \in Upgrade : ~Started(u)
    BY DEF Init, Started, Working, Running
  <2> QED
    BY <2>1 DEF Init, OnePartAtWork, StartedAtVersion, OneStarted, NothingElse
<1>2. CleanInv /\ [Next]_vars => CleanInv'
  <2> SUFFICES ASSUME CleanInv, [Next]_vars PROVE CleanInv'
    OBVIOUS
  <2>1. faults' = 0 => faults = 0
    <3>1. faults \in Nat
      BY MigrationsAssumption DEF CleanInv, SchemaInv, TypeOK
    <3>2. faults' = faults \/ faults' = faults + 1
      BY NextSplits
         DEF vars, Start, Execute, Fail, SetVersion, Finish, Kill, LateRow
    <3> QED
      BY <3>1, <3>2
  <2> QED
    BY <2>1, NextSchema, NextPart DEF CleanInv
<1>3. CleanInv => NothingHalfDone
  BY DEF CleanInv, SchemaInv, VersionMeansSchema, OnePartAtWork, NothingElse,
         Started, Working, NothingHalfDone
<1> QED
  BY <1>1, <1>2, <1>3, PTL DEF Spec
=============================================================================
