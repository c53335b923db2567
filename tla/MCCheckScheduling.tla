-------------------------- MODULE MCCheckScheduling --------------------------
(* CheckScheduling with its constants for TLC: every monitor watches the   *)
(* same URL, so that all checks compete for one lock.                      *)
EXTENDS CheckScheduling, TLC

CONSTANTS u1, m1, m2, j1, j2, r1, r2

OneUrl == [m \in Monitor |-> u1]

Symmetry == Permutations(Monitor) \cup Permutations(Job) \cup Permutations(Request)
=============================================================================
