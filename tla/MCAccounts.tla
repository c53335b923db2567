----------------------------- MODULE MCAccounts ------------------------------
(* Small instances of Accounts.                                            *)
EXTENDS Accounts, TLC

CONSTANTS u1, u2, r1, r2

Symmetry == Permutations(Request)
=============================================================================
