---------------------------- MODULE MCPriceCheck -----------------------------
(* Small instances of PriceCheck.                                          *)
EXTENDS PriceCheck, TLC

CONSTANTS m1, m2, s1, c1, c2

(* Every monitor has the same product source.                              *)
OneSource == [m \in Monitor |-> s1]

(* Pages for questions about prices.                                       *)
Priced ==
  {p \in Shown : p.currency # None /\ p.price # None}
  \cup {p \in Failed : p.error # "provider_blocked"}

(* Pages for questions about currencies.                                   *)
AnyCurrency ==
  {p \in Shown : p.price # None \/ p.currency # None}
  \cup {p \in Failed : p.error = "provider_blocked"}

Symmetry == Permutations(Monitor) \cup Permutations(Check)
=============================================================================
