------------------------------ MODULE MCGates ------------------------------
(* Gates for TLC: one device, one email and one key, each counter at a limit *)
(* that two requests reach.                                                  *)
EXTENDS Gates, TLC

CONSTANTS d1, e1, k1
Limits == [k \in Counters |-> IF k = d1 THEN 1 ELSE 2]
Symmetric == Permutations(Requests)
===========================================================================
