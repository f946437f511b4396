-------------------------- MODULE MCPremiumMeter --------------------------
(* PremiumMeter for TLC: an allowance small enough to run out.             *)
EXTENDS PremiumMeter, TLC

MCAllowance == [t \in Tiers |-> IF t = "hobby" THEN 1 ELSE 3]
MeterSymmetry == Permutations(Dispatches) \cup Permutations(Subscriptions)
===========================================================================
