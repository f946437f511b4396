---------------------------- MODULE MCLlmRouter ----------------------------
(* LlmRouter for TLC: two free providers, a paying ask of two                *)
(* operations beside a free ask of one.                                      *)
EXTENDS LlmRouter, TLC

CONSTANTS p1, p2, r1, r2
Chain2 == <<p1, p2>>
TwoAndOne == (r1 :> 2) @@ (r2 :> 1)
Thrice == r1 :> 3
===========================================================================
