-------------------------- MODULE MCStripeBilling --------------------------
(* StripeBilling for TLC: the invocations are interchangeable.             *)
EXTENDS StripeBilling, TLC

InvocationSymmetry == Permutations(Invocations)
===========================================================================
