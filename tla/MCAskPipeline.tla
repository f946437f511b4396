-------------------------- MODULE MCAskPipeline ---------------------------
(* AskPipeline for TLC.                                                    *)
EXTENDS AskPipeline, TLC

AskSymmetry == Permutations(Hops) \cup Permutations(Tenants) \cup Permutations(Writes)
===========================================================================
