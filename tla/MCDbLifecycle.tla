-------------------------- MODULE MCDbLifecycle ---------------------------
(* DbLifecycle for TLC.                                                    *)
EXTENDS DbLifecycle, TLC

Symmetric == Permutations(Jobs) \cup Permutations(Ids) \cup Permutations(Users)
===========================================================================
