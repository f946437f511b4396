-------------------------- MODULE MCSchemaWiden ---------------------------
(* SchemaWiden for TLC: every element but "t" is a column of table "t".    *)
EXTENDS SchemaWiden, TLC

MCTableOf == [e \in Elements |-> "t"]
WriterSymmetry == Permutations(Writers)
===========================================================================
