------------------------------ MODULE MCHashTree ------------------------------
(* HashTree on small sets of paths.  Distinct: the hash orders the paths.      *)
(* Mixed: the last three paths have the hash of the third one, the others a   *)
(* hash of their own.                                                          *)
EXTENDS HashTree

Distinct == [p \in Paths |-> p]
Mixed == [p \in Paths |-> IF p + 3 > Cardinality(Paths) THEN 3 ELSE p]
================================================================================
