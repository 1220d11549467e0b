------------------------- MODULE MCOperatorSettings -------------------------
(* OperatorSettings on small instances. *)
EXTENDS OperatorSettings

Symmetry == Permutations(Workers) \cup Permutations(Ids)
=============================================================================
