--------------------------- MODULE MCVwToActuator ---------------------------
(* The clients of the HTTP server are interchangeable: TLC's symmetry set.  *)
EXTENDS VwToActuator, TLC

ClientSymmetry == Permutations(Clients)

=============================================================================
