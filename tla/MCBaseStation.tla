--------------------------- MODULE MCBaseStation ---------------------------
(***************************************************************************)
(* BaseStation with queues short enough to be full.                        *)
(***************************************************************************)
EXTENDS BaseStation
=============================================================================
