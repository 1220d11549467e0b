----------------------------- MODULE MCTcpComm -----------------------------
(***************************************************************************)
(* TcpComm with two clients, or three of which one may be given the        *)
(* descriptor of another that is gone.                                     *)
(***************************************************************************)
EXTENDS TcpComm

CONSTANTS c1, c2, c3
=============================================================================
