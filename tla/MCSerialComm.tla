---------------------------- MODULE MCSerialComm ----------------------------
(***************************************************************************)
(* SerialComm with buffers that fill, a retry that is also the last one,   *)
(* and a packet of the mote of each type.                                  *)
(***************************************************************************)
EXTENDS SerialComm
=============================================================================
