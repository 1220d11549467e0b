---------------------------- MODULE MCPhotoMote ----------------------------
(***************************************************************************)
(* PhotoMote with the queue of AD524XM and three levels of light: the one  *)
(* that counts as sent at the start, and one on each side of 100, below    *)
(* which the threshold for a change is zero.                               *)
(***************************************************************************)
EXTENDS PhotoMote

Levels == {1, 60, 150}
=============================================================================
