----------------------------- MODULE MCWsnToVw -----------------------------
(***************************************************************************)
(* WsnToVw on small instances.  The .cfg files choose the operator's       *)
(* buttons, the boxes and the faults for the question each run asks.       *)
(***************************************************************************)
EXTENDS WsnToVw

\* Readings on both sides of zero: a 3-bit int is enough for max - min to
\* overflow on them.
SignedValues == -2 .. 2

\* Nothing tells the threads, nor the names of one kind, apart.
Symmetry ==
    Permutations(Workers) \cup Permutations(Ids)
        \cup Permutations(Types) \cup Permutations(Addrs)
=============================================================================
