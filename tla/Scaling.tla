------------------------------- MODULE Scaling -------------------------------
(***************************************************************************)
(* The arithmetic ControlPanel.HTTPPOSTForward applies to a reading before *)
(* it posts it to the virtual world.  A Java double is modelled by a       *)
(* fraction [num, den] with den >= 0; den = 0 stands for what the division *)
(* of a double by zero gives: an infinity with the sign of num, or NaN     *)
(* when num = 0.                                                           *)
(***************************************************************************)
EXTENDS Integers

CONSTANTS
    Null,    \* SQL null
    Half     \* a Java int ranges over -Half .. Half - 1 (2^31 in the code)

ASSUME HalfAssumption == Half \in Nat \ {0}

JavaInt == -Half .. Half - 1

ASSUME NullAssumption == Null \notin Int

\* The min and max columns of one row of the sensors table.
Bound == JavaInt \cup {Null}
Row == [min : Bound, max : Bound]

Uncalibrated == [min |-> Null, max |-> Null]
Calibrated(r) == r.min # Null /\ r.max # Null

\* x - y on Java ints, for the one overflow a subtraction can make.
Minus(x, y) ==
    LET d == x - y
    IN  IF d >= Half THEN d - 2 * Half
        ELSE IF d < -Half THEN d + 2 * Half ELSE d

\* scaledValue / (max - min), as a fraction with a non-negative denominator.
Quotient(v, r) ==
    LET d == Minus(r.max, r.min)
    IN  IF d < 0 THEN [num |-> -v, den |-> -d] ELSE [num |-> v, den |-> d]

\* The two comparisons of the code.  Both are FALSE for NaN, as in Java.
AboveOne(q) == q.num > q.den
BelowZero(q) == q.num < 0
IsNaN(q) == q.num = 0 /\ q.den = 0

ClampForgotten(q) == q

Clamp(q) ==
    IF AboveOne(q) THEN [num |-> 1, den |-> 1]
    ELSE IF BelowZero(q) THEN [num |-> 0, den |-> 1] ELSE q

\* The number that goes into the body of the POST.
Scaled(v, r) ==
    IF Calibrated(r) THEN Clamp(Quotient(v, r)) ELSE [num |-> v, den |-> 1]

InUnit(q) == q.den > 0 /\ 0 <= q.num /\ q.num <= q.den
==============================================================================
