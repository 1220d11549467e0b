------------------------- MODULE ReadingForwarding -------------------------
(***************************************************************************)
(* What the WSN-to-VW interface promises, whatever its tables, check boxes *)
(* and lists look like: a worker takes a reading and answers it once.  On  *)
(* the way the reading has at most one effect: it registers the node or    *)
(* the sensor that sent it, or it reaches the virtual world, or neither.   *)
(* Only a reading that reached the virtual world is answered "true".       *)
(* Everything else that happens to what is registered is the operator's.   *)
(* WsnToVw is shown to implement this module.                              *)
(***************************************************************************)
CONSTANTS
    Workers,     \* the threads that serve calls
    Senders      \* all that can be registered: nodes and sensors

VARIABLES
    known,       \* the nodes and sensors that are registered
    reading      \* worker -> the reading it holds, or what became of the last

vars == <<known, reading>>

Free == [status : {"free"}, effect : {"none", "registered", "forwarded"},
         answer : {"none", "true", "false", "fault"}]
Held == [status |-> "held", effect |-> "none", answer |-> "none"]
Unused == [status |-> "free", effect |-> "none", answer |-> "none"]

Init ==
    /\ known \in SUBSET Senders
    /\ reading = [w \in Workers |-> Unused]

Take(w) ==
    /\ reading[w].status = "free"
    /\ reading' = [reading EXCEPT ![w] = Held]
    /\ UNCHANGED known

Done(w, what, answer) ==
    /\ reading[w].status = "held"
    /\ reading' = [reading EXCEPT ![w] =
          [status |-> "free", effect |-> what, answer |-> answer]]

Refuse(w) ==
    /\ \E a \in {"false", "fault"} : Done(w, "none", a)
    /\ UNCHANGED known

Register(w) ==
    /\ \E a \in {"false", "fault"} : Done(w, "registered", a)
    /\ \E s \in Senders : known' = known \cup {s}

\* The answer may be lost on the way back: the reading arrived nevertheless.
Forward(w) ==
    /\ \E a \in {"true", "false", "fault"} : Done(w, "forwarded", a)
    /\ UNCHANGED known

Answer(w) == Refuse(w) \/ Register(w) \/ Forward(w)

\* The operator adds a node or a sensor, or removes some.
Operator ==
    /\ known' \in {known \cup {s} : s \in Senders} \cup SUBSET known
    /\ UNCHANGED reading

\* The program ends and starts again: the readings it held are forgotten.
Restart ==
    /\ reading' = [w \in Workers |-> Unused]
    /\ UNCHANGED known

Next ==
    \/ \E w \in Workers : Take(w) \/ Answer(w)
    \/ Operator \/ Restart

Spec == Init /\ [][Next]_vars

\* A reading that is taken is answered.
FairSpec == Spec /\ \A w \in Workers : WF_vars(Answer(w))
=============================================================================
