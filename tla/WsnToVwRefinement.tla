------------------------- MODULE WsnToVwRefinement -------------------------
(***************************************************************************)
(* The WSN-to-VW interface implements ReadingForwarding, for every value   *)
(* of its constants: its initial states are initial states there, and each *)
(* of its steps, seen through Registrations and ReadingOf, is a step there *)
(* or none.                                                                *)
(***************************************************************************)
EXTENDS WsnToVwSafety

Senders == NodeNames \cup (NodeNames \X Types)
Reading == [w \in Workers |-> ReadingOf(call[w])]

-----------------------------------------------------------------------------
(* What a statement does to what is registered *)

\* Same rows, or at least as many nodes and sensors with rows as before.
LEMMA RegistrationsDependOnRows ==
    ASSUME \A i \in Ids : nodes'[i] = <<>> <=> nodes[i] = <<>>,
           \A d \in NodeNames \X Types : sensors'[d] = <<>> <=> sensors[d] = <<>>
    PROVE  Registrations' = Registrations
BY DEF Registrations

LEMMA OneMoreNode ==
    ASSUME NEW i \in Ids, nodes'[i] # <<>>, sensors' = sensors,
           \A j \in Ids \ {i} : nodes'[j] = nodes[j]
    PROVE  \E s \in Senders : Registrations' = Registrations \cup {s}
<1>1. i \in Senders
    BY DEF Senders, NodeNames
<1>2. Registrations' = Registrations \cup {i}
    BY DEF Registrations
<1> QED BY <1>1, <1>2

LEMMA OneMoreSensor ==
    ASSUME NEW d \in NodeNames \X Types, sensors'[d] # <<>>, nodes' = nodes,
           \A e \in (NodeNames \X Types) \ {d} : sensors'[e] = sensors[e]
    PROVE  \E s \in Senders : Registrations' = Registrations \cup {s}
<1>1. d \in Senders
    BY DEF Senders
<1>2. Registrations' = Registrations \cup {d}
    BY DEF Registrations
<1> QED BY <1>1, <1>2

LEMMA Fewer ==
    ASSUME \A i \in Ids : nodes'[i] \in {nodes[i], <<>>},
           \A d \in NodeNames \X Types : sensors'[d] \in {sensors[d], <<>>}
    PROVE  Registrations' \subseteq Registrations
BY DEF Registrations

\* An UPDATE of sensor rows registers nothing and removes nothing.
LEMMA UpdateRegistersNothing ==
    ASSUME TypeOK, TypeOK', UNCHANGED nodes,
           NEW i \in NodeNames, NEW t \in Types, NEW row(_),
           Update(i, t, row)
    PROVE  Registrations' = Registrations
<1>1. sensors \in [NodeNames \X Types -> Seq(Row)]
      /\ sensors' \in [NodeNames \X Types -> Seq(Row)]
    BY DEF TypeOK, TablesOK
<1>2. <<i, t>> \in NodeNames \X Types
    OBVIOUS
<1>3. sensors[<<i, t>>] \in Seq(Row)
    BY <1>1, <1>2
<1>4. /\ DOMAIN sensors[<<i, t>>] = 1 .. Len(sensors[<<i, t>>])
      /\ sensors'[<<i, t>>] =
             [k \in 1 .. Len(sensors[<<i, t>>]) |-> row(sensors[<<i, t>>][k])]
      /\ \A d \in NodeNames \X Types : d # <<i, t>> => sensors'[d] = sensors[d]
    BY <1>1, <1>2, <1>3, LenProperties DEF Update
<1>5. DOMAIN sensors'[<<i, t>>] = DOMAIN sensors[<<i, t>>]
    BY <1>4
<1>6. sensors'[<<i, t>>] = <<>> <=> sensors[<<i, t>>] = <<>>
    BY <1>1, <1>2, <1>5, SameDomainSameRows
<1>7. \A d \in NodeNames \X Types : sensors'[d] = <<>> <=> sensors[d] = <<>>
    BY <1>4, <1>6
<1> QED BY <1>7, RegistrationsDependOnRows

-----------------------------------------------------------------------------
(* What a step does to a call's reading *)

LEMMA GoesOn ==
    ASSUME TypeOK, TypeOK', NEW w \in Workers, KeepsOutcome(w),
           call[w].pc # "idle",
           \A u \in Workers \ {w} : call'[u] = call[u]
    PROVE  Reading' = Reading
<1>1. call'[w].pc # "idle"
    BY DEF KeepsOutcome, CallSteps, DbSteps, LocalSteps
<1>2. ReadingOf(call'[w]) = ReadingOf(call[w])
    BY <1>1 DEF KeepsOutcome, ReadingOf, EffectOf
<1>3. \A u \in Workers : ReadingOf(call'[u]) = ReadingOf(call[u])
    BY <1>2
<1>4. Reading' = [u \in Workers |-> ReadingOf(call'[u])]
    BY DEF Reading
<1> QED BY <1>3, <1>4 DEF Reading

LEMMA Ends ==
    ASSUME TypeOK, NEW w \in Workers, NEW answer, NEW what, NEW row,
           Finish(w, answer, what, row)
    PROVE  Reading' = [Reading EXCEPT ![w] =
               [status |-> "free",
                effect |-> IF what # "no" THEN "registered"
                           ELSE IF row # Null THEN "forwarded" ELSE "none",
                answer |-> answer]]
<1>1. call \in [Workers -> Call] /\ call[w] \in Call
    BY DEF TypeOK, CallsOK
<1>2. /\ call'[w].pc = "idle" /\ call'[w].ret = answer
      /\ call'[w].added = what /\ call'[w].sent = row
      /\ \A u \in Workers \ {w} : call'[u] = call[u]
    BY <1>1 DEF Finish, Call
<1>3. ReadingOf(call'[w]) =
          [status |-> "free",
           effect |-> IF what # "no" THEN "registered"
                      ELSE IF row # Null THEN "forwarded" ELSE "none",
           answer |-> answer]
    BY <1>2 DEF ReadingOf, EffectOf
<1>4. \A u \in Workers \ {w} : ReadingOf(call'[u]) = ReadingOf(call[u])
    BY <1>2
<1> QED BY <1>3, <1>4 DEF Reading

LEMMA HeldReading ==
    ASSUME OutcomeInv, NEW w \in Workers, call[w].pc # "idle"
    PROVE  /\ Reading[w].status = "held"
           /\ call[w].added = "no" /\ call[w].sent = Null
BY DEF OutcomeInv, Outcome, Reading, ReadingOf

-----------------------------------------------------------------------------
(* The steps *)

LEMMA ReceiveTakes ==
    ASSUME TypeOK, OutcomeInv, NEW w \in Workers,
           NEW i \in Ids, NEW t \in Types, NEW v \in Values,
           Receive(w, i, t, v)
    PROVE  Abstract!Take(w)
<1>1. call \in [Workers -> Call]
    BY DEF TypeOK, CallsOK
<1>2. call[w].pc = "idle" /\ UNCHANGED <<nodes, sensors>>
    BY DEF Receive, At, database
<1>3. Registrations' = Registrations
    BY <1>2 DEF Registrations
<1>4. /\ \A u \in Workers \ {w} : call'[u] = call[u]
      /\ call'[w].pc = "nodeQuery" /\ call'[w].added = "no"
      /\ call'[w].sent = Null /\ call'[w].ret = "none"
    BY <1>1 DEF Receive, NoCall
<1>5. ReadingOf(call'[w]) = Abstract!Held
    BY <1>4 DEF ReadingOf, EffectOf, Abstract!Held
<1>6. \A u \in Workers \ {w} : ReadingOf(call'[u]) = ReadingOf(call[u])
    BY <1>4
<1>7. Reading' = [Reading EXCEPT ![w] = Abstract!Held]
    BY <1>5, <1>6 DEF Reading
<1>8. Reading[w].status = "free"
    BY <1>2 DEF Reading, ReadingOf
<1> QED BY <1>3, <1>7, <1>8 DEF Abstract!Take, Reading

\* A call that registers what sent its reading.
LEMMA InsertRegisters ==
    ASSUME TypeOK, OutcomeInv, NEW w \in Workers, call[w].pc # "idle",
           NEW what \in {"node", "sensor"}, Registered(w, what),
           \E s \in Senders : Registrations' = Registrations \cup {s}
    PROVE  Abstract!Register(w)
<1>1. PICK answer \in {"false", "fault"} : Finish(w, answer, what, call[w].sent)
    BY DEF Registered
<1>2. Reading' = [Reading EXCEPT ![w] =
          [status |-> "free", effect |-> "registered", answer |-> answer]]
    BY <1>1, Ends
<1>3. Reading[w].status = "held"
    BY HeldReading
<1>4. Abstract!Done(w, "registered", answer)
    BY <1>2, <1>3 DEF Abstract!Done, Reading
<1> QED BY <1>4 DEF Abstract!Register, Senders

LEMMA ReturnRefuses ==
    ASSUME TypeOK, OutcomeInv, NEW w \in Workers, call[w].pc # "idle",
           NEW answer \in {"false", "fault"}, Return(w, answer),
           Registrations' = Registrations
    PROVE  Abstract!Refuse(w)
<1>1. call[w].added = "no" /\ call[w].sent = Null /\ Reading[w].status = "held"
    BY HeldReading
<1>2. Reading' = [Reading EXCEPT ![w] =
          [status |-> "free", effect |-> "none", answer |-> answer]]
    BY <1>1, Ends DEF Return
<1>3. Abstract!Done(w, "none", answer)
    BY <1>1, <1>2 DEF Abstract!Done, Reading
<1> QED BY <1>3 DEF Abstract!Refuse

LEMMA DeliveredForwards ==
    ASSUME TypeOK, OutcomeInv, NEW w \in Workers, call[w].pc # "idle",
           NEW answer \in {"true", "false", "fault"}, Delivered(w, answer),
           Registrations' = Registrations
    PROVE  Abstract!Forward(w)
<1>1. call[w].added = "no" /\ Reading[w].status = "held"
    BY HeldReading
<1>2. call[w].seen # Null
    BY NamesAssumption DEF TypeOK, CallsOK, Call
<1>3. Reading' = [Reading EXCEPT ![w] =
          [status |-> "free", effect |-> "forwarded", answer |-> answer]]
    BY <1>1, <1>2, Ends DEF Delivered
<1>4. Abstract!Done(w, "forwarded", answer)
    BY <1>1, <1>3 DEF Abstract!Done, Reading
<1> QED BY <1>4 DEF Abstract!Forward

\* The statements that register something.
LEMMA NodeInsertRegisters ==
    ASSUME TypeOK, OutcomeInv, NEW w \in Workers, NodeInsert(w)
    PROVE  Abstract!Answer(w)
<1>1. call[w].pc # "idle" /\ call[w].id \in Ids
    BY DEF NodeInsert, At, TypeOK, CallsOK, InProgress
<1>2. CASE CanInsert(nodes[call[w].id])
    <2>1. /\ nodes' = [nodes EXCEPT ![call[w].id] = Append(@, Null)]
          /\ sensors' = sensors /\ Registered(w, "node")
        BY <1>2 DEF NodeInsert
    <2>2. nodes[call[w].id] \in Seq(Addrs \cup {Null})
        BY <1>1 DEF TypeOK, TablesOK
    <2>3. /\ nodes'[call[w].id] # <<>>
          /\ \A j \in Ids \ {call[w].id} : nodes'[j] = nodes[j]
        BY <1>1, <2>1, <2>2, AppendIsSome DEF TypeOK, TablesOK
    <2>4. \E s \in Senders : Registrations' = Registrations \cup {s}
        BY <1>1, <2>1, <2>3, OneMoreNode
    <2> QED BY <1>1, <2>1, <2>4, InsertRegisters DEF Abstract!Answer
<1>3. CASE ~CanInsert(nodes[call[w].id])
    <2>1. Registrations' = Registrations
        BY <1>3 DEF NodeInsert, Registrations
    <2> QED BY <1>1, <1>3, <2>1, ReturnRefuses DEF NodeInsert, Abstract!Answer
<1> QED BY <1>2, <1>3

LEMMA SensorInsertRegisters ==
    ASSUME TypeOK, OutcomeInv, NEW w \in Workers, SensorInsert(w)
    PROVE  Abstract!Answer(w)
<1> DEFINE d == <<call[w].id, call[w].type>>
<1>1. call[w].pc # "idle" /\ d \in NodeNames \X Types
    BY DEF SensorInsert, At, TypeOK, CallsOK, InProgress, NodeNames
<1>2. CASE CanInsert(sensors[d])
    <2>1. /\ sensors' = [sensors EXCEPT ![d] = Append(@, Uncalibrated)]
          /\ nodes' = nodes /\ Registered(w, "sensor")
        BY <1>2 DEF SensorInsert
    <2>2. sensors[d] \in Seq(Row) /\ Uncalibrated \in Row
        BY <1>1 DEF TypeOK, TablesOK, Uncalibrated, Row, Bound
    <2> HIDE DEF d
    <2>3. /\ sensors'[d] # <<>>
          /\ \A e \in (NodeNames \X Types) \ {d} : sensors'[e] = sensors[e]
        BY <1>1, <2>1, <2>2, AppendIsSome DEF TypeOK, TablesOK
    <2>4. \E s \in Senders : Registrations' = Registrations \cup {s}
        BY <1>1, <2>1, <2>3, OneMoreSensor
    <2> QED BY <1>1, <2>1, <2>4, InsertRegisters DEF Abstract!Answer
<1>3. CASE ~CanInsert(sensors[d])
    <2>1. Registrations' = Registrations
        BY <1>3 DEF SensorInsert, Registrations
    <2> QED BY <1>1, <1>3, <2>1, ReturnRefuses DEF SensorInsert, Abstract!Answer
<1> QED BY <1>2, <1>3

\* Every other statement of a call leaves the registrations as they are.
LEMMA OtherStatements ==
    ASSUME TypeOK, TypeOK', NEW w \in Workers,
           WorkerStep(w) \/ Post(w) \/ CallError(w),
           ~NodeInsert(w), ~SensorInsert(w)
    PROVE  Registrations' = Registrations
<1>1. CASE UNCHANGED <<nodes, sensors>>
    BY <1>1 DEF Registrations
<1>2. CASE WriteMin(w) \/ WriteMax(w) \/ WriteBoth(w)
    <2>1. call[w].id \in NodeNames /\ call[w].type \in Types /\ UNCHANGED nodes
        BY <1>2 DEF WriteMin, WriteMax, WriteBoth, At, TypeOK, CallsOK,
                    InProgress, NodeNames
    <2>2. CASE WriteMin(w)
        BY <2>1, <2>2, UpdateRegistersNothing DEF WriteMin
    <2>3. CASE WriteMax(w)
        BY <2>1, <2>3, UpdateRegistersNothing DEF WriteMax
    <2>4. CASE WriteBoth(w)
        BY <2>1, <2>4, UpdateRegistersNothing DEF WriteBoth
    <2> QED BY <1>2, <2>2, <2>3, <2>4
<1> QED BY <1>1, <1>2, NoWrite DEF WorkerStep

LEMMA CallStep ==
    ASSUME TypeOK, TypeOK', OutcomeInv, NEW w \in Workers,
           WorkerStep(w) \/ Post(w) \/ CallError(w)
    PROVE  Abstract!Answer(w) \/ UNCHANGED Abstract!vars
<1>1. CASE NodeInsert(w)
    BY <1>1, NodeInsertRegisters
<1>2. CASE SensorInsert(w)
    BY <1>2, SensorInsertRegisters
<1>3. CASE ~NodeInsert(w) /\ ~SensorInsert(w)
    <2>1. Registrations' = Registrations
        BY <1>3, OtherStatements
    <2>2. call[w].pc # "idle" /\ \A u \in Workers \ {w} : call'[u] = call[u]
        BY StepShape
    <2>3. CASE KeepsOutcome(w)
        <3>1. Reading' = Reading
            BY <2>2, <2>3, GoesOn
        <3> QED BY <2>1, <3>1 DEF Abstract!vars, Reading
    <2>4. CASE \E answer \in {"false", "fault"} : Return(w, answer)
        BY <2>1, <2>2, <2>4, ReturnRefuses DEF Abstract!Answer
    <2>5. CASE \E answer \in {"true", "false", "fault"} : Delivered(w, answer)
        BY <2>1, <2>2, <2>5, DeliveredForwards DEF Abstract!Answer
    <2> QED BY <1>3, <2>3, <2>4, <2>5, StepShape
<1> QED BY <1>1, <1>2, <1>3

-----------------------------------------------------------------------------
(* The operator and restarts *)

LEMMA OperatorRegisters ==
    ASSUME UNCHANGED call,
           \/ Registrations' \subseteq Registrations
           \/ \E s \in Senders : Registrations' = Registrations \cup {s}
    PROVE  Abstract!Operator
<1>1. Reading' = Reading
    BY DEF Reading
<1>2. Registrations' \in {Registrations \cup {s} : s \in Senders}
                            \cup SUBSET Registrations
    OBVIOUS
<1> QED BY <1>1, <1>2 DEF Abstract!Operator, Reading, Senders

LEMMA EdtStepRegisters ==
    ASSUME TypeOK, EdtStep
    PROVE  Abstract!Operator
<1>1. UNCHANGED call
    BY PanelLeavesCalls
<1>2. CASE AddNodeInsert
    <2>1. CASE CanInsert(nodes[edt.id])
        <3>1. /\ edt.id \in Ids /\ edt.addr \in Addrs \cup {Null}
              /\ nodes' = [nodes EXCEPT ![edt.id] = Append(@, edt.addr)]
              /\ sensors' = sensors
            BY <1>2, <2>1 DEF AddNodeInsert, TypeOK, PanelOK
        <3>2. /\ nodes'[edt.id] # <<>>
              /\ \A j \in Ids \ {edt.id} : nodes'[j] = nodes[j]
            BY <3>1, AppendIsSome DEF TypeOK, TablesOK
        <3> QED BY <1>1, <3>1, <3>2, OneMoreNode, OperatorRegisters
    <2>2. CASE ~CanInsert(nodes[edt.id])
        <3>1. Registrations' = Registrations
            BY <1>2, <2>2 DEF AddNodeInsert, Registrations
        <3> QED BY <1>1, <3>1, OperatorRegisters
    <2> QED BY <2>1, <2>2
<1>3. CASE AddSensorInsert
    <2> DEFINE d == <<edt.id, edt.type>>
    <2>1. d \in NodeNames \X Types
        BY <1>3 DEF AddSensorInsert, TypeOK, PanelOK
    <2>2. CASE CanInsert(sensors[d])
        <3>1. /\ sensors' = [sensors EXCEPT ![d] = Append(@, Uncalibrated)]
              /\ nodes' = nodes
            BY <1>3, <2>2 DEF AddSensorInsert
        <3>2. sensors[d] \in Seq(Row) /\ Uncalibrated \in Row
            BY <2>1 DEF TypeOK, TablesOK, Uncalibrated, Row, Bound
        <3> HIDE DEF d
        <3>3. /\ sensors'[d] # <<>>
              /\ \A e \in (NodeNames \X Types) \ {d} : sensors'[e] = sensors[e]
            BY <2>1, <3>1, <3>2, AppendIsSome DEF TypeOK, TablesOK
        <3> QED BY <1>1, <2>1, <3>1, <3>3, OneMoreSensor, OperatorRegisters
    <2>3. CASE ~CanInsert(sensors[d])
        <3>1. Registrations' = Registrations
            BY <1>3, <2>3 DEF AddSensorInsert, Registrations
        <3> QED BY <1>1, <3>1, OperatorRegisters
    <2> QED BY <2>2, <2>3
<1>4. CASE DeleteNode \/ DeleteItsSensors \/ DeleteSensor
    <2>1. /\ \A i \in Ids : nodes'[i] \in {nodes[i], <<>>}
          /\ \A d \in NodeNames \X Types : sensors'[d] \in {sensors[d], <<>>}
        <3>1. CASE DeleteNode
            BY <3>1 DEF DeleteNode
        <3>2. CASE DeleteItsSensors
            BY <3>2 DEF DeleteItsSensors
        <3>3. CASE DeleteSensor
            BY <3>3 DEF DeleteSensor
        <3> QED BY <1>4, <3>1, <3>2, <3>3
    <2> QED BY <1>1, <2>1, Fewer, OperatorRegisters
<1> QED BY <1>2, <1>3, <1>4 DEF EdtStep

LEMMA OperatorChanges ==
    ASSUME TypeOK, TypeOK', Operator \/ EdtError
    PROVE  Abstract!Operator
<1>1. UNCHANGED call
    BY PanelLeavesCalls
<1>2. CASE UNCHANGED <<nodes, sensors>>
    <2>1. Registrations' = Registrations
        BY <1>2 DEF Registrations
    <2> QED BY <1>1, <2>1, OperatorRegisters
<1>3. ASSUME NEW i \in Ids, NEW a \in Addrs, SaveNodeAddress(i, a)
      PROVE  Abstract!Operator
    <2>1. /\ \A j \in Ids : nodes[j] \in Seq(Addrs \cup {Null})
                            /\ nodes'[j] \in Seq(Addrs \cup {Null})
          /\ nodes'[i] = [k \in 1 .. Len(nodes[i]) |-> a] /\ sensors' = sensors
          /\ \A j \in Ids \ {i} : nodes'[j] = nodes[j]
        BY <1>3 DEF SaveNodeAddress, TypeOK, TablesOK
    <2>2. DOMAIN nodes'[i] = DOMAIN nodes[i]
        BY <2>1, LenProperties
    <2>3. nodes'[i] = <<>> <=> nodes[i] = <<>>
        BY <2>1, <2>2, SameDomainSameRows
    <2>4. Registrations' = Registrations
        BY <2>1, <2>3, RegistrationsDependOnRows
    <2> QED BY <1>1, <2>4, OperatorRegisters
<1>4. ASSUME NEW i \in NodeNames, NEW t \in Types, ResetCalibration(i, t)
      PROVE  Abstract!Operator
    <2>1. Registrations' = Registrations
        BY <1>4, UpdateRegistersNothing DEF ResetCalibration
    <2> QED BY <1>1, <2>1, OperatorRegisters
<1> QED
    BY <1>2, <1>3, <1>4
    DEF Operator, AddNode, AddSensor, RemoveNode, RemoveSensor, Tick, Untick,
        EdtError, database

LEMMA RestartForgets == Restart => Abstract!Restart
<1> SUFFICES ASSUME Restart PROVE Abstract!Restart
    OBVIOUS
<1>1. Registrations' = Registrations
    BY DEF Restart, database, Registrations
<1>2. ReadingOf(NoCall) = Abstract!Unused
    BY DEF ReadingOf, EffectOf, NoCall, Abstract!Unused
<1>3. Reading' = [w \in Workers |-> Abstract!Unused]
    BY <1>2 DEF Restart, Reading
<1> QED BY <1>1, <1>3 DEF Abstract!Restart, Reading

-----------------------------------------------------------------------------
LEMMA InitForwarding == Init => Abstract!Init
<1> SUFFICES ASSUME Init PROVE Abstract!Init
    OBVIOUS
<1>1. Registrations \in SUBSET Senders
    BY DEF Registrations, Senders, NodeNames
<1>2. ReadingOf(NoCall) = Abstract!Unused
    BY DEF ReadingOf, EffectOf, NoCall, Abstract!Unused
<1>3. Reading = [w \in Workers |-> Abstract!Unused]
    BY <1>2 DEF Init, Reading
<1> QED BY <1>1, <1>3 DEF Abstract!Init, Reading, Senders

LEMMA StepForwarding ==
    TypeOK /\ TypeOK' /\ OutcomeInv /\ [Next]_vars => [Abstract!Next]_Abstract!vars
<1> SUFFICES ASSUME TypeOK, TypeOK', OutcomeInv, [Next]_vars
             PROVE  Abstract!Next \/ UNCHANGED Abstract!vars
    OBVIOUS
<1>1. CASE UNCHANGED vars
    <2>1. Registrations' = Registrations /\ call' = call
        BY <1>1 DEF vars, Registrations
    <2> QED BY <2>1 DEF Abstract!vars
<1>2. ASSUME NEW w \in Workers, WorkerStep(w) \/ Post(w) \/ CallError(w)
      PROVE  Abstract!Next \/ UNCHANGED Abstract!vars
    BY <1>2, CallStep DEF Abstract!Next
<1>3. ASSUME NEW w \in Workers, NEW i \in Ids, NEW t \in Types, NEW v \in Values,
             Receive(w, i, t, v)
      PROVE  Abstract!Next
    BY <1>3, ReceiveTakes DEF Abstract!Next
<1>4. CASE Operator \/ EdtStep \/ EdtError
    BY <1>4, OperatorChanges, EdtStepRegisters DEF Abstract!Next
<1>5. CASE Restart
    BY <1>5, RestartForgets DEF Abstract!Next
<1> QED BY <1>1, <1>2, <1>3, <1>4, <1>5 DEF Next

(***************************************************************************)
(* Whatever the tables, boxes, lists and failures, a call of sensed has at *)
(* most one effect, which its return ends, and "true" is returned only of  *)
(* a reading that the virtual world has received.                          *)
(***************************************************************************)
THEOREM ForwardingImplemented == Spec => ImplementsForwarding
<1> QED
    BY InitForwarding, StepForwarding, TypeCorrect, OutcomeCorrect, PTL
    DEF Spec, ImplementsForwarding, Abstract!Spec
=============================================================================
