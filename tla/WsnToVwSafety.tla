--------------------------- MODULE WsnToVwSafety ---------------------------
(***************************************************************************)
(* Safety of the WSN-to-VW interface, for every value of its constants.    *)
(***************************************************************************)
EXTENDS WsnToVwProofs, OperatorSettings

(***************************************************************************)
(* The arithmetic of HTTPPOSTForward, for every width of int.              *)
(***************************************************************************)

\* The difference of two ints is an int, and 0 only for equal ints.
LEMMA MinusIsInt ==
    ASSUME NEW x \in JavaInt, NEW y \in JavaInt
    PROVE  /\ Minus(x, y) \in JavaInt
           /\ Minus(x, y) = 0 => x = y
BY HalfAssumption DEF JavaInt, Minus

\* HTTPPOSTForward sends a number in [0, 1] for a calibrated sensor, however
\* its bounds are ordered and although max - min may overflow, unless it
\* divides zero by zero.
THEOREM ScaledInUnit ==
    ASSUME NEW v \in JavaInt, NEW r \in Row, Calibrated(r),
           ~ (r.min = r.max /\ v = 0)
    PROVE  InUnit(Scaled(v, r))
<1> DEFINE d == Minus(r.max, r.min)
           q == Quotient(v, r)
<1>1. r.min \in JavaInt /\ r.max \in JavaInt
    BY DEF Row, Bound, Calibrated
<1>2. d \in Int /\ v \in Int /\ (d = 0 => r.min = r.max)
    <2>1. JavaInt \subseteq Int
        BY HalfAssumption DEF JavaInt
    <2> QED BY <1>1, <2>1, MinusIsInt
<1>3. q = IF d < 0 THEN [num |-> -v, den |-> -d] ELSE [num |-> v, den |-> d]
    BY DEF Quotient
<1> HIDE DEF d
<1>4. q.num \in Int /\ q.den \in Nat /\ ~ (q.num = 0 /\ q.den = 0)
    BY <1>2, <1>3
<1>5. Scaled(v, r) = Clamp(q)
    BY DEF Scaled
<1> HIDE DEF q
<1>6. CASE AboveOne(q)
    BY <1>5, <1>6 DEF Clamp, InUnit
<1>7. CASE ~ AboveOne(q) /\ BelowZero(q)
    BY <1>5, <1>7 DEF Clamp, InUnit
<1>8. CASE ~ AboveOne(q) /\ ~ BelowZero(q)
    BY <1>4, <1>5, <1>8 DEF Clamp, InUnit, AboveOne, BelowZero
<1> QED BY <1>6, <1>7, <1>8

\* The exception is real: zero over zero is sent as it is.
THEOREM ZeroOverZeroIsSent ==
    ASSUME NEW r \in Row, Calibrated(r), r.min = r.max
    PROVE  IsNaN(Scaled(0, r))
<1>1. r.min \in JavaInt /\ r.max \in JavaInt
    BY DEF Row, Bound, Calibrated
<1>2. Minus(r.max, r.min) = 0
    BY <1>1, HalfAssumption DEF JavaInt, Minus
<1>3. Quotient(0, r) = [num |-> 0, den |-> 0]
    BY <1>2 DEF Quotient
<1> QED BY <1>3 DEF Scaled, Clamp, AboveOne, BelowZero, IsNaN

(***************************************************************************)
(* What one call did                                                       *)
(***************************************************************************)

\* A step with which the call goes on, and which leaves alone what it is about
\* and what it did.
KeepsOutcome(w) ==
    /\ call'[w].pc \in CallSteps
    /\ call'[w].id = call[w].id
    /\ call'[w].type = call[w].type
    /\ call'[w].value = call[w].value
    /\ call'[w].added = call[w].added
    /\ call'[w].sent = call[w].sent
    /\ call'[w].ret = call[w].ret

\* A step of a call changes no other call and either goes on or ends it.
LEMMA StepShape ==
    ASSUME TypeOK, NEW w \in Workers, WorkerStep(w) \/ Post(w) \/ CallError(w)
    PROVE  /\ call[w].pc # "idle"
           /\ \A u \in Workers \ {w} : call'[u] = call[u]
           /\ \/ KeepsOutcome(w)
              \/ \E answer \in {"false", "fault"} : Return(w, answer)
              \/ \E answer \in {"true", "false", "fault"} : At(w, "post") /\ Delivered(w, answer)
              \/ /\ NodeInsert(w) \/ SensorInsert(w)
                 /\ \E what \in {"node", "sensor"} : Registered(w, what)
<1>1. call \in [Workers -> Call] /\ call[w] \in Call
    BY DEF TypeOK, CallsOK
<1>2. ASSUME \/ \E step \in CallSteps : Goto(w, step) \/ Scan(w, step)
             \/ ScanOn(w) /\ call[w].pc \in CallSteps
      PROVE  KeepsOutcome(w) /\ \A u \in Workers \ {w} : call'[u] = call[u]
    <2>1. CASE \E step \in CallSteps : Goto(w, step)
        BY <1>1, <2>1 DEF KeepsOutcome, Goto, Call
    <2>2. CASE \E step \in CallSteps : Scan(w, step)
        BY <1>1, <2>2 DEF KeepsOutcome, Scan, Call
    <2>3. CASE ScanOn(w) /\ call[w].pc \in CallSteps
        BY <1>1, <2>3 DEF KeepsOutcome, ScanOn, Call
    <2> QED BY <1>2, <2>1, <2>2, <2>3
<1>3. ASSUME \/ \E answer \in {"true", "false", "fault"} :
                   Return(w, answer) \/ Delivered(w, answer)
             \/ \E what \in {"node", "sensor"} : Registered(w, what)
      PROVE  \A u \in Workers \ {w} : call'[u] = call[u]
    BY <1>1, <1>3 DEF Return, Delivered, Registered, Finish
<1>4. "nodeScan" \in CallSteps /\ "nodeInsert" \in CallSteps
      /\ "sensorUnknown" \in CallSteps /\ "sensorAutoAdd" \in CallSteps
      /\ "sensorScan" \in CallSteps /\ "sensorInsert" \in CallSteps
      /\ "calibrateBox" \in CallSteps /\ "calibrationRead" \in CallSteps
      /\ "writeMax" \in CallSteps /\ "pauseCheck" \in CallSteps
      /\ "forwardRead" \in CallSteps
    BY DEF CallSteps, DbSteps, LocalSteps
<1>5. CASE NodeQuery(w)
    BY <1>1, <1>5 DEF NodeQuery, At, KeepsOutcome, Call, CallSteps, DbSteps, LocalSteps
<1>6. CASE CalibrationRead(w)
    <2>1. CASE Return(w, "fault")
        BY <1>3, <1>6, <2>1 DEF CalibrationRead, At
    <2>2. CASE ~ Return(w, "fault")
        <3>1. \A r, v : UpdateFor(r, v) \in CallSteps
            BY DEF UpdateFor, CallSteps, DbSteps, LocalSteps
        <3>2. call'[w] = [call[w] EXCEPT
                 !.seen = sensors[<<call[w].id, call[w].type>>][1],
                 !.pc = UpdateFor(sensors[<<call[w].id, call[w].type>>][1],
                                  call[w].value)]
              /\ \A u \in Workers \ {w} : call'[u] = call[u]
            BY <1>1, <1>6, <2>2 DEF CalibrationRead
        <3>3. KeepsOutcome(w)
            BY <1>1, <3>1, <3>2 DEF KeepsOutcome, Call
        <3> QED BY <1>6, <3>2, <3>3 DEF CalibrationRead, At
    <2> QED BY <2>1, <2>2
<1>7. CASE ForwardRead(w)
    <2>1. CASE Return(w, "fault")
        BY <1>3, <1>7, <2>1 DEF ForwardRead, At
    <2>2. CASE ~ Return(w, "fault")
        BY <1>1, <1>7, <2>2 DEF ForwardRead, At, KeepsOutcome, Call, CallSteps
    <2> QED BY <2>1, <2>2
<1>8. CASE NodeUnknown(w)
    BY <1>2, <1>3, <1>4, <1>8 DEF NodeUnknown, At
<1>9. CASE NodeScan(w)
    BY <1>2, <1>3, <1>4, <1>9 DEF NodeScan, At
<1>10. CASE NodeInsert(w)
    BY <1>3, <1>10 DEF NodeInsert, At
<1>11. CASE SensorQuery(w)
    BY <1>2, <1>4, <1>11 DEF SensorQuery, At
<1>12. CASE SensorUnknown(w)
    BY <1>2, <1>3, <1>4, <1>12 DEF SensorUnknown, At
<1>13. CASE SensorAutoAdd(w)
    BY <1>2, <1>4, <1>13 DEF SensorAutoAdd, At
<1>14. CASE SensorScan(w)
    BY <1>2, <1>3, <1>4, <1>14 DEF SensorScan, At
<1>15. CASE SensorInsert(w)
    BY <1>3, <1>15 DEF SensorInsert, At
<1>16. CASE CalibrateBox(w)
    BY <1>2, <1>4, <1>16 DEF CalibrateBox, At
<1>17. CASE WriteMin(w) \/ WriteMax(w) \/ WriteBoth(w)
    BY <1>2, <1>4, <1>17 DEF WriteMin, WriteMax, WriteBoth, At
<1>18. CASE PauseCheck(w)
    BY <1>2, <1>3, <1>4, <1>18 DEF PauseCheck, At
<1>19. CASE Post(w)
    BY <1>3, <1>19 DEF Post, At
<1>20. CASE CallError(w)
    BY <1>3, <1>20 DEF CallError, DbError, GuiError, DbSteps, At
<1> QED
    BY <1>5, <1>6, <1>7, <1>8, <1>9, <1>10, <1>11, <1>12, <1>13, <1>14,
       <1>15, <1>16, <1>17, <1>18, <1>19, <1>20 DEF WorkerStep

\* While a call is served nothing has been registered or sent; and what it
\* sent, it sent of a reading.
Outcome(c) ==
    /\ c.pc # "idle" => c.added = "no" /\ c.sent = Null /\ c.ret = "none"
    /\ c.added # "no" => c.sent = Null /\ c.ret # "true"
    /\ c.ret = "true" => c.sent # Null
    /\ c.sent # Null => c.value \in Values
OutcomeInv == \A w \in Workers : Outcome(call[w])

LEMMA OutcomeOfStep ==
    ASSUME TypeOK, NEW w \in Workers, WorkerStep(w) \/ Post(w) \/ CallError(w),
           Outcome(call[w])
    PROVE  Outcome(call'[w])
<1>1. /\ call \in [Workers -> Call] /\ call[w] \in Call
      /\ call[w].pc # "idle" /\ call[w].value \in Values /\ call[w].seen \in Row
      /\ call[w].added = "no" /\ call[w].sent = Null /\ call[w].ret = "none"
    BY StepShape DEF TypeOK, CallsOK, InProgress, Call, Outcome
<1>2. CASE KeepsOutcome(w)
    BY <1>1, <1>2 DEF KeepsOutcome, Outcome
<1>3. CASE \E answer \in {"false", "fault"} : Return(w, answer)
    BY <1>1, <1>3 DEF Return, Finish, Outcome
<1>4. CASE \E answer \in {"true", "false", "fault"} : At(w, "post") /\ Delivered(w, answer)
    BY <1>1, <1>4, NamesAssumption DEF Delivered, Finish, Outcome
<1>5. CASE \E what \in {"node", "sensor"} : Registered(w, what)
    <2>1. PICK what \in {"node", "sensor"}, answer \in {"false", "fault"} :
             Finish(w, answer, what, call[w].sent)
        BY <1>5 DEF Registered
    <2> QED BY <1>1, <2>1 DEF Finish, Outcome
<1> QED BY <1>2, <1>3, <1>4, <1>5, StepShape

\* Neither the operator nor the event thread touches a call.
LEMMA PanelLeavesCalls ==
    Operator \/ EdtStep \/ EdtError => UNCHANGED call
BY DEF Operator, AddNode, SaveNodeAddress, AddSensor, ResetCalibration,
       RemoveNode, RemoveSensor, Tick, Untick, EdtStep, AddNodeInsert,
       AddSensorInsert, DeleteNode, DeleteItsSensors, DeleteSensor, EdtError

LEMMA OutcomeCorrect == Spec => []OutcomeInv
<1>1. Outcome(NoCall)
    BY DEF Outcome, NoCall
<1>2. Init => OutcomeInv
    BY <1>1 DEF Init, OutcomeInv
<1>3. TypeOK /\ OutcomeInv /\ [Next]_vars => OutcomeInv'
    <2> SUFFICES ASSUME TypeOK, OutcomeInv, [Next]_vars PROVE OutcomeInv'
        OBVIOUS
    <2>0. call \in [Workers -> Call]
        BY DEF TypeOK, CallsOK
    <2>1. CASE UNCHANGED call
        BY <2>1 DEF OutcomeInv
    <2>2. ASSUME NEW w \in Workers,
                 NEW i \in Ids, NEW t \in Types, NEW v \in Values,
                 Receive(w, i, t, v)
          PROVE  OutcomeInv'
        <3> DEFINE c == [NoCall EXCEPT
                   !.pc = "nodeQuery", !.id = i, !.type = t, !.value = v]
        <3>1. Outcome(c)
            BY DEF Outcome, NoCall
        <3>2. call' = [call EXCEPT ![w] = c]
            BY <2>2 DEF Receive
        <3> HIDE DEF c
        <3> QED BY <2>0, <3>1, <3>2 DEF OutcomeInv
    <2>3. ASSUME NEW w \in Workers, WorkerStep(w) \/ Post(w) \/ CallError(w)
          PROVE  OutcomeInv'
        <3>1. \A u \in Workers \ {w} : call'[u] = call[u]
            BY <2>3, StepShape
        <3>2. Outcome(call'[w])
            BY <2>3, OutcomeOfStep DEF OutcomeInv
        <3> QED BY <3>1, <3>2 DEF OutcomeInv
    <2>4. CASE Restart
        BY <1>1, <2>4 DEF Restart, OutcomeInv
    <2> QED
        BY <2>1, <2>2, <2>3, <2>4, PanelLeavesCalls DEF Next, vars
<1> QED BY <1>2, <1>3, TypeCorrect, PTL DEF Spec

\* The reading that registers a node or a sensor is not forwarded, and true
\* is only ever answered for a reading the virtual world received.
THEOREM FirstReadingCorrect == Spec => []FirstReadingNotForwarded
<1>1. OutcomeInv => FirstReadingNotForwarded
    BY DEF OutcomeInv, Outcome, FirstReadingNotForwarded
<1> QED BY <1>1, OutcomeCorrect, PTL

\* Whatever calls, resets and removals race, a calibrated reading is posted
\* as a number in [0, 1], except for zero divided by zero.
THEOREM ForwardedCorrect == Spec => []ForwardedInUnit
<1>1. TypeOK /\ OutcomeInv => ForwardedInUnit
    <2> SUFFICES ASSUME TypeOK, OutcomeInv, NEW w \in Workers, Forwarded(w),
                        ~ (call[w].sent.min = call[w].sent.max
                           /\ call[w].value = 0)
                 PROVE  InUnit(Scaled(call[w].value, call[w].sent))
        BY DEF ForwardedInUnit
    <2>1. call[w].sent \in Row /\ Calibrated(call[w].sent)
        BY DEF TypeOK, CallsOK, Call, Forwarded
    <2>2. call[w].value \in JavaInt
        BY ValuesAssumption DEF OutcomeInv, Outcome, Forwarded
    <2> QED BY <2>1, <2>2, ScaledInUnit
<1> QED BY <1>1, OutcomeCorrect, TypeCorrect, PTL

-----------------------------------------------------------------------------
(***************************************************************************)
(* While nothing is removed                                                *)
(***************************************************************************)

\* An operator who only adds, resets and ticks, and a GUI that does not fail in
\* the middle of a call.
OnlyAdds ==
    /\ Ops \cap Removals = {} /\ "autoSensor" \notin Unticks
    /\ "gui" \notin Faults

\* What such an operator leaves untouched, and what a call may rely on.
PanelOnlyAdds ==
    /\ ignoreSensors = <<>>
    /\ edt.op \in {"idle", "addNode", "addSensor"}
    /\ edt.op = "addSensor" /\ edt.id \in Ids => nodes[edt.id] # <<>>
WillAdd ==
    \A w \in Workers :
        /\ At(w, "sensorAutoAdd") => boxes["autoSensor"]
        /\ At(w, "sensorScan") => call[w].pos # 0
AddsInv == PanelOnlyAdds /\ WillAdd /\ Recognised /\ NoOrphanSensors /\ NoFault

\* No row disappears, and a sensor row appears only under a registered node.
TablesGrow ==
    /\ \A i \in Ids : nodes[i] # <<>> => nodes'[i] # <<>>
    /\ \A d \in NodeNames \X Types : sensors[d] # <<>> => sensors'[d] # <<>>
    /\ \A i \in Ids, t \in Types :
          sensors'[<<i, t>>] # <<>> => sensors[<<i, t>>] # <<>> \/ nodes[i] # <<>>

\* An UPDATE keeps every row, an INSERT leaves at least one.
LEMMA SameDomainSameRows ==
    ASSUME NEW X, NEW s \in Seq(X), NEW u \in Seq(X), DOMAIN u = DOMAIN s
    PROVE  u = <<>> <=> s = <<>>
<1>1. /\ Len(s) \in Nat /\ (s = <<>> <=> Len(s) = 0) /\ DOMAIN s = 1 .. Len(s)
      /\ Len(u) \in Nat /\ (u = <<>> <=> Len(u) = 0) /\ DOMAIN u = 1 .. Len(u)
    BY EmptySeq, LenProperties
<1>2. Len(s) = Len(u)
    BY <1>1
<1> QED BY <1>1, <1>2

LEMMA AppendIsSome ==
    ASSUME NEW X, NEW s \in Seq(X), NEW x \in X
    PROVE  Append(s, x) # <<>>
<1>1. Len(Append(s, x)) = Len(s) + 1 /\ Append(s, x) \in Seq(X)
    BY AppendProperties
<1> QED BY <1>1, EmptySeq, LenProperties

\* A search of an empty list finds nothing.
LEMMA SelectInEmpty ==
    ASSUME NEW Test(_)
    PROVE  SelectInSeq(<<>>, Test) = 0
<1>1. {k \in DOMAIN <<>> : Test(<<>>[k])} = {}
    OBVIOUS
<1> QED BY <1>1 DEF SelectInSeq

\* The steps that write to neither table.
LEMMA NoWrite ==
    ASSUME NEW w \in Workers,
           \/ \E i \in Ids, t \in Types, v \in Values : Receive(w, i, t, v)
           \/ NodeQuery(w) \/ NodeUnknown(w) \/ NodeScan(w) \/ SensorQuery(w)
           \/ SensorUnknown(w) \/ SensorAutoAdd(w) \/ SensorScan(w)
           \/ CalibrateBox(w) \/ CalibrationRead(w) \/ PauseCheck(w)
           \/ ForwardRead(w) \/ Post(w) \/ CallError(w)
    PROVE  UNCHANGED <<nodes, sensors>>
BY DEF Receive, NodeQuery, NodeUnknown, NodeScan, SensorQuery, SensorUnknown,
       SensorAutoAdd, SensorScan, CalibrateBox, CalibrationRead, PauseCheck,
       ForwardRead, Post, CallError, DbError, GuiError, database

\* An UPDATE of the rows of one sensor.
LEMMA UpdateGrows ==
    ASSUME TypeOK, TypeOK', UNCHANGED nodes,
           \A d \in NodeNames \X Types : DOMAIN sensors'[d] = DOMAIN sensors[d]
    PROVE  TablesGrow
<1>1. \A d \in NodeNames \X Types : sensors[d] \in Seq(Row) /\ sensors'[d] \in Seq(Row)
    BY DEF TypeOK, TablesOK
<1>2. \A d \in NodeNames \X Types : sensors'[d] = <<>> <=> sensors[d] = <<>>
    BY <1>1, SameDomainSameRows
<1>3. \A i \in Ids, t \in Types : <<i, t>> \in NodeNames \X Types
    BY DEF NodeNames
<1> QED BY <1>2, <1>3 DEF TablesGrow

\* An INSERT of a sensor under a registered node, or under none.
LEMMA InsertSensorGrows ==
    ASSUME TypeOK, NEW i \in NodeNames, NEW t \in Types, UNCHANGED nodes,
           \/ UNCHANGED sensors
           \/ sensors' = [sensors EXCEPT ![<<i, t>>] = Append(@, Uncalibrated)],
           i \in Ids => nodes[i] # <<>>
    PROVE  TablesGrow
<1>1. CASE UNCHANGED sensors
    BY <1>1 DEF TablesGrow
<1>2. CASE sensors' = [sensors EXCEPT ![<<i, t>>] = Append(@, Uncalibrated)]
    <2>1. <<i, t>> \in NodeNames \X Types /\ sensors[<<i, t>>] \in Seq(Row)
          /\ Uncalibrated \in Row
        BY DEF TypeOK, TablesOK, Uncalibrated, Row, Bound
    <2>2. sensors'[<<i, t>>] # <<>>
        <3>1. sensors'[<<i, t>>] = Append(sensors[<<i, t>>], Uncalibrated)
            BY <1>2, <2>1 DEF TypeOK, TablesOK
        <3> QED BY <2>1, <3>1, AppendIsSome
    <2>3. \A d \in NodeNames \X Types : d # <<i, t>> => sensors'[d] = sensors[d]
        BY <1>2 DEF TypeOK, TablesOK
    <2>4. \A j \in Ids, u \in Types : <<j, u>> \in NodeNames \X Types
        BY DEF NodeNames
    <2>5. \A j \in Ids, u \in Types :
             <<j, u>> = <<i, t>> \/ sensors'[<<j, u>>] = sensors[<<j, u>>]
        BY <2>3, <2>4
    <2> QED BY <2>2, <2>3, <2>5 DEF TablesGrow
<1> QED BY <1>1, <1>2

\* A change of the rows of one node that leaves it some.
LEMMA NodeGrows ==
    ASSUME TypeOK, NEW i \in Ids, UNCHANGED sensors, NEW rows,
           \/ UNCHANGED nodes
           \/ nodes' = [nodes EXCEPT ![i] = rows] /\ (nodes[i] # <<>> => rows # <<>>)
    PROVE  TablesGrow
BY DEF TypeOK, TablesOK, TablesGrow

\* The steps of the calls.
LEMMA CallsGrow ==
    ASSUME TypeOK, TypeOK', AddsInv, NEW w \in Workers,
           \/ \E i \in Ids, t \in Types, v \in Values : Receive(w, i, t, v)
           \/ WorkerStep(w) \/ Post(w) \/ CallError(w)
    PROVE  TablesGrow
<1>1. /\ call[w].pc # "idle" => call[w].id \in Ids /\ call[w].type \in Types
      /\ call[w].pc # "idle" => call[w].id \in NodeNames
      /\ sensors \in [NodeNames \X Types -> Seq(Row)]
    BY DEF TypeOK, TablesOK, CallsOK, InProgress, NodeNames
<1>2. CASE UNCHANGED <<nodes, sensors>>
    BY <1>2 DEF TablesGrow
<1>3. CASE NodeInsert(w)
    <2>1. call[w].id \in Ids
        BY <1>1, <1>3 DEF NodeInsert, At
    <2>2. Append(nodes[call[w].id], Null) # <<>>
        BY <2>1, AppendIsSome DEF TypeOK, TablesOK
    <2> QED BY <1>3, <2>1, <2>2, NodeGrows DEF NodeInsert
<1>4. CASE SensorInsert(w)
    <2>1. call[w].id \in NodeNames /\ call[w].type \in Types
        BY <1>1, <1>4 DEF SensorInsert, At
    <2>2. nodes[call[w].id] # <<>>
        BY <1>4 DEF SensorInsert, At, AddsInv, Recognised, PastNode
    <2> QED BY <1>4, <2>1, <2>2, InsertSensorGrows DEF SensorInsert, panel
<1>5. CASE WriteMin(w) \/ WriteMax(w) \/ WriteBoth(w)
    <2>1. /\ call[w].id \in NodeNames /\ call[w].type \in Types
          /\ UNCHANGED nodes
        BY <1>1, <1>5 DEF WriteMin, WriteMax, WriteBoth, At
    <2> DEFINE d == <<call[w].id, call[w].type>>
    <2>2. d \in NodeNames \X Types /\ sensors[d] \in Seq(Row)
        BY <1>1, <2>1
    <2>3. DOMAIN sensors[d] = 1 .. Len(sensors[d])
        BY <2>2, LenProperties
    <2>4. \A e \in NodeNames \X Types : DOMAIN sensors'[e] = DOMAIN sensors[e]
        <3>1. CASE WriteMin(w)
            BY <1>1, <2>2, <2>3, <3>1 DEF WriteMin, Update
        <3>2. CASE WriteMax(w)
            BY <1>1, <2>2, <2>3, <3>2 DEF WriteMax, Update
        <3>3. CASE WriteBoth(w)
            BY <1>1, <2>2, <2>3, <3>3 DEF WriteBoth, Update
        <3> QED BY <1>5, <3>1, <3>2, <3>3
    <2> QED BY <2>1, <2>4, UpdateGrows
<1> QED BY <1>2, <1>3, <1>4, <1>5, NoWrite DEF WorkerStep

\* The steps of the operator and of the event thread.
LEMMA PanelGrows ==
    ASSUME TypeOK, TypeOK', AddsInv, OnlyAdds,
           Operator \/ EdtStep \/ EdtError \/ Restart
    PROVE  TablesGrow
<1>1. CASE UNCHANGED <<nodes, sensors>>
    BY <1>1 DEF TablesGrow
<1>2. ASSUME NEW i \in Ids, NEW a \in Addrs, SaveNodeAddress(i, a)
      PROVE  TablesGrow
    <2> DEFINE rows == [k \in 1 .. Len(nodes[i]) |-> a]
    <2>1. nodes[i] \in Seq(Addrs \cup {Null}) /\ nodes'[i] = rows
          /\ nodes' = [nodes EXCEPT ![i] = rows] /\ UNCHANGED sensors
        BY <1>2 DEF SaveNodeAddress, TypeOK, TablesOK
    <2>2. rows \in Seq(Addrs \cup {Null})
        BY <2>1 DEF TypeOK, TablesOK
    <2>3. DOMAIN rows = DOMAIN nodes[i]
        BY <2>1, LenProperties
    <2>4. nodes[i] # <<>> => rows # <<>>
        BY <2>1, <2>2, <2>3, SameDomainSameRows
    <2> HIDE DEF rows
    <2> QED BY <2>1, <2>4, NodeGrows
<1>3. ASSUME NEW i \in NodeNames, NEW t \in Types, ResetCalibration(i, t)
      PROVE  TablesGrow
    <2> DEFINE d == <<i, t>>
    <2>1. sensors \in [NodeNames \X Types -> Seq(Row)]
          /\ d \in NodeNames \X Types /\ sensors[d] \in Seq(Row)
        BY DEF TypeOK, TablesOK
    <2>2. DOMAIN sensors[d] = 1 .. Len(sensors[d])
        BY <2>1, LenProperties
    <2>3. \A e \in NodeNames \X Types : DOMAIN sensors'[e] = DOMAIN sensors[e]
        BY <1>3, <2>1, <2>2 DEF ResetCalibration, Update
    <2> QED BY <1>3, <2>3, UpdateGrows DEF ResetCalibration
<1>4. CASE AddNodeInsert
    <2>1. edt.id \in Ids /\ edt.addr \in Addrs \cup {Null}
        BY <1>4 DEF AddNodeInsert, TypeOK, PanelOK
    <2>2. Append(nodes[edt.id], edt.addr) # <<>>
        BY <2>1, AppendIsSome DEF TypeOK, TablesOK
    <2> QED BY <1>4, <2>1, <2>2, NodeGrows DEF AddNodeInsert
<1>5. CASE AddSensorInsert
    <2>1. edt.id \in NodeNames /\ edt.type \in Types
        BY <1>5 DEF AddSensorInsert, TypeOK, PanelOK
    <2>2. edt.id \in Ids => nodes[edt.id] # <<>>
        BY <1>5 DEF AddSensorInsert, AddsInv, PanelOnlyAdds
    <2> QED BY <1>5, <2>1, <2>2, InsertSensorGrows DEF AddSensorInsert
<1>6. ~ DeleteNode /\ ~ DeleteItsSensors /\ ~ DeleteSensor
    BY DEF DeleteNode, DeleteItsSensors, DeleteSensor, AddsInv, PanelOnlyAdds
<1>7. \A i \in Ids, a \in Addrs : AddNode(i, a) => UNCHANGED <<nodes, sensors>>
    BY DEF AddNode, database
<1>8. \A i \in NodeNames, t \in Types : AddSensor(i, t) => UNCHANGED <<nodes, sensors>>
    BY DEF AddSensor, database
<1>9. ASSUME NEW i \in NodeNames, NEW ignore \in BOOLEAN,
             RemoveNode(i, ignore) \/ \E t \in TypeNames : RemoveSensor(i, t, ignore)
      PROVE  UNCHANGED <<nodes, sensors>>
    BY <1>9 DEF RemoveNode, RemoveSensor, database
<1>10. (\E b \in Ticks : Tick(b)) \/ (\E b \in Unticks : Untick(b)) \/ EdtError \/ Restart
       => UNCHANGED <<nodes, sensors>>
    BY DEF Tick, Untick, EdtError, Restart, database
<1> QED
    BY <1>1, <1>2, <1>3, <1>4, <1>5, <1>6, <1>7, <1>8, <1>9, <1>10
    DEF Operator, EdtStep

\* The operator who only adds keeps what PanelOnlyAdds says.
LEMMA PanelStaysAdding ==
    ASSUME TypeOK, AddsInv, OnlyAdds, TablesGrow, [Next]_vars
    PROVE  PanelOnlyAdds' /\ (boxes["autoSensor"] => boxes'["autoSensor"] \/ Restart)
<1>0. /\ ignoreSensors = <<>> /\ edt.op \in {"idle", "addNode", "addSensor"}
      /\ "autoSensor" \in Boxes /\ boxes \in [Boxes -> BOOLEAN]
    BY DEF AddsInv, PanelOnlyAdds, TypeOK, PanelOK, Boxes
<1>1. CASE UNCHANGED panel
    BY <1>1 DEF panel, PanelOnlyAdds, AddsInv, TablesGrow
<1>2. ASSUME NEW i \in Ids, NEW a \in Addrs, AddNode(i, a)
      PROVE  PanelOnlyAdds' /\ UNCHANGED boxes
    BY <1>0, <1>2 DEF AddNode, Pending, PanelOnlyAdds
<1>3. ASSUME NEW i \in NodeNames, NEW t \in Types, AddSensor(i, t)
      PROVE  PanelOnlyAdds' /\ UNCHANGED boxes
    <2>1. i \in Ids => nodes[i] # <<>>
        BY <1>3, NamesAssumption DEF AddSensor, Selectable
    <2> QED BY <1>0, <1>3, <2>1 DEF AddSensor, Pending, PanelOnlyAdds, database
<1>4. CASE AddNodeInsert \/ EdtError \/ Restart
    BY <1>0, <1>4 DEF AddNodeInsert, EdtError, Restart, EdtIdle, PanelOnlyAdds
<1>5. CASE AddSensorInsert
    <2>1. Unignore(edt.id, edt.type) = <<>>
        BY <1>0, SelectInEmpty DEF Unignore
    <2> QED BY <1>0, <1>5, <2>1 DEF AddSensorInsert, EdtIdle, PanelOnlyAdds
<1>6. ASSUME NEW b \in Boxes, Tick(b) \/ (Untick(b) /\ b # "autoSensor")
      PROVE  PanelOnlyAdds' /\ (boxes["autoSensor"] => boxes'["autoSensor"])
    BY <1>0, <1>6 DEF Tick, Untick, PanelOnlyAdds, AddsInv, database
<1>7. ASSUME NEW i \in NodeNames, NEW ignore \in BOOLEAN
      PROVE  ~ RemoveNode(i, ignore)
             /\ \A t \in TypeNames : ~ RemoveSensor(i, t, ignore)
    BY DEF RemoveNode, RemoveSensor, Press, OnlyAdds, Removals
<1>8. ~ DeleteNode /\ ~ DeleteItsSensors /\ ~ DeleteSensor
    BY <1>0 DEF DeleteNode, DeleteItsSensors, DeleteSensor
<1>9. ASSUME NEW i \in NodeNames, NEW t \in Types, ResetCalibration(i, t)
      PROVE  UNCHANGED panel
    BY <1>9 DEF ResetCalibration
<1>10. ASSUME NEW i \in Ids, NEW a \in Addrs, SaveNodeAddress(i, a)
       PROVE  UNCHANGED panel
    BY <1>10 DEF SaveNodeAddress
<1>11. ASSUME NEW w \in Workers,
              \/ \E i \in Ids, t \in Types, v \in Values : Receive(w, i, t, v)
              \/ WorkerStep(w) \/ Post(w) \/ CallError(w)
       PROVE  UNCHANGED panel
    BY <1>11 DEF Receive, WorkerStep, NodeQuery, NodeUnknown, NodeScan,
           NodeInsert, SensorQuery, SensorUnknown, SensorAutoAdd, SensorScan,
           SensorInsert, CalibrateBox, CalibrationRead, WriteMin, WriteMax,
           WriteBoth, PauseCheck, ForwardRead, Post, CallError, DbError, GuiError
<1>12. CASE UNCHANGED vars
    BY <1>1, <1>12 DEF vars, panel
<1>13. CASE Operator
    BY <1>1, <1>2, <1>3, <1>6, <1>7, <1>9, <1>10, <1>13, OperatorAssumption
       DEF Operator, OnlyAdds, panel
<1>14. CASE EdtStep \/ EdtError \/ Restart
    BY <1>4, <1>5, <1>8, <1>14 DEF EdtStep, EdtError, Restart, AddNodeInsert,
                                   AddSensorInsert
<1> QED BY <1>1, <1>11, <1>12, <1>13, <1>14 DEF Next, panel

\* Where a call goes, it has found what it needs to have found.
Found(w, pc) ==
    /\ pc \in PastNode => nodes[call[w].id] # <<>>
    /\ pc \in PastSensor => sensors[<<call[w].id, call[w].type>>] # <<>>
    /\ pc = "sensorAutoAdd" => boxes["autoSensor"]
KeepsIdentity(w) ==
    call'[w].id = call[w].id /\ call'[w].type = call[w].type /\ call'[w].ret # "fault"
Started(w) == call'[w].pc = "sensorScan" => call'[w].pos # 0

\* A call that ends is still about the same sensor.
LEMMA FinishKeeps ==
    ASSUME call \in [Workers -> Call], NEW w \in Workers,
           NEW answer, NEW what, NEW row, Finish(w, answer, what, row)
    PROVE  /\ call'[w].id = call[w].id /\ call'[w].type = call[w].type
           /\ call'[w].pc = "idle" /\ call'[w].ret = answer
BY DEF Finish, Call

LEMMA StepFound ==
    ASSUME TypeOK, AddsInv, OnlyAdds, NEW w \in Workers,
           WorkerStep(w) \/ Post(w) \/ CallError(w)
    PROVE  KeepsIdentity(w) /\ Found(w, call'[w].pc) /\ Started(w)
<1>1. /\ call \in [Workers -> Call] /\ call[w] \in Call
      /\ Found(w, call[w].pc) /\ call[w].ret # "fault"
      /\ ignoreSensors = <<>> /\ Len(ignoreSensors) = 0
      /\ call[w].pc = "sensorScan" => call[w].pos # 0
      /\ "gui" \notin Faults
    BY DEF OnlyAdds, TypeOK, CallsOK, AddsInv, PanelOnlyAdds, WillAdd, Recognised, NoFault,
           Found, At
<1>2. ASSUME NEW step \in CallSteps, Goto(w, step) \/ Scan(w, step)
      PROVE  /\ KeepsIdentity(w) /\ call'[w].pc = step
             /\ Scan(w, step) => call'[w].pos # 0
    <2>1. CASE Goto(w, step)
        <3>1. Scan(w, step) => call'[w].pos = 1
            BY <1>1 DEF Scan, Call
        <3> QED BY <1>1, <2>1, <3>1 DEF Goto, KeepsIdentity, Call
    <2>2. CASE Scan(w, step)
        BY <1>1, <2>2 DEF Scan, KeepsIdentity, Call
    <2> QED BY <1>2, <2>1, <2>2
<1>3. ASSUME \/ Return(w, "false") \/ Delivered(w, "true") \/ Delivered(w, "false")
             \/ Registered(w, "node") \/ Registered(w, "sensor")
      PROVE  KeepsIdentity(w) /\ Found(w, call'[w].pc) /\ Started(w)
    <2>1. CASE Return(w, "false")
        BY <1>1, <2>1, FinishKeeps DEF Return, KeepsIdentity, Found, Started,
                                       PastNode, PastSensor
    <2>2. CASE Delivered(w, "true") \/ Delivered(w, "false")
        BY <1>1, <2>2, FinishKeeps DEF Delivered, KeepsIdentity, Found, Started,
                                       PastNode, PastSensor
    <2>3. CASE Registered(w, "node") \/ Registered(w, "sensor")
        BY <1>1, <2>3, FinishKeeps DEF Registered, KeepsIdentity, Found, Started,
                                       PastNode, PastSensor
    <2> QED BY <1>3, <2>1, <2>2, <2>3
<1> USE DEF At, PastNode, PastSensor, Started
<1>4. CASE NodeQuery(w)
    <2>1. /\ call'[w].pc = IF nodes[call[w].id] = <<>> THEN "nodeUnknown"
                                                       ELSE "sensorQuery"
          /\ KeepsIdentity(w)
        BY <1>1, <1>4 DEF NodeQuery, Call, KeepsIdentity
    <2> QED BY <2>1 DEF Found
<1>5. CASE NodeUnknown(w) \/ NodeScan(w) \/ NodeInsert(w)
    <2>1. "nodeScan" \in CallSteps /\ "nodeInsert" \in CallSteps
        BY DEF CallSteps, LocalSteps, DbSteps
    <2>2. CASE NodeUnknown(w)
        BY <1>2, <1>3, <2>1, <2>2 DEF NodeUnknown, Found
    <2>3. CASE NodeScan(w)
        <3>1. CASE ScanOn(w)
            BY <1>1, <2>3, <3>1 DEF NodeScan, ScanOn, KeepsIdentity, Call, Found
        <3> QED BY <1>2, <1>3, <2>1, <2>3, <3>1 DEF NodeScan, Found
    <2>4. CASE NodeInsert(w)
        BY <1>3, <2>4 DEF NodeInsert
    <2> QED BY <1>5, <2>2, <2>3, <2>4
<1>6. CASE SensorQuery(w) \/ SensorUnknown(w) \/ SensorAutoAdd(w)
    <2>1. "sensorUnknown" \in CallSteps /\ "calibrateBox" \in CallSteps
          /\ "sensorAutoAdd" \in CallSteps /\ "sensorScan" \in CallSteps
        BY DEF CallSteps, LocalSteps, DbSteps
    <2>2. CASE SensorQuery(w)
        BY <1>1, <1>2, <2>1, <2>2 DEF SensorQuery, Found
    <2>3. CASE SensorUnknown(w)
        BY <1>1, <1>2, <1>3, <2>1, <2>3 DEF SensorUnknown, Found
    <2>4. CASE SensorAutoAdd(w)
        BY <1>1, <1>2, <2>1, <2>4 DEF SensorAutoAdd, Found
    <2> QED BY <1>6, <2>2, <2>3, <2>4
<1>7. CASE SensorScan(w) \/ SensorInsert(w)
    <2>1. "sensorInsert" \in CallSteps
        BY DEF CallSteps, LocalSteps, DbSteps
    <2>2. CASE SensorScan(w)
        <3>1. call[w].pos > Len(ignoreSensors) /\ ~ (call[w].pos <= Len(ignoreSensors))
            BY <1>1, <2>2 DEF SensorScan, Call
        <3>2. Goto(w, "sensorInsert") /\ call[w].pc = "sensorScan"
            BY <2>2, <3>1 DEF SensorScan
        <3>3. KeepsIdentity(w) /\ call'[w].pc = "sensorInsert"
            BY <1>2, <2>1, <3>2
        <3> QED BY <1>1, <3>2, <3>3 DEF Found
    <2>3. CASE SensorInsert(w)
        BY <1>3, <2>3 DEF SensorInsert
    <2> QED BY <1>7, <2>2, <2>3
<1>8. CASE CalibrateBox(w) \/ PauseCheck(w)
    <2>1. "calibrationRead" \in CallSteps /\ "pauseCheck" \in CallSteps
          /\ "forwardRead" \in CallSteps
        BY DEF CallSteps, LocalSteps, DbSteps
    <2> QED BY <1>1, <1>2, <1>3, <1>8, <2>1 DEF CalibrateBox, PauseCheck, Found
<1>9. CASE CalibrationRead(w)
    <2>1. sensors[<<call[w].id, call[w].type>>] # <<>>
        BY <1>1, <1>9 DEF CalibrationRead, Found
    <2>2. nodes[call[w].id] # <<>>
        BY <1>1, <1>9 DEF CalibrationRead, Found
    <2> QED BY <1>1, <1>9, <2>1, <2>2
            DEF CalibrationRead, UpdateFor, Call, KeepsIdentity, Found
<1>10. CASE WriteMin(w) \/ WriteMax(w) \/ WriteBoth(w)
    <2>1. "writeMax" \in CallSteps /\ "pauseCheck" \in CallSteps
        BY DEF CallSteps, LocalSteps, DbSteps
    <2> QED BY <1>1, <1>2, <1>10, <2>1 DEF WriteMin, WriteMax, WriteBoth, Found
<1>11. CASE ForwardRead(w)
    BY <1>1, <1>11 DEF ForwardRead, Call, KeepsIdentity, Found
<1>12. CASE Post(w) \/ CallError(w)
    BY <1>1, <1>3, <1>12 DEF Post, CallError, DbError, GuiError
<1> QED BY <1>4, <1>5, <1>6, <1>7, <1>8, <1>9, <1>10, <1>11, <1>12 DEF WorkerStep

LEMMA AddsInvStep ==
    ASSUME TypeOK, TypeOK', AddsInv, OnlyAdds, [Next]_vars
    PROVE  AddsInv'
<1>1. TablesGrow
    <2>1. CASE UNCHANGED vars
        BY <2>1 DEF vars, TablesGrow
    <2> QED BY <2>1, CallsGrow, PanelGrows DEF Next
<1>2. PanelOnlyAdds' /\ (boxes["autoSensor"] => boxes'["autoSensor"] \/ Restart)
    BY <1>1, PanelStaysAdding
<1>3. NoOrphanSensors'
    BY <1>1 DEF AddsInv, NoOrphanSensors, TablesGrow
<1> DEFINE Fine(w) ==
              /\ call[w].pc \in PastNode => nodes[call[w].id] # <<>>
              /\ call[w].pc \in PastSensor => sensors[<<call[w].id, call[w].type>>] # <<>>
              /\ call[w].pc = "sensorAutoAdd" => boxes["autoSensor"]
              /\ call[w].pc = "sensorScan" => call[w].pos # 0
              /\ call[w].ret # "fault"
<1>4. /\ call \in [Workers -> Call]
      /\ \A w \in Workers :
            /\ Fine(w)
            /\ call[w].pc # "idle" =>
                  call[w].id \in Ids /\ <<call[w].id, call[w].type>> \in NodeNames \X Types
            /\ call[w].pc \in PastSensor \cup PastNode => call[w].pc # "idle"
    BY DEF TypeOK, CallsOK, InProgress, AddsInv, WillAdd, Recognised, NoFault, At,
           PastNode, PastSensor, NodeNames
<1>5. ASSUME NEW w \in Workers, UNCHANGED call[w], ~ Restart
      PROVE  Fine(w)'
    BY <1>1, <1>2, <1>4, <1>5 DEF TablesGrow
<1>6. ASSUME NEW w \in Workers, WorkerStep(w) \/ Post(w) \/ CallError(w), ~ Restart
      PROVE  Fine(w)'
    <2>1. KeepsIdentity(w) /\ Found(w, call'[w].pc) /\ Started(w)
        BY <1>6, StepFound
    <2>2. call[w].pc # "idle"
        BY <1>6, StepShape
    <2>3. /\ nodes[call[w].id] # <<>> => nodes'[call'[w].id] # <<>>
          /\ sensors[<<call[w].id, call[w].type>>] # <<>> =>
                sensors'[<<call'[w].id, call'[w].type>>] # <<>>
        BY <1>1, <1>4, <2>1, <2>2 DEF KeepsIdentity, TablesGrow
    <2> QED BY <1>2, <1>6, <2>1, <2>3 DEF KeepsIdentity, Found, Started
<1>7. ASSUME NEW w \in Workers,
             \E i \in Ids, t \in Types, v \in Values : Receive(w, i, t, v)
      PROVE  Fine(w)'
    <2>1. call'[w].pc = "nodeQuery" /\ call'[w].ret = "none"
        BY <1>4, <1>7 DEF Receive, NoCall
    <2> QED BY <2>1 DEF PastNode, PastSensor
<1>8. \A w \in Workers : Fine(w)'
    <2>1. CASE Restart
        BY <2>1 DEF Restart, NoCall, PastNode, PastSensor
    <2>2. CASE UNCHANGED call /\ ~ Restart
        BY <1>5, <2>2
    <2>3. ASSUME NEW w \in Workers, ~ Restart,
                 \/ \E i \in Ids, t \in Types, v \in Values : Receive(w, i, t, v)
                 \/ WorkerStep(w) \/ Post(w) \/ CallError(w)
          PROVE  \A u \in Workers : Fine(u)'
        <3>1. \A u \in Workers \ {w} : call'[u] = call[u]
            <4>1. CASE \E i \in Ids, t \in Types, v \in Values : Receive(w, i, t, v)
                BY <1>4, <4>1 DEF Receive
            <4>2. CASE WorkerStep(w) \/ Post(w) \/ CallError(w)
                BY <4>2, StepShape
            <4> QED BY <2>3, <4>1, <4>2
        <3>2. Fine(w)'
            BY <1>6, <1>7, <2>3
        <3>3. \A u \in Workers \ {w} : Fine(u)'
            BY <1>5, <2>3, <3>1
        <3> QED BY <3>2, <3>3
    <2> QED BY <2>1, <2>2, <2>3, PanelLeavesCalls DEF Next, vars
<1>9. WillAdd' /\ Recognised' /\ NoFault'
    BY <1>8 DEF WillAdd, Recognised, NoFault, At
<1> QED BY <1>2, <1>3, <1>9 DEF AddsInv

LEMMA AddsInvInit == TypeOK /\ Init => AddsInv
<1> SUFFICES ASSUME TypeOK, Init PROVE AddsInv
    OBVIOUS
<1>1. PanelOnlyAdds
    BY DEF Init, PanelOnlyAdds, EdtIdle
<1>2. WillAdd /\ Recognised /\ NoFault
    BY DEF Init, NoCall, WillAdd, Recognised, NoFault, At, PastNode, PastSensor
<1>3. NoOrphanSensors
    BY DEF Init, NoOrphanSensors, NodeNames
<1> QED BY <1>1, <1>2, <1>3 DEF AddsInv

\* The invariant holds for an operator who only adds and a GUI that does not fail.
LEMMA AddsCorrect == ASSUME OnlyAdds PROVE Spec => []AddsInv
<1>1. Init => AddsInv
    BY InitType, AddsInvInit
<1>2. TypeOK /\ TypeOK' /\ AddsInv /\ [Next]_vars => AddsInv'
    BY AddsInvStep
<1> QED BY <1>1, <1>2, TypeCorrect, PTL DEF Spec

\* With such an operator and such a GUI the node that NodeQuery found and the
\* sensor that SensorQuery found stay in the tables until the call ends, in any
\* interleaving with other calls and with the buttons.
THEOREM RecognisedCorrect == ASSUME OnlyAdds PROVE Spec => []Recognised
<1>1. AddsInv => Recognised
    BY DEF AddsInv
<1> QED BY <1>1, AddsCorrect, PTL

\* ... so sensed inserts a sensor only for a node that is still there: at every
\* moment, and not only at rest, a sensor row has its node.
THEOREM NoOrphansCorrect == ASSUME OnlyAdds PROVE Spec => []NoOrphanSensors
<1>1. AddsInv => NoOrphanSensors
    BY DEF AddsInv
<1> QED BY <1>1, AddsCorrect, PTL

\* ... and no call ends in an unchecked exception: min.get(0), in sensed and in
\* HTTPPOSTForward, finds a row, and the ignore lists hold no null.
THEOREM NoFaultCorrect == ASSUME OnlyAdds PROVE Spec => []NoFault
<1>1. AddsInv => NoFault
    BY DEF AddsInv
<1> QED BY <1>1, AddsCorrect, PTL

-----------------------------------------------------------------------------
(***************************************************************************)
(* Calibration.  With unique keys a sensor has one row, the first, and a   *)
(* step does one of five things to it.                                     *)
(***************************************************************************)
Called(w) == <<call[w].id, call[w].type>>
Writing == {"writeMin", "writeMax", "writeBoth"}
OneRow == \A d \in NodeNames \X Types : DOMAIN sensors[d] \subseteq {1}

SameRows(d) == sensors'[d] = sensors[d]
RowsGone(d) == sensors'[d] = <<>> /\ edt.op \in {"removeItsSensors", "removeSensor"}
RowsNew(d) == sensors[d] = <<>> /\ sensors'[d] = <<Uncalibrated>>
RowsReset(d) ==
    /\ "reset" \in Ops
    /\ DOMAIN sensors'[d] = DOMAIN sensors[d]
    /\ \A k \in DOMAIN sensors[d] : sensors'[d][k] = Uncalibrated
RowsWritten(w, d) ==
    /\ d = Called(w)
    /\ DOMAIN sensors'[d] = DOMAIN sensors[d]
    /\ \A k \in DOMAIN sensors[d] :
          \/ WriteMin(w) /\ sensors'[d][k] = [sensors[d][k] EXCEPT !.min = call[w].value]
          \/ WriteMax(w) /\ sensors'[d][k] = [sensors[d][k] EXCEPT !.max = call[w].value]
          \/ WriteBoth(w) /\ sensors'[d][k] = [min |-> call[w].value, max |-> call[w].value]
RowsStep(d) ==
    \/ SameRows(d) \/ RowsGone(d) \/ RowsNew(d) \/ RowsReset(d)
    \/ \E w \in Workers : RowsWritten(w, d)

\* The statements of the calls.
LEMMA CallsRows ==
    ASSUME TypeOK, UniqueKeys, NEW d \in NodeNames \X Types, NEW w \in Workers,
           \/ \E i \in Ids, t \in Types, v \in Values : Receive(w, i, t, v)
           \/ WorkerStep(w) \/ Post(w) \/ CallError(w)
    PROVE  RowsStep(d)
<1>1. /\ sensors \in [NodeNames \X Types -> Seq(Row)] /\ sensors[d] \in Seq(Row)
      /\ call[w].pc # "idle" => Called(w) \in NodeNames \X Types
    BY DEF TypeOK, TablesOK, CallsOK, InProgress, NodeNames, Called
<1>2. CASE UNCHANGED sensors
    BY <1>2 DEF RowsStep, SameRows
<1>3. CASE SensorInsert(w)
    <2>1. Called(w) \in NodeNames \X Types
        BY <1>1, <1>3 DEF SensorInsert, At
    <2>2. CASE sensors' = [sensors EXCEPT ![Called(w)] = Append(@, Uncalibrated)]
               /\ sensors[Called(w)] = <<>>
        BY <1>1, <2>1, <2>2 DEF RowsStep, RowsNew, SameRows
    <2> QED BY <1>2, <1>3, <2>2 DEF SensorInsert, CanInsert, Called
<1>4. CASE WriteMin(w) \/ WriteMax(w) \/ WriteBoth(w)
    <2>1. Called(w) \in NodeNames \X Types
        BY <1>1, <1>4 DEF WriteMin, WriteMax, WriteBoth, At
    <2>2. CASE d # Called(w)
        BY <1>1, <1>4, <2>1, <2>2
        DEF WriteMin, WriteMax, WriteBoth, Update, Called, RowsStep, SameRows
    <2>3. CASE d = Called(w)
        <3>1. DOMAIN sensors[d] = 1 .. Len(sensors[d])
            BY <1>1, LenProperties
        <3>2. CASE WriteMin(w)
            BY <1>1, <2>3, <3>1, <3>2
            DEF WriteMin, Update, Called, RowsStep, RowsWritten
        <3>3. CASE WriteMax(w)
            BY <1>1, <2>3, <3>1, <3>3
            DEF WriteMax, Update, Called, RowsStep, RowsWritten
        <3>4. CASE WriteBoth(w)
            BY <1>1, <2>3, <3>1, <3>4
            DEF WriteBoth, Update, Called, RowsStep, RowsWritten
        <3> QED BY <1>4, <3>2, <3>3, <3>4
    <2> QED BY <2>2, <2>3
<1>5. CASE NodeInsert(w)
    BY <1>2, <1>5 DEF NodeInsert
<1> QED BY <1>2, <1>3, <1>4, <1>5, NoWrite DEF WorkerStep

\* The statements of the event thread.
LEMMA PanelRows ==
    ASSUME TypeOK, UniqueKeys, NEW d \in NodeNames \X Types,
           Operator \/ EdtStep \/ EdtError \/ Restart
    PROVE  RowsStep(d)
<1>1. sensors \in [NodeNames \X Types -> Seq(Row)] /\ sensors[d] \in Seq(Row)
    BY DEF TypeOK, TablesOK
<1>2. CASE UNCHANGED sensors
    BY <1>2 DEF RowsStep, SameRows
<1>3. CASE AddSensorInsert
    <2>1. <<edt.id, edt.type>> \in NodeNames \X Types
        BY <1>3 DEF AddSensorInsert, TypeOK, PanelOK
    <2>2. CASE sensors' = [sensors EXCEPT ![<<edt.id, edt.type>>] = Append(@, Uncalibrated)]
               /\ sensors[<<edt.id, edt.type>>] = <<>>
        <3>1. PICK e \in NodeNames \X Types : e = <<edt.id, edt.type>>
            BY <2>1
        <3>2. sensors' = [sensors EXCEPT ![e] = Append(@, Uncalibrated)] /\ sensors[e] = <<>>
            BY <2>2, <3>1
        <3>3. sensors'[e] = <<Uncalibrated>> /\ (d # e => sensors'[d] = sensors[d])
            BY <1>1, <3>2
        <3> QED BY <3>2, <3>3 DEF RowsStep, RowsNew, SameRows
    <2> QED BY <1>2, <1>3, <2>2 DEF AddSensorInsert, CanInsert
<1>4. CASE DeleteItsSensors \/ DeleteSensor
    BY <1>1, <1>4 DEF DeleteItsSensors, DeleteSensor, RowsStep, RowsGone, SameRows
<1>5. ASSUME NEW i \in NodeNames, NEW t \in Types, ResetCalibration(i, t)
      PROVE  RowsStep(d)
    <2>1. CASE d # <<i, t>>
        BY <1>1, <1>5, <2>1 DEF ResetCalibration, Update, RowsStep, SameRows
    <2>2. CASE d = <<i, t>>
        <3>1. DOMAIN sensors[d] = 1 .. Len(sensors[d])
            BY <1>1, LenProperties
        <3>2. sensors'[d] = [k \in 1 .. Len(sensors[d]) |-> Uncalibrated]
            BY <1>1, <1>5, <2>2 DEF ResetCalibration, Update
        <3>3. "reset" \in Ops
            BY <1>5 DEF ResetCalibration, Press
        <3> QED BY <3>1, <3>2, <3>3 DEF RowsStep, RowsReset
    <2> QED BY <2>1, <2>2
<1>6. CASE AddNodeInsert \/ DeleteNode \/ EdtError \/ Restart
    BY <1>2, <1>6 DEF AddNodeInsert, DeleteNode, EdtError, Restart, database
<1>7. CASE Operator /\ ~ \E i \in NodeNames, t \in Types : ResetCalibration(i, t)
    <2>1. UNCHANGED sensors
        BY <1>7 DEF Operator, AddNode, SaveNodeAddress, AddSensor, RemoveNode,
                    RemoveSensor, Tick, Untick, database
    <2> QED BY <1>2, <2>1
<1> QED BY <1>3, <1>4, <1>5, <1>6, <1>7 DEF EdtStep

LEMMA RowsOfStep ==
    ASSUME TypeOK, UniqueKeys, [Next]_vars, NEW d \in NodeNames \X Types
    PROVE  RowsStep(d)
<1>1. CASE UNCHANGED vars
    BY <1>1 DEF vars, RowsStep, SameRows
<1> QED BY <1>1, CallsRows, PanelRows DEF Next

LEMMA OneRowStep ==
    ASSUME TypeOK, UniqueKeys, OneRow, [Next]_vars
    PROVE  OneRow'
<1>1. ASSUME NEW d \in NodeNames \X Types PROVE DOMAIN sensors'[d] \subseteq {1}
    <2>1. RowsStep(d) /\ DOMAIN sensors[d] \subseteq {1}
        BY RowsOfStep DEF OneRow
    <2>2. CASE RowsGone(d) \/ RowsNew(d)
        BY <2>2 DEF RowsGone, RowsNew
    <2> QED BY <2>1, <2>2 DEF RowsStep, SameRows, RowsReset, RowsWritten
<1> QED BY <1>1 DEF OneRow

\* How a call comes to be about to write: it has read the row, or it has written
\* min and max is left to write.
KeepsReading(w) ==
    /\ call'[w].id = call[w].id /\ call'[w].type = call[w].type
    /\ call'[w].value = call[w].value
HasRead(w) ==
    LET rows == sensors[Called(w)]
    IN  /\ At(w, "calibrationRead") /\ KeepsReading(w)
        /\ rows # <<>> /\ call'[w].seen = rows[1]
        /\ call'[w].pc = UpdateFor(rows[1], call[w].value)
        /\ UNCHANGED sensors
HasWrittenMin(w) ==
    /\ WriteMin(w) /\ KeepsReading(w) /\ call'[w].seen = call[w].seen
    /\ call'[w].pc = "writeMax" /\ call[w].value > call[w].seen.max

LEMMA WritingStep ==
    ASSUME TypeOK, [Next]_vars, NEW w \in Workers, call'[w].pc \in Writing
    PROVE  call'[w] = call[w] \/ HasRead(w) \/ HasWrittenMin(w)
<1>1. call \in [Workers -> Call] /\ call[w] \in Call
    BY DEF TypeOK, CallsOK
<1>2. CASE UNCHANGED call
    BY <1>2
<1>3. ~ Restart
    BY DEF Restart, NoCall, Writing
<1>4. ASSUME NEW u \in Workers,
             \E i \in Ids, t \in Types, v \in Values : Receive(u, i, t, v)
      PROVE  call'[w] = call[w]
    BY <1>1, <1>4 DEF Receive, NoCall, Writing
<1>5. ASSUME NEW u \in Workers, u # w, WorkerStep(u) \/ Post(u) \/ CallError(u)
      PROVE  call'[w] = call[w]
    BY <1>5, StepShape
<1>6. ASSUME WorkerStep(w) \/ Post(w) \/ CallError(w)
      PROVE  HasRead(w) \/ HasWrittenMin(w)
    <2>1. ASSUME NEW step, Goto(w, step) \/ Scan(w, step) PROVE step \in Writing
        <3>1. CASE Goto(w, step)
            BY <1>1, <3>1 DEF Goto, Call
        <3>2. CASE Scan(w, step)
            BY <1>1, <3>2 DEF Scan, Call
        <3> QED BY <2>1, <3>1, <3>2
    <2>2. ASSUME NEW answer, NEW what, NEW row PROVE ~ Finish(w, answer, what, row)
        BY <1>1, FinishKeeps DEF Writing
    <2>3. /\ \A answer : ~ Return(w, answer) /\ ~ Delivered(w, answer)
          /\ \A what : ~ Registered(w, what)
        BY <2>2 DEF Return, Delivered, Registered
    <2>4. ASSUME ScanOn(w) PROVE call[w].pc \in Writing
        BY <1>1, <2>4 DEF ScanOn
    <2>5. CASE CalibrationRead(w)
        <3>1. call' = [call EXCEPT ![w].seen = sensors[Called(w)][1],
                     ![w].pc = UpdateFor(sensors[Called(w)][1], call[w].value)]
              /\ sensors[Called(w)] # <<>> /\ At(w, "calibrationRead") /\ UNCHANGED sensors
            BY <2>3, <2>5 DEF CalibrationRead, Called, database
        <3> QED BY <1>1, <3>1 DEF HasRead, KeepsReading, Call
    <2>6. CASE WriteMin(w)
        <3>1. Goto(w, "writeMax") /\ call[w].value > call[w].seen.max
            BY <2>1, <2>6 DEF WriteMin, Writing
        <3> QED BY <1>1, <2>6, <3>1 DEF HasWrittenMin, KeepsReading, Goto, Call
    <2>7. ~ WriteMax(w) /\ ~ WriteBoth(w) /\ ~ CalibrateBox(w) /\ ~ PauseCheck(w)
        <3>1. ~ Goto(w, "pauseCheck") /\ ~ Goto(w, "calibrationRead") /\ ~ Goto(w, "forwardRead")
            BY <2>1 DEF Writing
        <3>2. ~ CalibrateBox(w)
            BY <3>1 DEF CalibrateBox
        <3> QED BY <2>3, <3>1, <3>2 DEF WriteMax, WriteBoth, PauseCheck
    <2>8. ~ NodeQuery(w) /\ ~ ForwardRead(w)
        BY <1>1, <2>3 DEF NodeQuery, ForwardRead, Writing, Call
    <2>9. ~ NodeUnknown(w) /\ ~ NodeInsert(w) /\ ~ SensorInsert(w)
        BY <2>1, <2>3 DEF NodeUnknown, NodeInsert, SensorInsert, Writing
    <2>10. ~ SensorQuery(w) /\ ~ SensorUnknown(w) /\ ~ SensorAutoAdd(w)
        BY <2>1, <2>3 DEF SensorQuery, SensorUnknown, SensorAutoAdd, Writing
    <2>11. ~ NodeScan(w) /\ ~ SensorScan(w)
        BY <2>1, <2>3, <2>4 DEF NodeScan, SensorScan, At, Writing
    <2>12. ~ Post(w) /\ ~ CallError(w)
        BY <2>3 DEF Post, CallError, DbError, GuiError
    <2> QED BY <1>6, <2>5, <2>6, <2>7, <2>8, <2>9, <2>10, <2>11, <2>12 DEF WorkerStep
<1> QED BY <1>2, <1>3, <1>4, <1>5, <1>6, PanelLeavesCalls DEF Next, vars

\* A reading is an int, and no null.
LEMMA ValueIsInt == \A v \in Values : v \in Int /\ v # Null
<1>1. JavaInt \subseteq Int
    BY HalfAssumption DEF JavaInt
<1> QED BY <1>1, ValuesAssumption, NullAssumption

\* What a call is about to write is a reading, to the rows of a sensor.
LEMMA WritingReading ==
    ASSUME TypeOK, NEW w \in Workers, call[w].pc \in Writing
    PROVE  /\ Called(w) \in NodeNames \X Types
           /\ call[w].value \in Int /\ call[w].value # Null /\ call[w].seen \in Row
<1>1. call[w].id \in Ids /\ call[w].type \in Types /\ call[w].value \in Values
      /\ call[w].seen \in Row
    BY DEF TypeOK, CallsOK, InProgress, Writing, Call
<1>2. Called(w) \in NodeNames \X Types
    BY <1>1 DEF Called, NodeNames
<1> QED BY <1>1, <1>2, ValueIsInt

\* The first of the rows of a sensor, if it has one.
LEMMA FirstRow ==
    ASSUME TypeOK, NEW d \in NodeNames \X Types
    PROVE  /\ sensors[d] \in Seq(Row)
           /\ 1 \in DOMAIN sensors[d] => sensors[d][1] \in Row
           /\ sensors[d] # <<>> => 1 \in DOMAIN sensors[d]
<1>1. sensors[d] \in Seq(Row)
    BY DEF TypeOK, TablesOK
<1> QED BY <1>1, EmptySeq, LenProperties

(***************************************************************************)
(* A row has both of min and max, or none, as long as nothing is reset or  *)
(* removed: a call that is about to write one of them has seen both, and   *)
(* no statement of another call takes them away.                           *)
(***************************************************************************)
OnlyCalibrates == UniqueKeys /\ Ops \cap (Removals \cup {"reset"}) = {}

StillCalibrated(w) ==
    call[w].pc \in {"writeMin", "writeMax"} =>
        1 \in DOMAIN sensors[Called(w)] /\ Calibrated(sensors[Called(w)][1])
WholeInv ==
    /\ OneRow /\ NoHalfCalibration
    /\ edt.op \in {"idle", "addNode", "addSensor"}
    /\ \A w \in Workers : StillCalibrated(w)

LEMMA EdtAdds ==
    ASSUME Ops \cap Removals = {}, edt.op \in {"idle", "addNode", "addSensor"}, [Next]_vars
    PROVE  edt'.op \in {"idle", "addNode", "addSensor"}
<1>1. CASE UNCHANGED edt
    BY <1>1
<1>2. ASSUME NEW w \in Workers,
             \/ \E i \in Ids, t \in Types, v \in Values : Receive(w, i, t, v)
             \/ WorkerStep(w) \/ Post(w) \/ CallError(w)
      PROVE  UNCHANGED edt
    BY <1>2 DEF Receive, WorkerStep, NodeQuery, NodeUnknown, NodeScan,
           NodeInsert, SensorQuery, SensorUnknown, SensorAutoAdd, SensorScan,
           SensorInsert, CalibrateBox, CalibrationRead, WriteMin, WriteMax,
           WriteBoth, PauseCheck, ForwardRead, Post, CallError, DbError, GuiError, panel
<1>3. CASE Operator
    <2>1. ASSUME NEW i \in NodeNames, NEW ignore \in BOOLEAN
          PROVE  ~ RemoveNode(i, ignore)
                 /\ \A t \in TypeNames : ~ RemoveSensor(i, t, ignore)
        BY DEF RemoveNode, RemoveSensor, Press, Removals
    <2>2. \A i \in Ids, a \in Addrs : AddNode(i, a) => edt'.op = "addNode"
        BY DEF AddNode, Pending
    <2>3. \A i \in NodeNames, t \in Types : AddSensor(i, t) => edt'.op = "addSensor"
        BY DEF AddSensor, Pending
    <2>4. /\ \A i \in Ids, a \in Addrs : SaveNodeAddress(i, a) => UNCHANGED edt
          /\ \A i \in NodeNames, t \in Types : ResetCalibration(i, t) => UNCHANGED edt
          /\ \A b : Tick(b) \/ Untick(b) => UNCHANGED edt
        BY DEF SaveNodeAddress, ResetCalibration, Tick, Untick, panel
    <2> QED BY <1>1, <1>3, <2>1, <2>2, <2>3, <2>4 DEF Operator
<1>4. CASE EdtStep
    BY <1>4 DEF EdtStep, AddNodeInsert, AddSensorInsert, DeleteNode,
                DeleteItsSensors, DeleteSensor, EdtIdle
<1>5. CASE EdtError \/ Restart
    BY <1>5 DEF EdtError, Restart, EdtIdle
<1> QED BY <1>1, <1>2, <1>3, <1>4, <1>5 DEF Next, vars

LEMMA WholeRows ==
    ASSUME TypeOK, TypeOK', WholeInv, OnlyCalibrates, [Next]_vars, NEW d \in NodeNames \X Types
    PROVE  /\ 1 \in DOMAIN sensors[d] => 1 \in DOMAIN sensors'[d]
           /\ 1 \in DOMAIN sensors[d] /\ Calibrated(sensors[d][1]) => Calibrated(sensors'[d][1])
           /\ \A k \in DOMAIN sensors'[d] :
                  (sensors'[d][k].min = Null) <=> (sensors'[d][k].max = Null)
<1>1. /\ \A k \in DOMAIN sensors[d] :
            (sensors[d][k].min = Null) <=> (sensors[d][k].max = Null)
      /\ DOMAIN sensors[d] \subseteq {1}
      /\ sensors[d] \in Seq(Row) /\ (1 \in DOMAIN sensors[d] => sensors[d][1] \in Row)
    BY FirstRow DEF WholeInv, NoHalfCalibration, OneRow
<1>2. CASE SameRows(d)
    BY <1>1, <1>2 DEF SameRows
<1>3. ~ RowsGone(d) /\ ~ RowsReset(d)
    BY DEF RowsGone, RowsReset, WholeInv, OnlyCalibrates
<1>4. CASE RowsNew(d)
    <2>1. DOMAIN sensors[d] = {} /\ DOMAIN sensors'[d] = {1} /\ sensors'[d][1] = Uncalibrated
        BY <1>4 DEF RowsNew
    <2> QED BY <2>1 DEF Uncalibrated
<1>5. ASSUME NEW w \in Workers, RowsWritten(w, d), 1 \in DOMAIN sensors[d]
      PROVE  sensors'[d][1].min # Null /\ sensors'[d][1].max # Null
    <2>1. PICK r \in Row : r = sensors[d][1]
        BY <1>1, <1>5
    <2>2. CASE WriteMin(w) /\ sensors'[d][1] = [r EXCEPT !.min = call[w].value]
        <3>1. call[w].value # Null /\ Calibrated(r)
            BY <1>5, <2>1, <2>2, WritingReading
            DEF RowsWritten, WholeInv, StillCalibrated, WriteMin, At, Writing
        <3> QED BY <2>2, <3>1 DEF Calibrated, Row
    <2>3. CASE WriteMax(w) /\ sensors'[d][1] = [r EXCEPT !.max = call[w].value]
        <3>1. call[w].value # Null /\ Calibrated(r)
            BY <1>5, <2>1, <2>3, WritingReading
            DEF RowsWritten, WholeInv, StillCalibrated, WriteMax, At, Writing
        <3> QED BY <2>3, <3>1 DEF Calibrated, Row
    <2>4. CASE WriteBoth(w) /\ sensors'[d][1] = [min |-> call[w].value, max |-> call[w].value]
        <3>1. call[w].value # Null
            BY <2>4, WritingReading DEF WriteBoth, At, Writing
        <3> QED BY <2>4, <3>1
    <2> QED BY <1>5, <2>1, <2>2, <2>3, <2>4 DEF RowsWritten
<1>6. ASSUME NEW w \in Workers, RowsWritten(w, d)
      PROVE  DOMAIN sensors'[d] = DOMAIN sensors[d]
    BY <1>6 DEF RowsWritten
<1>7. CASE \E w \in Workers : RowsWritten(w, d)
    BY <1>1, <1>5, <1>6, <1>7 DEF Calibrated
<1> QED BY <1>2, <1>3, <1>4, <1>7, RowsOfStep DEF RowsStep, OnlyCalibrates

LEMMA WholeStep ==
    ASSUME TypeOK, TypeOK', WholeInv, OnlyCalibrates, [Next]_vars
    PROVE  WholeInv'
<1>1. OneRow' /\ edt'.op \in {"idle", "addNode", "addSensor"}
    BY OneRowStep, EdtAdds DEF WholeInv, OnlyCalibrates
<1>2. NoHalfCalibration'
    BY WholeRows DEF NoHalfCalibration
<1>3. ASSUME NEW w \in Workers, call'[w].pc \in {"writeMin", "writeMax"}
      PROVE  1 \in DOMAIN sensors'[Called(w)'] /\ Calibrated(sensors'[Called(w)'][1])
    <2>0. call'[w].pc \in Writing
        BY <1>3 DEF Writing
    <2>1. CASE call'[w] = call[w] \/ HasWrittenMin(w)
        <3>1. Called(w)' = Called(w) /\ call[w].pc \in {"writeMin", "writeMax"}
            BY <1>3, <2>1 DEF Called, HasWrittenMin, KeepsReading, WriteMin, At
        <3>2. Called(w) \in NodeNames \X Types
            BY <3>1, WritingReading DEF Writing
        <3>3. 1 \in DOMAIN sensors[Called(w)] /\ Calibrated(sensors[Called(w)][1])
            BY <3>1 DEF WholeInv, StillCalibrated
        <3> QED BY <3>1, <3>2, <3>3, WholeRows
    <2>2. CASE HasRead(w)
        <3>1. Called(w)' = Called(w) /\ sensors' = sensors
            BY <2>2 DEF Called, HasRead, KeepsReading
        <3>2. Called(w) \in NodeNames \X Types
            BY <2>2 DEF HasRead, At, Called, TypeOK, CallsOK, InProgress, NodeNames
        <3>3. sensors[Called(w)] # <<>> /\ Calibrated(sensors[Called(w)][1])
            BY <1>3, <2>2 DEF HasRead, UpdateFor
        <3> QED BY <3>1, <3>2, <3>3, FirstRow
    <2> QED BY <2>0, <2>1, <2>2, WritingStep
<1> QED BY <1>1, <1>2, <1>3 DEF WholeInv, StillCalibrated

\* The rows that an earlier session left.
LEMMA InitRows ==
    ASSUME Init
    PROVE  OneRow /\ NoHalfCalibration /\ \A w \in Workers : call[w].pc = "idle"
<1>1. ASSUME NEW d \in NodeNames \X Types
      PROVE  sensors[d] = <<>> \/ \E r \in LeftBehind : sensors[d] = <<r>>
    BY DEF Init
<1>2. \A r \in LeftBehind : (r.min = Null) <=> (r.max = Null)
    BY ValueIsInt DEF LeftBehind, Uncalibrated
<1>3. OneRow /\ NoHalfCalibration
    BY <1>1, <1>2 DEF OneRow, NoHalfCalibration
<1> QED BY <1>3 DEF Init, NoCall

(***************************************************************************)
(* NoHalfCalibration: for any number of threads, and whatever the database *)
(* and the GUI do to the calls, min and max are set together if the tables *)
(* have unique keys and the operator resets and removes nothing.           *)
(***************************************************************************)
THEOREM WholeCorrect == ASSUME OnlyCalibrates PROVE Spec => []NoHalfCalibration
<1>1. Init => WholeInv
    <2> SUFFICES ASSUME Init PROVE WholeInv
        OBVIOUS
    <2>1. edt.op = "idle"
        BY DEF Init, EdtIdle
    <2> QED BY <2>1, InitRows DEF WholeInv, StillCalibrated
<1>2. TypeOK /\ TypeOK' /\ WholeInv /\ [Next]_vars => WholeInv'
    BY WholeStep
<1>3. WholeInv => NoHalfCalibration
    BY DEF WholeInv
<1> QED BY <1>1, <1>2, <1>3, TypeCorrect, PTL DEF Spec

(***************************************************************************)
(* One thread alone widens the range of a sensor, even if the operator     *)
(* resets it, or removes and adds it again, between the read and the       *)
(* write: what the thread has seen in the row is still there, or null.     *)
(***************************************************************************)
SoleCaller == UniqueKeys /\ \A u, w \in Workers : u = w

Wider(c) ==
    /\ c.pc = "writeMin" => Calibrated(c.seen) /\ c.value < c.seen.min
    /\ c.pc = "writeMax" => Calibrated(c.seen) /\ c.value > c.seen.max
    /\ c.pc = "writeBoth" => c.seen = Uncalibrated
AsSeen(c, r) ==
    /\ c.pc # "writeMax" => r.min \in {c.seen.min, Null}
    /\ r.max \in {c.seen.max, Null}
SeenInv(w) ==
    call[w].pc \in Writing =>
        /\ Wider(call[w])
        /\ 1 \in DOMAIN sensors[Called(w)] => AsSeen(call[w], sensors[Called(w)][1])
WidensInv == OneRow /\ \A w \in Workers : SeenInv(w)

\* A row that a call writes was as the call has seen it, and is wider then.
LEMMA WrittenWidens ==
    ASSUME TypeOK, WidensInv, NEW d \in NodeNames \X Types, NEW w \in Workers,
           RowsWritten(w, d), 1 \in DOMAIN sensors[d]
    PROVE  Widens(sensors[d][1], sensors'[d][1])
<1>1. /\ WriteMin(w) => call[w].pc = "writeMin"
      /\ WriteMax(w) => call[w].pc = "writeMax"
      /\ WriteBoth(w) => call[w].pc = "writeBoth"
    BY DEF WriteMin, WriteMax, WriteBoth, At
<1>2. PICK r \in Row : r = sensors[d][1]
    BY FirstRow
<1>3. PICK c \in Call : c = call[w]
    BY DEF TypeOK, CallsOK
<1>4. c.pc \in Writing
    BY <1>1, <1>3 DEF RowsWritten, Writing
<1>5. c.value \in Int /\ c.value # Null /\ c.seen \in Row /\ Wider(c) /\ AsSeen(c, r)
    BY <1>2, <1>3, <1>4, WritingReading DEF WidensInv, SeenInv, RowsWritten
<1>6. /\ c.seen.min # Null => c.seen.min \in Int
      /\ c.seen.max # Null => c.seen.max \in Int
    <2>1. JavaInt \subseteq Int
        BY HalfAssumption DEF JavaInt
    <2> QED BY <1>5, <2>1 DEF Row, Bound
<1>7. CASE WriteMin(w) /\ sensors'[d][1] = [r EXCEPT !.min = c.value]
    <2>1. PICK s : s = [r EXCEPT !.min = c.value]
        OBVIOUS
    <2>2. s.min = c.value /\ s.max = r.max
        BY <2>1 DEF Row
    <2>3. c.value < c.seen.min /\ c.seen.min # Null /\ r.min \in {c.seen.min, Null}
        BY <1>1, <1>3, <1>5, <1>7 DEF Wider, AsSeen, Calibrated
    <2>4. r.max # Null => r.max \in Int
        BY <1>5, <1>6 DEF AsSeen
    <2>5. Widens(r, s)
        BY <1>5, <1>6, <2>2, <2>3, <2>4 DEF Widens
    <2> QED BY <1>2, <1>7, <2>1, <2>5
<1>8. CASE WriteMax(w) /\ sensors'[d][1] = [r EXCEPT !.max = c.value]
    <2>1. PICK s : s = [r EXCEPT !.max = c.value]
        OBVIOUS
    <2>2. s.max = c.value /\ s.min = r.min
        BY <2>1 DEF Row
    <2>3. c.value > c.seen.max /\ c.seen.max # Null /\ r.max \in {c.seen.max, Null}
        BY <1>1, <1>3, <1>5, <1>8 DEF Wider, AsSeen, Calibrated
    <2>4. r.min # Null => r.min \in Int
        <3>1. JavaInt \subseteq Int
            BY HalfAssumption DEF JavaInt
        <3> QED BY <1>2, <3>1 DEF Row, Bound
    <2>5. Widens(r, s)
        BY <1>5, <1>6, <2>2, <2>3, <2>4 DEF Widens
    <2> QED BY <1>2, <1>8, <2>1, <2>5
<1>9. CASE WriteBoth(w)
    <2>1. r.min = Null /\ r.max = Null
        BY <1>1, <1>3, <1>5, <1>9 DEF Wider, AsSeen, Uncalibrated
    <2> QED BY <1>2, <2>1 DEF Widens
<1> QED BY <1>2, <1>3, <1>7, <1>8, <1>9 DEF RowsWritten

\* Another step of the call, or of the operator, leaves its row as seen or null.
LEMMA SeenStep ==
    ASSUME TypeOK, WidensInv, SoleCaller, [Next]_vars, NEW w \in Workers,
           call'[w].pc \in Writing
    PROVE  /\ Wider(call'[w])
           /\ 1 \in DOMAIN sensors'[Called(w)'] =>
                  AsSeen(call'[w], sensors'[Called(w)'][1])
<1>1. CASE HasRead(w)
    <2>1. Called(w)' = Called(w) /\ sensors' = sensors /\ Called(w) \in NodeNames \X Types
        BY <1>1 DEF Called, HasRead, KeepsReading, At, TypeOK, CallsOK, InProgress, NodeNames
    <2>2. PICK c : c = call'[w]
        OBVIOUS
    <2>3. PICK r : r = sensors[Called(w)][1]
        OBVIOUS
    <2>4. c.seen = r /\ c.pc = UpdateFor(r, c.value)
        BY <1>1, <2>2, <2>3 DEF HasRead, KeepsReading
    <2>5. Wider(c)
        BY <2>4 DEF UpdateFor, Wider
    <2>6. AsSeen(c, r)
        BY <2>4 DEF AsSeen
    <2> QED BY <2>1, <2>2, <2>3, <2>5, <2>6
<1>2. CASE HasWrittenMin(w)
    <2>1. Called(w)' = Called(w) /\ call[w].pc = "writeMin" /\ call[w].pc \in Writing
        BY <1>2 DEF Called, HasWrittenMin, KeepsReading, WriteMin, At, Writing
    <2>2. Called(w) \in NodeNames \X Types /\ Wider(call[w])
        BY <2>1, WritingReading DEF WidensInv, SeenInv
    <2>3. PICK c : c = call'[w]
        OBVIOUS
    <2>4. c.pc = "writeMax" /\ c.seen = call[w].seen /\ c.value = call[w].value
          /\ c.value > c.seen.max
        BY <1>2, <2>3 DEF HasWrittenMin, KeepsReading
    <2>5. Wider(c)
        BY <2>1, <2>2, <2>4 DEF Wider
    <2>6. PICK d : d = Called(w)
        OBVIOUS
    <2>7. ASSUME 1 \in DOMAIN sensors'[d] PROVE AsSeen(c, sensors'[d][1])
        <3>1. sensors'[d] = [k \in 1 .. Len(sensors[d]) |-> [sensors[d][k] EXCEPT !.min = call[w].value]]
            BY <1>2, <2>2, <2>6 DEF HasWrittenMin, WriteMin, Update, Called, TypeOK, TablesOK
        <3>2. sensors[d] \in Seq(Row) /\ 1 \in DOMAIN sensors[d]
              /\ sensors'[d][1] = [sensors[d][1] EXCEPT !.min = call[w].value]
            BY <2>2, <2>6, <2>7, <3>1, LenProperties DEF TypeOK, TablesOK
        <3>3. sensors[d][1] \in Row /\ AsSeen(call[w], sensors[d][1])
            BY <2>1, <2>2, <2>6, <3>2, FirstRow DEF WidensInv, SeenInv
        <3>4. sensors'[d][1].max = sensors[d][1].max
            BY <3>2, <3>3 DEF Row
        <3> QED BY <2>4, <3>3, <3>4 DEF AsSeen
    <2> QED BY <2>1, <2>3, <2>5, <2>6, <2>7
<1>3. CASE call'[w] = call[w]
    <2>1. Called(w)' = Called(w) /\ call[w].pc \in Writing
        BY <1>3 DEF Called
    <2>2. Called(w) \in NodeNames \X Types /\ Wider(call[w])
        BY <2>1, WritingReading DEF WidensInv, SeenInv
    <2>3. PICK d \in NodeNames \X Types : d = Called(w)
        BY <2>2
    <2>4. ASSUME 1 \in DOMAIN sensors'[d] PROVE AsSeen(call[w], sensors'[d][1])
        <3>1. 1 \in DOMAIN sensors[d] => AsSeen(call[w], sensors[d][1])
            BY <2>1, <2>3 DEF WidensInv, SeenInv
        <3>2. AsSeen(call[w], Uncalibrated)
            BY DEF AsSeen, Uncalibrated
        <3>3. ASSUME NEW u \in Workers, RowsWritten(u, d) PROVE FALSE
            <4>1. WriteMin(w) \/ WriteMax(w) \/ WriteBoth(w)
                <5>1. u = w
                    BY DEF SoleCaller
                <5> QED BY <2>4, <3>3, <5>1 DEF RowsWritten
            <4>2. call[w] \in Call
                BY DEF TypeOK, CallsOK
            <4>3. ASSUME NEW next, Goto(w, next), next # call[w].pc PROVE FALSE
                BY <1>3, <4>2, <4>3 DEF Goto, TypeOK, CallsOK, Call
            <4>4. CASE WriteMin(w)
                BY <4>3, <4>4 DEF WriteMin, At
            <4>5. CASE WriteMax(w) \/ WriteBoth(w)
                BY <4>3, <4>5 DEF WriteMax, WriteBoth, At
            <4> QED BY <4>1, <4>4, <4>5
        <3>4. CASE SameRows(d)
            BY <2>4, <3>1, <3>4 DEF SameRows
        <3>5. CASE RowsNew(d) \/ RowsReset(d)
            BY <2>4, <3>2, <3>5 DEF RowsNew, RowsReset
        <3>6. CASE RowsGone(d)
            BY <2>4, <3>6 DEF RowsGone
        <3> QED BY <3>3, <3>4, <3>5, <3>6, RowsOfStep DEF RowsStep, SoleCaller
    <2> QED BY <1>3, <2>1, <2>2, <2>3, <2>4
<1> QED BY <1>1, <1>2, <1>3, WritingStep

LEMMA WidensStep ==
    ASSUME TypeOK, WidensInv, SoleCaller, [Next]_vars
    PROVE  WidensInv'
<1>1. OneRow'
    BY OneRowStep DEF WidensInv, SoleCaller
<1>2. ASSUME NEW w \in Workers PROVE SeenInv(w)'
    BY SeenStep DEF SeenInv
<1> QED BY <1>1, <1>2 DEF WidensInv

(***************************************************************************)
(* OnlyWidens: with unique keys and one caller min only goes down and max  *)
(* only up until they are reset, whatever the operator does and whatever   *)
(* fails.  With two callers it is not so: the second may overwrite a wider *)
(* bound with the narrower one it found worth writing.                     *)
(***************************************************************************)
THEOREM WidensCorrect == ASSUME SoleCaller PROVE Spec => OnlyWidens
<1>1. Init => WidensInv
    BY InitRows DEF WidensInv, SeenInv, Writing
<1>2. TypeOK /\ WidensInv /\ [Next]_vars => WidensInv'
    BY WidensStep
<1> DEFINE Wide == \A d \in NodeNames \X Types :
                       \A k \in DOMAIN sensors[d] \cap DOMAIN sensors'[d] :
                           Widens(sensors[d][k], sensors'[d][k])
<1>3. TypeOK /\ WidensInv /\ [Next]_vars => Wide
    <2> SUFFICES ASSUME TypeOK, WidensInv, [Next]_vars, NEW d \in NodeNames \X Types,
                        NEW k \in DOMAIN sensors[d] \cap DOMAIN sensors'[d]
                 PROVE  Widens(sensors[d][k], sensors'[d][k])
        OBVIOUS
    <2>1. k = 1 /\ 1 \in DOMAIN sensors[d] /\ 1 \in DOMAIN sensors'[d]
        BY DEF WidensInv, OneRow
    <2>2. PICK r \in Row : r = sensors[d][1]
        BY <2>1, FirstRow
    <2>3. CASE SameRows(d)
        <3>1. Widens(r, r)
            <4>1. JavaInt \subseteq Int
                BY HalfAssumption DEF JavaInt
            <4>2. r.min \in JavaInt \cup {Null} /\ r.max \in JavaInt \cup {Null}
                BY <2>2 DEF Row, Bound
            <4>3. (r.min # Null => r.min \in Int) /\ (r.max # Null => r.max \in Int)
                BY <4>1, <4>2
            <4>4. \A x \in Int : x <= x /\ x >= x
                OBVIOUS
            <4> QED BY <4>3, <4>4 DEF Widens
        <3> QED BY <2>1, <2>2, <2>3, <3>1 DEF SameRows
    <2>4. CASE RowsNew(d) \/ RowsGone(d)
        BY <2>1, <2>4 DEF RowsNew, RowsGone
    <2>5. CASE RowsReset(d)
        <3>1. Widens(r, Uncalibrated)
            BY DEF Widens, Uncalibrated
        <3> QED BY <2>1, <2>2, <2>5, <3>1 DEF RowsReset
    <2>6. CASE \E w \in Workers : RowsWritten(w, d)
        BY <2>1, <2>6, WrittenWidens
    <2> QED BY <2>3, <2>4, <2>5, <2>6, RowsOfStep DEF RowsStep, SoleCaller
<1> QED BY <1>1, <1>2, <1>3, TypeCorrect, PTL DEF Spec, OnlyWidens

-----------------------------------------------------------------------------
(***************************************************************************)
(* Settings                                                                *)
(***************************************************************************)

\* A step leaves an ignore list alone, adds to its end, or makes it shorter.
Appended(l, m) == \E e : m = Append(l, e)
ListStep(l, m) == m = l \/ Appended(l, m) \/ Len(m) < Len(l)

LEMMA RemoveAtShorter ==
    ASSUME NEW S, NEW s \in Seq(S), NEW k \in 1 .. Len(s)
    PROVE  Len(RemoveAt(s, k)) < Len(s)
<1>1. Len(s) \in Nat
    BY LenProperties
<1>2. SubSeq(s, 1, k - 1) \in Seq(S) /\ Len(SubSeq(s, 1, k - 1)) = k - 1
    <2>1. 1 \in 1 .. Len(s) + 1 /\ k - 1 \in 1 - 1 .. Len(s)
        BY <1>1
    <2> QED BY <2>1, SubSeqProperties
<1>3. SubSeq(s, k + 1, Len(s)) \in Seq(S) /\ Len(SubSeq(s, k + 1, Len(s))) = Len(s) - k
    <2>1. k + 1 \in 1 .. Len(s) + 1 /\ Len(s) \in (k + 1) - 1 .. Len(s)
        BY <1>1
    <2> QED BY <1>1, <2>1, SubSeqProperties
<1>4. Len(RemoveAt(s, k)) = (k - 1) + (Len(s) - k)
    <2>1. PICK a, b \in Seq(S) : a = SubSeq(s, 1, k - 1) /\ b = SubSeq(s, k + 1, Len(s))
        BY <1>2, <1>3
    <2>2. Len(a \o b) = Len(a) + Len(b)
        BY ConcatProperties
    <2> QED BY <1>2, <1>3, <2>1, <2>2 DEF RemoveAt
<1> QED BY <1>1, <1>4

LEMMA RemoveFirstShorter ==
    ASSUME NEW S, NEW s \in Seq(S), NEW e
    PROVE  ListStep(s, RemoveFirst(s, e))
<1> DEFINE T == {j \in 1 .. Len(s) : s[j] = e}
<1>1. CASE \E i \in 1 .. Len(s) : s[i] = e
    <2>1. T # {} /\ T \subseteq Nat
        BY <1>1, LenProperties
    <2>2. Min(T) \in 1 .. Len(s)
        BY <2>1, MinIsMember
    <2>3. RemoveFirst(s, e) = RemoveAt(s, Min(T))
        BY <1>1, <2>1 DEF RemoveFirst, SelectInSeq
    <2> QED BY <2>2, <2>3, RemoveAtShorter DEF ListStep
<1>2. CASE ~ \E i \in 1 .. Len(s) : s[i] = e
    BY <1>2 DEF RemoveFirst, ListStep
<1> QED BY <1>1, <1>2

LEMMA UnignoreShorter ==
    ASSUME ignoreSensors \in Seq([id : NodeNames, type : TypeNames]), NEW i, NEW t
    PROVE  ListStep(ignoreSensors, Unignore(i, t))
<1> DEFINE T == {j \in 1 .. Len(ignoreSensors) :
                   \/ EqualsThrows(ignoreSensors[j], i)
                   \/ ignoreSensors[j] = Device(i, t)}
           k == IF T # {} THEN Min(T) ELSE 0
<1>1. Unignore(i, t) = IF k = 0 \/ EqualsThrows(ignoreSensors[k], i)
                       THEN ignoreSensors ELSE RemoveAt(ignoreSensors, k)
    BY DEF Unignore, SelectInSeq
<1>2. k = 0 \/ k \in 1 .. Len(ignoreSensors)
    <2>1. T \subseteq Nat
        BY LenProperties
    <2> QED BY <2>1, MinIsMember
<1> HIDE DEF k
<1> QED BY <1>1, <1>2, RemoveAtShorter DEF ListStep

LEMMA ListsOfStep ==
    ASSUME TypeOK, [Next]_vars
    PROVE  ListStep(ignoreNodes, ignoreNodes') /\ ListStep(ignoreSensors, ignoreSensors')
<1>1. /\ ignoreNodes \in Seq(NodeNames)
      /\ ignoreSensors \in Seq([id : NodeNames, type : TypeNames])
      /\ Len(ignoreNodes) \in Nat /\ Len(ignoreSensors) \in Nat
    BY LenProperties DEF TypeOK, PanelOK
<1>2. ListStep(ignoreNodes, ignoreNodes) /\ ListStep(ignoreSensors, ignoreSensors)
    BY DEF ListStep
<1>3. CASE UNCHANGED <<ignoreNodes, ignoreSensors>>
    BY <1>2, <1>3
<1>4. ASSUME NEW i \in Ids, NEW a \in Addrs, AddNode(i, a)
      PROVE  ListStep(ignoreNodes, ignoreNodes') /\ UNCHANGED ignoreSensors
    BY <1>1, <1>4, RemoveFirstShorter DEF AddNode
<1>5. CASE AddSensorInsert
    BY <1>1, <1>2, <1>5, UnignoreShorter DEF AddSensorInsert
<1>6. ASSUME NEW i \in NodeNames, NEW ignore \in BOOLEAN, RemoveNode(i, ignore)
      PROVE  ListStep(ignoreNodes, ignoreNodes') /\ UNCHANGED ignoreSensors
    BY <1>6 DEF RemoveNode, ListStep, Appended
<1>7. ASSUME NEW i \in NodeNames, NEW t \in TypeNames, NEW ignore \in BOOLEAN,
             RemoveSensor(i, t, ignore)
      PROVE  ListStep(ignoreSensors, ignoreSensors') /\ UNCHANGED ignoreNodes
    BY <1>7 DEF RemoveSensor, ListStep, Appended
<1>8. CASE Restart
    <2>1. ASSUME NEW S, NEW s \in Seq(S) PROVE s = <<>> \/ 0 < Len(s)
        BY EmptySeq, LenProperties
    <2>2. ignoreNodes' = <<>> /\ ignoreSensors' = <<>> /\ Len(<<>>) = 0
        BY <1>8 DEF Restart
    <2> QED BY <1>1, <2>1, <2>2 DEF ListStep
<1>9. CASE Operator
    <2>1. /\ \A i \in Ids, a \in Addrs : SaveNodeAddress(i, a) => UNCHANGED panel
          /\ \A i \in NodeNames, t \in Types : ResetCalibration(i, t) => UNCHANGED panel
          /\ \A i \in NodeNames, t \in Types : AddSensor(i, t) =>
                UNCHANGED <<ignoreNodes, ignoreSensors>>
          /\ \A b : Tick(b) \/ Untick(b) => UNCHANGED <<ignoreNodes, ignoreSensors>>
        BY DEF SaveNodeAddress, ResetCalibration, AddSensor, Tick, Untick
    <2> QED BY <1>2, <1>3, <1>4, <1>6, <1>7, <1>9, <2>1 DEF Operator, panel
<1>10. CASE EdtStep \/ EdtError
    BY <1>3, <1>5, <1>10 DEF EdtStep, AddNodeInsert, DeleteNode, DeleteItsSensors,
                             DeleteSensor, EdtError
<1>11. ASSUME NEW w \in Workers,
              \/ \E i \in Ids, t \in Types, v \in Values : Receive(w, i, t, v)
              \/ WorkerStep(w) \/ Post(w) \/ CallError(w)
       PROVE  UNCHANGED panel
    BY <1>11 DEF Receive, WorkerStep, NodeQuery, NodeUnknown, NodeScan,
           NodeInsert, SensorQuery, SensorUnknown, SensorAutoAdd, SensorScan,
           SensorInsert, CalibrateBox, CalibrationRead, WriteMin, WriteMax,
           WriteBoth, PauseCheck, ForwardRead, Post, CallError, DbError, GuiError
<1>12. CASE UNCHANGED vars
    BY <1>3, <1>12 DEF vars, panel
<1> QED BY <1>3, <1>8, <1>9, <1>10, <1>11, <1>12 DEF Next, panel

\* An element ahead of the index of the scan is still there, unless the list
\* got shorter.
Ahead(l, k, e) == \E j \in 1 .. Len(l) : j >= k /\ l[j] = e

LEMMA AheadStays ==
    ASSUME NEW S, NEW l \in Seq(S), NEW T, NEW m \in Seq(T), NEW k \in Nat, NEW e,
           ListStep(l, m), ~ (Len(m) < Len(l)), Ahead(l, k, e)
    PROVE  Ahead(m, k, e)
<1>1. CASE m = l
    BY <1>1
<1>2. CASE Appended(l, m)
    <2>1. PICK x : m = Append(l, x)
        BY <1>2 DEF Appended
    <2>2. Len(l) \in Nat /\ Len(m) = Len(l) + 1 /\ \A j \in 1 .. Len(l) : m[j] = l[j]
        BY <2>1, LenProperties
    <2> QED BY <2>2 DEF Ahead
<1> QED BY <1>1, <1>2 DEF ListStep

LEMMA AheadIsListed ==
    ASSUME NEW S, NEW l \in Seq(S), NEW e, e \in Range(l)
    PROVE  Ahead(l, 1, e)
BY LenProperties DEF Range, Ahead

LEMMA AheadGoesOn ==
    ASSUME NEW S, NEW l \in Seq(S), NEW k \in Nat, NEW e, Ahead(l, k, e)
    PROVE  k <= Len(l) /\ (l[k] # e => Ahead(l, k + 1, e))
BY LenProperties DEF Ahead

\* The steps of a call after it has read the setting that a later step obeys.
Obeying == {"forwardRead", "post", "nodeScan", "nodeInsert",
            "sensorAutoAdd", "sensorScan", "sensorInsert"}

\* One step of a call: from step to step, and what it has seen on the way.
Obeys(w) ==
    LET c == call[w]
        d == call'[w]
    IN  \/ d.pc = "forwardRead" /\ ~ boxes["pause"]
        \/ d.pc = "post" /\ c.pc = "forwardRead"
        \/ d.pc = "nodeScan" /\ d.pos = 1 /\ boxes["autoNode"]
        \/ /\ d.pc = "nodeScan" /\ c.pc = "nodeScan" /\ d.pos = c.pos + 1
           /\ ignoreNodes[c.pos] # c.id
        \/ d.pc = "nodeInsert" /\ c.pc = "nodeScan" /\ c.pos > Len(ignoreNodes)
        \/ d.pc = "sensorAutoAdd" /\ boxes["autoSensor"]
        \/ d.pc = "sensorScan" /\ d.pos = 1 /\ c.pc = "sensorAutoAdd"
        \/ /\ d.pc = "sensorScan" /\ c.pc = "sensorScan" /\ d.pos = c.pos + 1
           /\ ignoreSensors[c.pos] # Device(c.id, c.type)
        \/ d.pc = "sensorInsert" /\ c.pc = "sensorScan" /\ c.pos > Len(ignoreSensors)

LEMMA ObeyingStep ==
    ASSUME TypeOK, [Next]_vars, NEW w \in Workers, call'[w].pc \in Obeying
    PROVE  \/ call'[w] = call[w]
           \/ /\ Obeys(w) /\ UNCHANGED panel /\ call[w].pc # "idle"
              /\ call'[w].id = call[w].id /\ call'[w].type = call[w].type
<1>1. call \in [Workers -> Call] /\ call[w] \in Call
    BY DEF TypeOK, CallsOK
<1>2. CASE UNCHANGED call
    BY <1>2
<1>3. ~ Restart
    BY DEF Restart, NoCall, Obeying
<1>4. ASSUME NEW u \in Workers,
             \E i \in Ids, t \in Types, v \in Values : Receive(u, i, t, v)
      PROVE  call'[w] = call[w]
    BY <1>1, <1>4 DEF Receive, NoCall, Obeying
<1>5. ASSUME NEW u \in Workers, u # w, WorkerStep(u) \/ Post(u) \/ CallError(u)
      PROVE  call'[w] = call[w]
    BY <1>5, StepShape
<1>6. ASSUME WorkerStep(w) \/ Post(w) \/ CallError(w)
      PROVE  /\ Obeys(w) /\ UNCHANGED panel /\ call[w].pc # "idle"
             /\ call'[w].id = call[w].id /\ call'[w].type = call[w].type
    <2>1. ASSUME NEW step, Goto(w, step)
          PROVE  step = call'[w].pc /\ step \in Obeying
        BY <1>1, <2>1 DEF Goto, Call
    <2>2. ASSUME NEW step, Scan(w, step)
          PROVE  step = call'[w].pc /\ step \in Obeying /\ call'[w].pos = 1
        BY <1>1, <2>2 DEF Scan, Call
    <2>3. ASSUME ScanOn(w)
          PROVE  call'[w].pc = call[w].pc /\ call'[w].pos = call[w].pos + 1
        BY <1>1, <2>3 DEF ScanOn, Call
    <2>4. ASSUME NEW answer, NEW what, NEW row PROVE ~ Finish(w, answer, what, row)
        BY <1>1, FinishKeeps DEF Obeying
    <2>5. /\ \A answer : ~ Return(w, answer) /\ ~ Delivered(w, answer)
          /\ \A what : ~ Registered(w, what)
        BY <2>4 DEF Return, Delivered, Registered
    <2>6. call[w].pc # "idle" /\ call'[w].id = call[w].id /\ call'[w].type = call[w].type
        BY <1>6, <2>5, StepShape DEF KeepsOutcome
    <2>7. UNCHANGED panel
        BY <1>6 DEF WorkerStep, NodeQuery, NodeUnknown, NodeScan,
           NodeInsert, SensorQuery, SensorUnknown, SensorAutoAdd, SensorScan,
           SensorInsert, CalibrateBox, CalibrationRead, WriteMin, WriteMax,
           WriteBoth, PauseCheck, ForwardRead, Post, CallError, DbError, GuiError
    <2> SUFFICES Obeys(w)
        BY <2>6, <2>7
    <2>8. ~ Goto(w, "pauseCheck") /\ ~ Goto(w, "calibrationRead") /\ ~ Goto(w, "calibrateBox")
          /\ ~ Goto(w, "writeMax") /\ ~ Goto(w, "sensorUnknown")
        BY <2>1 DEF Obeying
    <2>9. CASE PauseCheck(w)
        BY <2>1, <2>5, <2>9 DEF PauseCheck, Obeys
    <2>10. CASE ForwardRead(w)
        <3>1. call' = [call EXCEPT ![w].seen = sensors[Called(w)][1], ![w].pc = "post"]
              /\ call[w].pc = "forwardRead"
            BY <2>5, <2>10 DEF ForwardRead, Called, At
        <3>2. call'[w].pc = "post"
            BY <1>1, <3>1 DEF Call
        <3> QED BY <3>1, <3>2 DEF Obeys
    <2>11. CASE NodeUnknown(w)
        BY <2>2, <2>5, <2>11 DEF NodeUnknown, Obeys
    <2>12. CASE NodeScan(w)
        BY <2>1, <2>3, <2>5, <2>12 DEF NodeScan, At, Obeys
    <2>13. CASE SensorUnknown(w)
        BY <2>1, <2>5, <2>13 DEF SensorUnknown, Obeys
    <2>14. CASE SensorAutoAdd(w)
        BY <2>2, <2>8, <2>14 DEF SensorAutoAdd, At, Obeys
    <2>15. CASE SensorScan(w)
        BY <2>1, <2>3, <2>5, <2>15 DEF SensorScan, At, Obeys
    <2>16. ~ WriteMin(w) /\ ~ WriteMax(w) /\ ~ WriteBoth(w)
        BY <2>8 DEF WriteMin, WriteMax, WriteBoth
    <2>17. ~ SensorQuery(w) /\ ~ CalibrateBox(w)
        BY <2>8 DEF SensorQuery, CalibrateBox
    <2>18. ~ NodeInsert(w) /\ ~ SensorInsert(w)
        BY <2>5 DEF NodeInsert, SensorInsert
    <2>19. ~ NodeQuery(w)
        BY <1>1 DEF NodeQuery, Obeying, Call
    <2>20. ~ CalibrationRead(w)
        BY <1>1, <2>5 DEF CalibrationRead, UpdateFor, Obeying, Call
    <2>21. ~ Post(w) /\ ~ CallError(w)
        BY <2>5 DEF Post, CallError, DbError, GuiError
    <2> QED BY <1>6, <2>9, <2>10, <2>11, <2>12, <2>13, <2>14, <2>15,
               <2>16, <2>17, <2>18, <2>19, <2>20, <2>21 DEF WorkerStep
<1> QED BY <1>2, <1>3, <1>4, <1>5, <1>6, PanelLeavesCalls DEF Next, vars

\* The settings in force, one by one.
LEMMA InForceIs ==
    ASSUME TypeOK, NEW w \in Workers
    PROVE  /\ "paused" \in InForce(w) => boxes["pause"]
           /\ "autoNodeOff" \in InForce(w) => ~ boxes["autoNode"]
           /\ "autoSensorOff" \in InForce(w) => ~ boxes["autoSensor"]
           /\ "nodeIgnored" \in InForce(w) => call[w].id \in Range(ignoreNodes)
           /\ "sensorIgnored" \in InForce(w) =>
                 Device(call[w].id, call[w].type) \in Range(ignoreSensors)
BY DEF InForce

(***************************************************************************)
(* What a call that has passed a check still knows of what the operator    *)
(* set: a setting that held when it came has not been there at the check,  *)
(* or, in the scan of an ignore list, is ahead of the index.               *)
(***************************************************************************)
Heeds(w) ==
    LET c == call[w]
        e == Device(call[w].id, call[w].type)
    IN  /\ c.pc \in {"forwardRead", "post"} => "paused" \notin held[w]
        /\ c.pc \in {"nodeScan", "nodeInsert"} => "autoNodeOff" \notin held[w]
        /\ c.pc \in {"sensorAutoAdd", "sensorScan", "sensorInsert"} =>
              "autoSensorOff" \notin held[w]
        /\ c.pc = "nodeScan" /\ "nodeIgnored" \in held[w] => Ahead(ignoreNodes, c.pos, c.id)
        /\ c.pc = "sensorScan" /\ "sensorIgnored" \in held[w] =>
              Ahead(ignoreSensors, c.pos, e)
        /\ c.pc = "nodeInsert" => "nodeIgnored" \notin held[w]
        /\ c.pc = "sensorInsert" => "sensorIgnored" \notin held[w]
HeedInv == \A w \in Workers : Heeds(w)

\* What is held only gets less while a call goes on, and is in force.
LEMMA HeldStep ==
    ASSUME TypeOK', Track, NEW w \in Workers, call'[w].pc \in Obeying, call[w].pc # "idle"
    PROVE  /\ held'[w] \subseteq held[w]
           /\ "paused" \in held'[w] => boxes'["pause"]
           /\ "autoNodeOff" \in held'[w] => ~ boxes'["autoNode"]
           /\ "autoSensorOff" \in held'[w] => ~ boxes'["autoSensor"]
           /\ "nodeIgnored" \in held'[w] =>
                 /\ call'[w].id \in Range(ignoreNodes')
                 /\ ~ (Len(ignoreNodes') < Len(ignoreNodes))
           /\ "sensorIgnored" \in held'[w] =>
                 /\ Device(call'[w].id, call'[w].type) \in Range(ignoreSensors')
                 /\ ~ (Len(ignoreSensors') < Len(ignoreSensors))
<1>1. held'[w] = (held[w] \cap InForce(w)') \ Shrunk
    BY DEF Track, At, Obeying
<1>2. /\ "paused" \in InForce(w)' => boxes'["pause"]
      /\ "autoNodeOff" \in InForce(w)' => ~ boxes'["autoNode"]
      /\ "autoSensorOff" \in InForce(w)' => ~ boxes'["autoSensor"]
      /\ "nodeIgnored" \in InForce(w)' => call'[w].id \in Range(ignoreNodes')
      /\ "sensorIgnored" \in InForce(w)' =>
            Device(call'[w].id, call'[w].type) \in Range(ignoreSensors')
    <2>1. (TypeOK => /\ "paused" \in InForce(w) => boxes["pause"]
                     /\ "autoNodeOff" \in InForce(w) => ~ boxes["autoNode"]
                     /\ "autoSensorOff" \in InForce(w) => ~ boxes["autoSensor"]
                     /\ "nodeIgnored" \in InForce(w) => call[w].id \in Range(ignoreNodes)
                     /\ "sensorIgnored" \in InForce(w) =>
                           Device(call[w].id, call[w].type) \in Range(ignoreSensors))'
        BY InForceIs, PTL
    <2> QED BY <2>1 DEF Device
<1>3. /\ Len(ignoreNodes') < Len(ignoreNodes) => "nodeIgnored" \in Shrunk
      /\ Len(ignoreSensors') < Len(ignoreSensors) => "sensorIgnored" \in Shrunk
    BY DEF Shrunk
<1> QED BY <1>1, <1>2, <1>3

\* A call that waits: what is ahead of it stays ahead.
LEMMA WaitsHeeding ==
    ASSUME TypeOK, TypeOK', [Next]_vars, Track, NEW w \in Workers, Heeds(w),
           call'[w] = call[w], call'[w].pc \in Obeying
    PROVE  Heeds(w)'
<1>1. PICK c \in Call : c = call[w] /\ c = call'[w]
    BY DEF TypeOK, CallsOK
<1>2. c.pos \in Nat /\ c.pc # "idle"
    BY <1>1 DEF Call, Obeying
<1>3. PICK e : e = Device(c.id, c.type)
    OBVIOUS
<1>4. /\ held'[w] \subseteq held[w]
      /\ "nodeIgnored" \in held'[w] => ~ (Len(ignoreNodes') < Len(ignoreNodes))
      /\ "sensorIgnored" \in held'[w] => ~ (Len(ignoreSensors') < Len(ignoreSensors))
    BY <1>1, <1>2, HeldStep
<1>5. PICK S, T, U, V : /\ ignoreNodes \in Seq(S) /\ ignoreNodes' \in Seq(T)
                        /\ ignoreSensors \in Seq(U) /\ ignoreSensors' \in Seq(V)
    BY DEF TypeOK, PanelOK
<1>6. "nodeIgnored" \in held'[w] /\ Ahead(ignoreNodes, c.pos, c.id) =>
          Ahead(ignoreNodes', c.pos, c.id)
    BY <1>2, <1>4, <1>5, ListsOfStep, AheadStays
<1>7. "sensorIgnored" \in held'[w] /\ Ahead(ignoreSensors, c.pos, e) =>
          Ahead(ignoreSensors', c.pos, e)
    BY <1>2, <1>4, <1>5, ListsOfStep, AheadStays
<1>8. /\ c.pc \in {"forwardRead", "post"} => "paused" \notin held[w]
      /\ c.pc \in {"nodeScan", "nodeInsert"} => "autoNodeOff" \notin held[w]
      /\ c.pc \in {"sensorAutoAdd", "sensorScan", "sensorInsert"} =>
            "autoSensorOff" \notin held[w]
      /\ c.pc = "nodeScan" /\ "nodeIgnored" \in held[w] => Ahead(ignoreNodes, c.pos, c.id)
      /\ c.pc = "sensorScan" /\ "sensorIgnored" \in held[w] => Ahead(ignoreSensors, c.pos, e)
      /\ c.pc = "nodeInsert" => "nodeIgnored" \notin held[w]
      /\ c.pc = "sensorInsert" => "sensorIgnored" \notin held[w]
    BY <1>1, <1>3 DEF Heeds
<1>9. Device(call'[w].id, call'[w].type) = e
    BY <1>1, <1>3
<1> QED BY <1>1, <1>4, <1>6, <1>7, <1>8, <1>9 DEF Heeds, Device

\* A call that goes on: it has just read the setting, or the next element.
LEMMA GoesOnHeeding ==
    ASSUME TypeOK, TypeOK', Track, NEW w \in Workers, Heeds(w),
           Obeys(w), UNCHANGED panel, call[w].pc # "idle", call'[w].pc \in Obeying,
           call'[w].id = call[w].id, call'[w].type = call[w].type
    PROVE  Heeds(w)'
<1>1. PICK c, d \in Call : c = call[w] /\ d = call'[w]
    BY DEF TypeOK, CallsOK
<1>2. c.pos \in Nat /\ d.pos \in Nat /\ c.pc # "idle" /\ c.id = d.id /\ c.type = d.type
    BY <1>1 DEF Call
<1>3. PICK e : e = Device(c.id, c.type)
    OBVIOUS
<1>4. PICK S, U : ignoreNodes \in Seq(S) /\ ignoreSensors \in Seq(U)
    BY DEF TypeOK, PanelOK
<1>5. boxes' = boxes /\ ignoreNodes' = ignoreNodes /\ ignoreSensors' = ignoreSensors
    BY DEF panel
<1>6. Device(call'[w].id, call'[w].type) = e
    BY <1>1, <1>2, <1>3
<1>7. /\ held'[w] \subseteq held[w]
      /\ "paused" \in held'[w] => boxes["pause"]
      /\ "autoNodeOff" \in held'[w] => ~ boxes["autoNode"]
      /\ "autoSensorOff" \in held'[w] => ~ boxes["autoSensor"]
      /\ "nodeIgnored" \in held'[w] => c.id \in Range(ignoreNodes)
      /\ "sensorIgnored" \in held'[w] => e \in Range(ignoreSensors)
    BY <1>1, <1>2, <1>5, <1>6, HeldStep
<1>8. /\ c.pc \in {"forwardRead", "post"} => "paused" \notin held[w]
      /\ c.pc \in {"nodeScan", "nodeInsert"} => "autoNodeOff" \notin held[w]
      /\ c.pc \in {"sensorAutoAdd", "sensorScan", "sensorInsert"} =>
            "autoSensorOff" \notin held[w]
      /\ c.pc = "nodeScan" /\ "nodeIgnored" \in held[w] => Ahead(ignoreNodes, c.pos, c.id)
      /\ c.pc = "sensorScan" /\ "sensorIgnored" \in held[w] => Ahead(ignoreSensors, c.pos, e)
    BY <1>1, <1>3 DEF Heeds
<1>9. /\ "nodeIgnored" \in held'[w] => Ahead(ignoreNodes, 1, c.id)
      /\ "sensorIgnored" \in held'[w] => Ahead(ignoreSensors, 1, e)
    BY <1>4, <1>7, AheadIsListed
<1>10. /\ Ahead(ignoreNodes, c.pos, c.id) => /\ ~ (c.pos > Len(ignoreNodes))
                                             /\ ignoreNodes[c.pos] # c.id =>
                                                    Ahead(ignoreNodes, c.pos + 1, c.id)
       /\ Ahead(ignoreSensors, c.pos, e) => /\ ~ (c.pos > Len(ignoreSensors))
                                            /\ ignoreSensors[c.pos] # e =>
                                                   Ahead(ignoreSensors, c.pos + 1, e)
  <2>1. Len(ignoreNodes) \in Nat /\ Len(ignoreSensors) \in Nat
    BY <1>4, LenProperties
  <2>2. Ahead(ignoreNodes, c.pos, c.id) =>
            c.pos <= Len(ignoreNodes) /\ (ignoreNodes[c.pos] # c.id =>
                                             Ahead(ignoreNodes, c.pos + 1, c.id))
    BY <1>2, <1>4, AheadGoesOn
  <2>3. Ahead(ignoreSensors, c.pos, e) =>
            c.pos <= Len(ignoreSensors) /\ (ignoreSensors[c.pos] # e =>
                                               Ahead(ignoreSensors, c.pos + 1, e))
    BY <1>2, <1>4, AheadGoesOn
  <2> QED BY <1>2, <2>1, <2>2, <2>3
<1>11. \/ d.pc = "forwardRead" /\ ~ boxes["pause"]
       \/ d.pc = "post" /\ c.pc = "forwardRead"
       \/ d.pc = "nodeScan" /\ d.pos = 1 /\ boxes["autoNode"]
       \/ /\ d.pc = "nodeScan" /\ c.pc = "nodeScan" /\ d.pos = c.pos + 1
          /\ ignoreNodes[c.pos] # c.id
       \/ d.pc = "nodeInsert" /\ c.pc = "nodeScan" /\ c.pos > Len(ignoreNodes)
       \/ d.pc = "sensorAutoAdd" /\ boxes["autoSensor"]
       \/ d.pc = "sensorScan" /\ d.pos = 1 /\ c.pc = "sensorAutoAdd"
       \/ /\ d.pc = "sensorScan" /\ c.pc = "sensorScan" /\ d.pos = c.pos + 1
          /\ ignoreSensors[c.pos] # e
       \/ d.pc = "sensorInsert" /\ c.pc = "sensorScan" /\ c.pos > Len(ignoreSensors)
    BY <1>1, <1>3 DEF Obeys
<1>12. /\ d.pc \in {"forwardRead", "post"} => "paused" \notin held'[w]
       /\ d.pc \in {"nodeScan", "nodeInsert"} => "autoNodeOff" \notin held'[w]
       /\ d.pc \in {"sensorAutoAdd", "sensorScan", "sensorInsert"} =>
             "autoSensorOff" \notin held'[w]
    BY <1>7, <1>8, <1>11
<1>13. /\ d.pc = "nodeScan" /\ "nodeIgnored" \in held'[w] => Ahead(ignoreNodes, d.pos, d.id)
       /\ d.pc = "nodeInsert" => "nodeIgnored" \notin held'[w]
    BY <1>2, <1>7, <1>8, <1>9, <1>10, <1>11
<1>14. /\ d.pc = "sensorScan" /\ "sensorIgnored" \in held'[w] => Ahead(ignoreSensors, d.pos, e)
       /\ d.pc = "sensorInsert" => "sensorIgnored" \notin held'[w]
    BY <1>7, <1>8, <1>9, <1>10, <1>11
<1> QED BY <1>1, <1>5, <1>6, <1>12, <1>13, <1>14 DEF Heeds, Device

LEMMA HeedStep ==
    ASSUME TypeOK, TypeOK', HeedInv, [HNext]_hvars
    PROVE  HeedInv'
<1>1. CASE UNCHANGED hvars
    BY <1>1 DEF hvars, vars, HeedInv, Heeds, Device
<1>2. CASE HNext
  <2>1. ASSUME NEW w \in Workers, call'[w].pc \in Obeying PROVE Heeds(w)'
    <3>1. Track /\ [Next]_vars /\ Heeds(w)
      BY <1>2 DEF HNext, HeedInv
    <3>2. CASE call'[w] = call[w]
      BY <2>1, <3>1, <3>2, WaitsHeeding
    <3>3. CASE call'[w] # call[w]
      BY <2>1, <3>1, <3>3, ObeyingStep, GoesOnHeeding
    <3> QED BY <3>2, <3>3
  <2>2. ASSUME NEW w \in Workers, call'[w].pc \notin Obeying PROVE Heeds(w)'
      BY <2>2 DEF Heeds, Obeying
  <2> QED BY <2>1, <2>2 DEF HeedInv
<1> QED BY <1>1, <1>2

(***************************************************************************)
(* SettingsHonoured: whatever else the threads and the operator do and     *)
(* whatever fails, a call forwards nothing if forwarding was paused from   *)
(* its arrival on, and registers nothing if that auto add was off, or the  *)
(* node or sensor on an ignore list from which nothing was taken.          *)
(***************************************************************************)
THEOREM SettingsCorrect == HSpec => SettingsHonoured
<1>1. HInit => Init /\ HeedInv
    BY DEF HInit, Init, NoCall, HeedInv, Heeds
<1>2. [HNext]_hvars => [Next]_vars
    BY DEF HNext, hvars
<1>3. HSpec => []TypeOK
    BY <1>1, <1>2, TypeCorrect, PTL DEF HSpec, Spec
<1>4. TypeOK /\ TypeOK' /\ HeedInv /\ [HNext]_hvars => HeedInv'
    BY HeedStep
<1> DEFINE Honoured ==
        \A w \in Workers :
          /\ At(w, "post") /\ call'[w].sent # Null => "paused" \notin held[w]
          /\ At(w, "nodeInsert") /\ call'[w].added = "node" =>
                held[w] \cap {"autoNodeOff", "nodeIgnored"} = {}
          /\ At(w, "sensorInsert") /\ call'[w].added = "sensor" =>
                held[w] \cap {"autoSensorOff", "sensorIgnored"} = {}
<1>5. HeedInv => Honoured
    BY DEF HeedInv, Heeds, At
<1> QED BY <1>1, <1>3, <1>4, <1>5, PTL DEF HSpec, SettingsHonoured
=============================================================================
