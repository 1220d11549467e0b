--------------------------- MODULE WsnToVwProofs ---------------------------
(***************************************************************************)
(* Theorems about WsnToVw, for every value of its constants.               *)
(***************************************************************************)
EXTENDS WsnToVw, SequenceTheorems, WellFoundedInduction, TLAPS

(***************************************************************************)
(* Sequences                                                               *)
(***************************************************************************)

Less == {p \in Nat \X Nat : p[1] < p[2]}

\* A non-empty set of natural numbers has its minimum in it.
LEMMA MinIsMember ==
    ASSUME NEW T, T \subseteq Nat, T # {}
    PROVE  Min(T) \in T
<1>1. IsWellFoundedOn(Less, Nat)
    BY NatLessThanWellFounded DEF OpToRel, Less
<1>2. PICK x \in T : \A y \in T : ~ (<<y, x>> \in Less)
    BY <1>1, WFMin
<1>3. \A y \in T : <<y, x>> \in Less <=> y < x
    BY DEF Less
<1>4. \A y \in T : ~ (y < x)
    BY <1>2, <1>3
<1>5. \A y \in T : x <= y
    BY <1>4
<1> QED BY <1>5 DEF Min

\* Removing an element of a sequence leaves a sequence.
LEMMA RemoveAtType ==
    ASSUME NEW S, NEW s \in Seq(S), NEW k \in 1 .. Len(s)
    PROVE  RemoveAt(s, k) \in Seq(S)
<1>1. Len(s) \in Nat /\ \A j \in 1 .. Len(s) : s[j] \in S
    BY LenProperties, ElementOfSeq
<1>2. SubSeq(s, 1, k - 1) \in Seq(S)
    BY <1>1, SubSeqProperties
<1>3. SubSeq(s, k + 1, Len(s)) \in Seq(S)
    BY <1>1, SubSeqProperties
<1> QED BY <1>2, <1>3, ConcatProperties DEF RemoveAt

\* The list without the first occurrence of an element is still a list.
LEMMA RemoveFirstType ==
    ASSUME NEW S, NEW s \in Seq(S), NEW e
    PROVE  RemoveFirst(s, e) \in Seq(S)
<1> DEFINE T == {j \in 1 .. Len(s) : s[j] = e}
<1>1. CASE \E i \in 1 .. Len(s) : s[i] = e
    <2>1. T # {} /\ T \subseteq Nat
        BY <1>1, LenProperties
    <2>2. Min(T) \in 1 .. Len(s)
        BY <2>1, MinIsMember
    <2>3. RemoveFirst(s, e) = RemoveAt(s, Min(T))
        BY <1>1, <2>1 DEF RemoveFirst, SelectInSeq
    <2> QED BY <2>2, <2>3, RemoveAtType
<1>2. CASE ~ \E i \in 1 .. Len(s) : s[i] = e
    BY <1>2 DEF RemoveFirst
<1> QED BY <1>1, <1>2

\* The address a call takes from the rows of its node.
LEMMA FirstAddressType ==
    ASSUME NEW rows \in Seq(Addrs \cup {Null})
    PROVE  FirstAddress(rows) \in Addrs \cup {Null}
<1> DEFINE T == {j \in 1 .. Len(rows) : rows[j] # Null}
<1>1. CASE T = {}
    BY <1>1 DEF FirstAddress, SelectInSeq
<1>2. CASE T # {}
    <2>1. Min(T) \in 1 .. Len(rows)
        <3>1. T \subseteq Nat
            BY LenProperties
        <3> QED BY <1>2, <3>1, MinIsMember
    <2>2. FirstAddress(rows) = rows[Min(T)]
        BY <1>2, <2>1 DEF FirstAddress, SelectInSeq
    <2> QED BY <2>1, <2>2, ElementOfSeq
<1> QED BY <1>1, <1>2

(***************************************************************************)
(* Type correctness                                                        *)
(***************************************************************************)

\* The initial tables, lists and calls have their types.
LEMMA InitType == Init => TypeOK
<1> SUFFICES ASSUME Init PROVE TypeOK
    OBVIOUS
<1>1. nodes \in [Ids -> Seq(Addrs \cup {Null})]
    <2>1. \A a \in Addrs \cup {Null} : <<a>> \in Seq(Addrs \cup {Null})
        OBVIOUS
    <2>2. <<>> \in Seq(Addrs \cup {Null})
        OBVIOUS
    <2>3. {<<>>} \cup {<<a>> : a \in Addrs \cup {Null}} \subseteq Seq(Addrs \cup {Null})
        BY <2>1, <2>2
    <2> QED BY <2>3 DEF Init
<1>2. LeftBehind \subseteq Row
    BY ValuesAssumption DEF LeftBehind, Row, Bound, Uncalibrated
<1>3. \A r \in LeftBehind : <<r>> \in Seq(Row)
    BY <1>2
<1>4. sensors \in [NodeNames \X Types -> Seq(Row)]
    <2>1. <<>> \in Seq(Row)
        OBVIOUS
    <2>2. {<<>>} \cup {<<r>> : r \in LeftBehind} \subseteq Seq(Row)
        BY <1>3, <2>1
    <2> QED BY <2>2 DEF Init
<1>5. NoCall \in Call
    BY DEF NoCall, Call, CallSteps, DbSteps, NodeNames, TypeNames,
           Uncalibrated, Row, Bound
<1>6. edt \in [op : EdtOps, id : NodeNames, type : TypeNames,
               addr : Addrs \cup {Null}]
    BY DEF Init, EdtIdle, EdtOps, NodeNames, TypeNames
<1> QED
    BY <1>1, <1>4, <1>5, <1>6
    DEF Init, TypeOK, TablesOK, PanelOK, CallsOK, InProgress, EdtIdle, NoCall

\* A call may be changed to any other well-typed one.
LEMMA CallChange ==
    ASSUME CallsOK, NEW w \in Workers, NEW c \in Call, InProgress(c),
           call' = [call EXCEPT ![w] = c]
    PROVE  CallsOK'
BY DEF CallsOK, InProgress

\* A call that goes on to another step keeps its type.
LEMMA GotoType ==
    ASSUME CallsOK, NEW w \in Workers, NEW step \in CallSteps,
           call[w].pc # "idle", Goto(w, step)
    PROVE  CallsOK'
<1> DEFINE c == [call[w] EXCEPT !.pc = step]
<1>1. call[w] \in Call /\ InProgress(call[w])
    BY DEF CallsOK
<1>2. c \in Call /\ InProgress(c)
    BY <1>1 DEF Call, InProgress
<1>3. call' = [call EXCEPT ![w] = c]
    BY <1>1 DEF CallsOK, Goto
<1> QED BY <1>2, <1>3, CallChange

\* A call that starts to scan an ignore list keeps its type.
LEMMA ScanType ==
    ASSUME CallsOK, NEW w \in Workers, NEW step \in CallSteps,
           call[w].pc # "idle", Scan(w, step)
    PROVE  CallsOK'
<1> DEFINE c == [call[w] EXCEPT !.pc = step, !.pos = 1]
<1>1. call[w] \in Call /\ InProgress(call[w])
    BY DEF CallsOK
<1>2. c \in Call /\ InProgress(c)
    BY <1>1 DEF Call, InProgress
<1>3. call' = [call EXCEPT ![w] = c]
    BY <1>1 DEF CallsOK, Scan
<1> QED BY <1>2, <1>3, CallChange

\* A call that scans on keeps its type.
LEMMA ScanOnType ==
    ASSUME CallsOK, NEW w \in Workers, ScanOn(w)
    PROVE  CallsOK'
<1> DEFINE c == [call[w] EXCEPT !.pos = @ + 1]
<1>1. call[w] \in Call /\ InProgress(call[w])
    BY DEF CallsOK
<1>2. c \in Call /\ InProgress(c)
    BY <1>1 DEF Call, InProgress
<1>3. call' = [call EXCEPT ![w] = c]
    BY <1>1 DEF CallsOK, ScanOn
<1> QED BY <1>2, <1>3, CallChange

\* A call that ends keeps its type.
LEMMA FinishType ==
    ASSUME CallsOK, NEW w \in Workers,
           NEW answer \in {"none", "true", "false", "fault"},
           NEW what \in {"no", "node", "sensor"},
           NEW row \in Row \cup {Null},
           Finish(w, answer, what, row)
    PROVE  CallsOK'
<1> DEFINE c == [call[w] EXCEPT !.pc = "idle", !.ret = answer,
                    !.added = what, !.sent = row, !.addr = Null,
                    !.pos = 0, !.seen = Uncalibrated]
<1>1. call[w] \in Call
    BY DEF CallsOK
<1>2. Uncalibrated \in Row
    BY DEF Uncalibrated, Row, Bound
<1>3. c \in Call
    BY <1>1, <1>2 DEF Call
<1>4. InProgress(c)
    BY <1>1 DEF Call, InProgress
<1>5. call' = [call EXCEPT ![w] = c]
    BY <1>1 DEF CallsOK, Finish
<1> QED BY <1>3, <1>4, <1>5, CallChange

\* Return, Registered and Delivered are ways to end.
LEMMA ReturnType ==
    ASSUME CallsOK, NEW w \in Workers,
           \/ \E answer \in {"none", "true", "false", "fault"} :
                 Return(w, answer) \/ Delivered(w, answer)
           \/ \E what \in {"no", "node", "sensor"} : Registered(w, what)
    PROVE  CallsOK'
<1>1. call[w] \in Call
    BY DEF CallsOK
<1>2. /\ call[w].added \in {"no", "node", "sensor"}
      /\ call[w].sent \in Row \cup {Null}
      /\ call[w].seen \in Row \cup {Null}
    BY <1>1 DEF Call
<1>3. CASE \E answer \in {"none", "true", "false", "fault"} :
              Return(w, answer) \/ Delivered(w, answer)
    BY <1>2, <1>3, FinishType DEF Return, Delivered
<1>4. CASE \E what \in {"no", "node", "sensor"} : Registered(w, what)
    BY <1>2, <1>4, FinishType DEF Registered
<1> QED BY <1>3, <1>4

\* The tables and the panel are typed by what a step leaves alone.
LEMMA UnchangedTypes ==
    /\ TablesOK /\ UNCHANGED database => TablesOK'
    /\ PanelOK /\ UNCHANGED panel => PanelOK'
    /\ CallsOK /\ UNCHANGED call => CallsOK'
<1>1. TablesOK /\ UNCHANGED database => TablesOK'
    BY DEF TablesOK, database
<1>2. PanelOK /\ UNCHANGED panel => PanelOK'
    BY DEF PanelOK, panel
<1>3. CallsOK /\ UNCHANGED call => CallsOK'
    BY DEF CallsOK
<1> QED BY <1>1, <1>2, <1>3

\* The rows of one sensor may be changed to other well-typed rows.
LEMMA SensorsChange ==
    ASSUME TablesOK, NEW d \in NodeNames \X Types, NEW rows \in Seq(Row),
           sensors' = [sensors EXCEPT ![d] = rows], UNCHANGED nodes
    PROVE  TablesOK'
BY DEF TablesOK

\* So may the rows of one node.
LEMMA NodesChange ==
    ASSUME TablesOK, NEW i \in Ids, NEW rows \in Seq(Addrs \cup {Null}),
           nodes' = [nodes EXCEPT ![i] = rows], UNCHANGED sensors
    PROVE  TablesOK'
BY DEF TablesOK

\* A reading makes well-typed rows of well-typed rows.
LEMMA WriteType ==
    ASSUME TablesOK, CallsOK, NEW w \in Workers,
           WriteMin(w) \/ WriteMax(w) \/ WriteBoth(w)
    PROVE  TablesOK'
<1> DEFINE v == call[w].value
           d == <<call[w].id, call[w].type>>
           rows == sensors[d]
<1>1. v \in Bound /\ d \in NodeNames \X Types
    BY ValuesAssumption
    DEF CallsOK, InProgress, WriteMin, WriteMax, WriteBoth, At, Bound, NodeNames
<1>2. rows \in Seq(Row) /\ Len(rows) \in Nat /\ \A k \in 1 .. Len(rows) : rows[k] \in Row
    BY <1>1 DEF TablesOK
<1> HIDE DEF v, d, rows
<1>3. CASE WriteMin(w)
    <2> DEFINE new == [k \in 1 .. Len(rows) |-> [rows[k] EXCEPT !.min = v]]
    <2>1. \A k \in 1 .. Len(rows) : [rows[k] EXCEPT !.min = v] \in Row
        BY <1>1, <1>2 DEF Row
    <2>2. new \in Seq(Row)
        BY <1>2, <2>1
    <2>3. sensors' = [sensors EXCEPT ![d] = new] /\ UNCHANGED nodes
        BY <1>3 DEF WriteMin, Update, d, rows, v
    <2> QED BY <1>1, <2>2, <2>3, SensorsChange
<1>4. CASE WriteMax(w)
    <2> DEFINE new == [k \in 1 .. Len(rows) |-> [rows[k] EXCEPT !.max = v]]
    <2>1. \A k \in 1 .. Len(rows) : [rows[k] EXCEPT !.max = v] \in Row
        BY <1>1, <1>2 DEF Row
    <2>2. new \in Seq(Row)
        BY <1>2, <2>1
    <2>3. sensors' = [sensors EXCEPT ![d] = new] /\ UNCHANGED nodes
        BY <1>4 DEF WriteMax, Update, d, rows, v
    <2> QED BY <1>1, <2>2, <2>3, SensorsChange
<1>5. CASE WriteBoth(w)
    <2> DEFINE new == [k \in 1 .. Len(rows) |-> [min |-> v, max |-> v]]
    <2>1. [min |-> v, max |-> v] \in Row
        BY <1>1 DEF Row
    <2>2. new \in Seq(Row)
        BY <1>2, <2>1
    <2>3. sensors' = [sensors EXCEPT ![d] = new] /\ UNCHANGED nodes
        BY <1>5 DEF WriteBoth, Update, d, rows, v
    <2> QED BY <1>1, <2>2, <2>3, SensorsChange
<1> QED BY <1>3, <1>4, <1>5

\* The steps of a call that read keep every type.
LEMMA ReadType ==
    ASSUME TypeOK, NEW w \in Workers,
           \/ NodeQuery(w) \/ SensorQuery(w) \/ CalibrationRead(w) \/ ForwardRead(w)
    PROVE  TypeOK'
<1> USE DEF TypeOK
<1>1. TablesOK' /\ PanelOK'
    BY UnchangedTypes DEF NodeQuery, SensorQuery, CalibrationRead, ForwardRead
<1>2. call[w] \in Call /\ InProgress(call[w])
    BY DEF CallsOK
<1>3. call[w].pc # "idle"
    BY DEF NodeQuery, SensorQuery, CalibrationRead, ForwardRead, At
<1>4. call[w].id \in Ids /\ <<call[w].id, call[w].type>> \in NodeNames \X Types
    BY <1>2, <1>3 DEF InProgress, NodeNames
<1> DEFINE rows == sensors[<<call[w].id, call[w].type>>]
<1>5. rows # <<>> => rows[1] \in Row
    <2>1. rows \in Seq(Row)
        BY <1>4 DEF TablesOK
    <2> QED BY <2>1, EmptySeq, ElementOfSeq, LenProperties
<1>6. CASE NodeQuery(w)
    <2> DEFINE a == FirstAddress(nodes[call[w].id])
               step == IF nodes[call[w].id] = <<>> THEN "nodeUnknown" ELSE "sensorQuery"
               c == [call[w] EXCEPT !.addr = a, !.pc = step]
    <2>1. a \in Addrs \cup {Null}
        BY <1>4, FirstAddressType DEF TablesOK
    <2>2. step \in CallSteps
        BY DEF CallSteps, DbSteps, LocalSteps
    <2> HIDE DEF a, step
    <2>3. c \in Call /\ InProgress(c)
        BY <1>2, <1>3, <2>1, <2>2 DEF Call, InProgress
    <2>4. call' = [call EXCEPT ![w] = c]
        BY <1>2, <1>6 DEF NodeQuery, CallsOK, a, step
    <2> QED BY <1>1, <2>3, <2>4, CallChange
<1>7. CASE SensorQuery(w)
    <2> DEFINE step == IF rows = <<>> THEN "sensorUnknown" ELSE "calibrateBox"
    <2>1. step \in CallSteps
        BY DEF CallSteps, DbSteps, LocalSteps
    <2>2. Goto(w, step)
        BY <1>7 DEF SensorQuery
    <2> HIDE DEF step
    <2> QED BY <1>1, <1>3, <2>1, <2>2, GotoType
<1>8. CASE CalibrationRead(w)
    <2>1. CASE rows = <<>>
        BY <1>1, <1>8, <2>1, ReturnType DEF CalibrationRead
    <2>2. CASE rows # <<>>
        <3> DEFINE step == UpdateFor(rows[1], call[w].value)
                   c == [call[w] EXCEPT !.seen = rows[1], !.pc = step]
        <3>1. step \in CallSteps
            BY DEF CallSteps, DbSteps, LocalSteps, UpdateFor
        <3> HIDE DEF step
        <3>2. c \in Call /\ InProgress(c)
            BY <1>2, <1>3, <1>5, <2>2, <3>1 DEF Call, InProgress
        <3>3. call' = [call EXCEPT ![w] = c]
            BY <1>2, <1>8, <2>2 DEF CalibrationRead, CallsOK, step
        <3> QED BY <1>1, <3>2, <3>3, CallChange
    <2> QED BY <2>1, <2>2
<1>9. CASE ForwardRead(w)
    <2>1. CASE rows = <<>>
        BY <1>1, <1>9, <2>1, ReturnType DEF ForwardRead
    <2>2. CASE rows # <<>>
        <3> DEFINE c == [call[w] EXCEPT !.seen = rows[1], !.pc = "post"]
        <3>1. c \in Call /\ InProgress(c)
            BY <1>2, <1>3, <1>5, <2>2 DEF Call, InProgress, CallSteps
        <3>2. call' = [call EXCEPT ![w] = c]
            BY <1>2, <1>9, <2>2 DEF ForwardRead, CallsOK
        <3> QED BY <1>1, <3>1, <3>2, CallChange
    <2> QED BY <2>1, <2>2
<1> QED BY <1>6, <1>7, <1>8, <1>9

\* The steps of a call that look at the panel keep every type.
LEMMA LocalType ==
    ASSUME TypeOK, NEW w \in Workers,
           \/ NodeUnknown(w) \/ NodeScan(w)
           \/ SensorUnknown(w) \/ SensorAutoAdd(w) \/ SensorScan(w)
           \/ CalibrateBox(w) \/ PauseCheck(w)
    PROVE  TypeOK'
<1> USE DEF TypeOK
<1>1. TablesOK' /\ PanelOK'
    BY UnchangedTypes
    DEF NodeUnknown, NodeScan, SensorUnknown, SensorAutoAdd, SensorScan,
        CalibrateBox, PauseCheck
<1>2. call[w].pc # "idle"
    BY DEF NodeUnknown, NodeScan, SensorUnknown, SensorAutoAdd, SensorScan,
           CalibrateBox, PauseCheck, At
<1>3. {"nodeScan", "nodeInsert", "sensorAutoAdd", "sensorScan", "sensorInsert",
       "calibrateBox", "calibrationRead", "pauseCheck", "forwardRead"} \subseteq CallSteps
    BY DEF CallSteps, DbSteps, LocalSteps
<1>4. CASE NodeUnknown(w)
    BY <1>1, <1>2, <1>3, <1>4, ScanType, ReturnType DEF NodeUnknown
<1>5. CASE NodeScan(w)
    BY <1>1, <1>2, <1>3, <1>5, GotoType, ScanOnType, ReturnType DEF NodeScan
<1>6. CASE SensorUnknown(w)
    BY <1>1, <1>2, <1>3, <1>6, GotoType, ReturnType DEF SensorUnknown
<1>7. CASE SensorAutoAdd(w)
    BY <1>1, <1>2, <1>3, <1>7, GotoType, ScanType DEF SensorAutoAdd
<1>8. CASE SensorScan(w)
    BY <1>1, <1>2, <1>3, <1>8, GotoType, ScanOnType, ReturnType DEF SensorScan
<1>9. CASE CalibrateBox(w)
    BY <1>1, <1>2, <1>3, <1>9, GotoType DEF CalibrateBox
<1>10. CASE PauseCheck(w)
    BY <1>1, <1>2, <1>3, <1>10, GotoType, ReturnType DEF PauseCheck
<1> QED BY <1>4, <1>5, <1>6, <1>7, <1>8, <1>9, <1>10

\* The steps of a call that write to the tables keep every type.
LEMMA InsertType ==
    ASSUME TypeOK, NEW w \in Workers, NodeInsert(w) \/ SensorInsert(w)
    PROVE  TypeOK'
<1> USE DEF TypeOK
<1>1. call[w].pc # "idle" /\ InProgress(call[w])
    BY DEF CallsOK, NodeInsert, SensorInsert, At
<1>2. call[w].id \in Ids /\ <<call[w].id, call[w].type>> \in NodeNames \X Types
    BY <1>1 DEF InProgress, NodeNames
<1>3. CallsOK' /\ PanelOK'
    BY ReturnType, UnchangedTypes DEF NodeInsert, SensorInsert, panel, PanelOK
<1>4. CASE NodeInsert(w)
    <2> DEFINE new == Append(nodes[call[w].id], Null)
    <2>1. new \in Seq(Addrs \cup {Null})
        BY <1>2, AppendProperties DEF TablesOK
    <2>2. \/ UNCHANGED database
          \/ nodes' = [nodes EXCEPT ![call[w].id] = new] /\ UNCHANGED sensors
        BY <1>4 DEF NodeInsert, database
    <2> HIDE DEF new
    <2> QED BY <1>2, <1>3, <2>1, <2>2, NodesChange, UnchangedTypes
<1>5. CASE SensorInsert(w)
    <2> DEFINE d == <<call[w].id, call[w].type>>
               new == Append(sensors[d], Uncalibrated)
    <2>1. Uncalibrated \in Row
        BY DEF Uncalibrated, Row, Bound
    <2>2. new \in Seq(Row)
        BY <1>2, <2>1, AppendProperties DEF TablesOK
    <2>3. \/ UNCHANGED database
          \/ sensors' = [sensors EXCEPT ![d] = new] /\ UNCHANGED nodes
        BY <1>5 DEF SensorInsert, database
    <2> HIDE DEF new
    <2> QED BY <1>2, <1>3, <2>2, <2>3, SensorsChange, UnchangedTypes
<1> QED BY <1>4, <1>5

\* Every step of the Control Panel for a call keeps every type.
LEMMA CallType ==
    ASSUME TypeOK, NEW w \in Workers,
           \/ WorkerStep(w) \/ Post(w) \/ CallError(w)
           \/ \E i \in Ids, t \in Types, v \in Values : Receive(w, i, t, v)
    PROVE  TypeOK'
<1> USE DEF TypeOK
<1>1. CASE WorkerStep(w)
    <2>1. CASE WriteMin(w) \/ WriteMax(w) \/ WriteBoth(w)
        <3>1. TablesOK' /\ PanelOK'
            BY <2>1, WriteType, UnchangedTypes DEF WriteMin, WriteMax, WriteBoth
        <3>2. call[w].pc # "idle" /\ {"writeMax", "pauseCheck"} \subseteq CallSteps
            BY <2>1 DEF WriteMin, WriteMax, WriteBoth, At, CallSteps, DbSteps, LocalSteps
        <3>3. Goto(w, "writeMax") \/ Goto(w, "pauseCheck")
            BY <2>1 DEF WriteMin, WriteMax, WriteBoth
        <3> QED BY <3>1, <3>2, <3>3, GotoType
    <2> QED BY <1>1, <2>1, ReadType, LocalType, InsertType DEF WorkerStep
<1>2. CASE Post(w)
    BY <1>2, ReturnType, UnchangedTypes DEF Post
<1>3. CASE CallError(w)
    BY <1>3, ReturnType, UnchangedTypes DEF CallError, DbError, GuiError
<1>4. ASSUME NEW i \in Ids, NEW t \in Types, NEW v \in Values, Receive(w, i, t, v)
      PROVE  TypeOK'
    <2> DEFINE c == [NoCall EXCEPT !.pc = "nodeQuery", !.id = i, !.type = t, !.value = v]
    <2>1. c \in Call /\ InProgress(c)
        BY DEF NoCall, Call, CallSteps, DbSteps, NodeNames, TypeNames,
               Uncalibrated, Row, Bound, InProgress
    <2>2. call' = [call EXCEPT ![w] = c]
        BY <1>4 DEF Receive
    <2> HIDE DEF c
    <2> QED BY <1>4, <2>1, <2>2, CallChange, UnchangedTypes DEF Receive
<1> QED BY <1>1, <1>2, <1>3, <1>4

\* The event thread's record, whatever button was pressed.
LEMMA EdtType ==
    ASSUME PanelOK, UNCHANGED boxes,
           ignoreNodes' \in Seq(NodeNames),
           ignoreSensors' \in Seq([id : NodeNames, type : TypeNames]),
           NEW o \in EdtOps, NEW i \in NodeNames, NEW t \in TypeNames,
           NEW a \in Addrs \cup {Null},
           o = "addNode" => i \in Ids, o = "addSensor" => t \in Types,
           edt' = [op |-> o, id |-> i, type |-> t, addr |-> a]
    PROVE  PanelOK'
BY DEF PanelOK

\* A button press keeps every type.
LEMMA PressType ==
    ASSUME TypeOK,
           \/ \E i \in Ids, a \in Addrs : AddNode(i, a)
           \/ \E i \in NodeNames, t \in Types : AddSensor(i, t)
           \/ \E i \in NodeNames, ignore \in BOOLEAN :
                 \/ RemoveNode(i, ignore)
                 \/ \E t \in TypeNames : RemoveSensor(i, t, ignore)
    PROVE  TypeOK'
<1> USE DEF TypeOK
<1>1. CallsOK' /\ TablesOK'
    BY UnchangedTypes DEF AddNode, AddSensor, RemoveNode, RemoveSensor
<1>2. /\ {"addNode", "addSensor", "removeNode", "removeSensor"} \subseteq EdtOps
      /\ NoNode \in NodeNames /\ NoType \in TypeNames
      /\ Ids \subseteq NodeNames /\ Types \subseteq TypeNames
    BY DEF EdtOps, NodeNames, TypeNames
<1>3. /\ ignoreNodes \in Seq(NodeNames)
      /\ ignoreSensors \in Seq([id : NodeNames, type : TypeNames])
    BY DEF PanelOK
<1>4. ASSUME NEW i \in Ids, NEW a \in Addrs, AddNode(i, a) PROVE TypeOK'
    <2>1. ignoreNodes' \in Seq(NodeNames)
        BY <1>3, <1>4, RemoveFirstType DEF AddNode
    <2> QED BY <1>1, <1>2, <1>3, <1>4, <2>1, EdtType DEF AddNode, Pending
<1>5. ASSUME NEW i \in NodeNames, NEW t \in Types, AddSensor(i, t) PROVE TypeOK'
    BY <1>1, <1>2, <1>3, <1>5, EdtType DEF AddSensor, Pending
<1>6. ASSUME NEW i \in NodeNames, NEW ignore \in BOOLEAN, RemoveNode(i, ignore)
      PROVE  TypeOK'
    <2>1. ignoreNodes' \in Seq(NodeNames)
        BY <1>3, <1>6, AppendProperties DEF RemoveNode
    <2> QED BY <1>1, <1>2, <1>3, <1>6, <2>1, EdtType DEF RemoveNode, Pending
<1>7. ASSUME NEW i \in NodeNames, NEW t \in TypeNames, NEW ignore \in BOOLEAN,
             RemoveSensor(i, t, ignore)
      PROVE  TypeOK'
    <2>1. Device(i, t) \in [id : NodeNames, type : TypeNames]
        BY DEF Device
    <2>2. ignoreSensors' \in Seq([id : NodeNames, type : TypeNames])
        BY <1>3, <1>7, <2>1, AppendProperties DEF RemoveSensor
    <2> QED BY <1>1, <1>2, <1>3, <1>7, <2>2, EdtType DEF RemoveSensor, Pending
<1> QED BY <1>4, <1>5, <1>6, <1>7

\* Buttons whose handler is one statement, and the check boxes.
LEMMA QuickType ==
    ASSUME TypeOK,
           \/ \E i \in Ids, a \in Addrs : SaveNodeAddress(i, a)
           \/ \E i \in NodeNames, t \in Types : ResetCalibration(i, t)
           \/ \E b \in Boxes : Tick(b) \/ Untick(b)
    PROVE  TypeOK'
<1> USE DEF TypeOK
<1>1. CallsOK'
    BY UnchangedTypes DEF SaveNodeAddress, ResetCalibration, Tick, Untick
<1>2. ASSUME NEW i \in Ids, NEW a \in Addrs, SaveNodeAddress(i, a) PROVE TypeOK'
    <2> DEFINE new == [k \in 1 .. Len(nodes[i]) |-> a]
    <2>1. new \in Seq(Addrs \cup {Null})
        BY LenProperties DEF TablesOK
    <2>2. nodes' = [nodes EXCEPT ![i] = new] /\ UNCHANGED <<sensors, panel>>
        BY <1>2 DEF SaveNodeAddress
    <2> HIDE DEF new
    <2> QED BY <1>1, <2>1, <2>2, NodesChange, UnchangedTypes
<1>3. ASSUME NEW i \in NodeNames, NEW t \in Types, ResetCalibration(i, t)
      PROVE  TypeOK'
    <2> DEFINE d == <<i, t>>
               new == [k \in 1 .. Len(sensors[d]) |-> Uncalibrated]
    <2>1. Uncalibrated \in Row /\ d \in NodeNames \X Types
        BY DEF Uncalibrated, Row, Bound
    <2>2. new \in Seq(Row)
        BY <2>1, LenProperties DEF TablesOK
    <2>3. sensors' = [sensors EXCEPT ![d] = new] /\ UNCHANGED <<nodes, panel>>
        BY <1>3 DEF ResetCalibration, Update
    <2> HIDE DEF new, d
    <2> QED BY <1>1, <2>1, <2>2, <2>3, SensorsChange, UnchangedTypes
<1>4. ASSUME NEW b \in Boxes, Tick(b) \/ Untick(b) PROVE TypeOK'
    <2>1. PanelOK'
        BY <1>4 DEF Tick, Untick, PanelOK
    <2> QED BY <1>1, <1>4, <2>1, UnchangedTypes DEF Tick, Untick
<1> QED BY <1>2, <1>3, <1>4

\* What is left of the list after manualSensorAdd looked for a sensor in it.
LEMMA UnignoreType ==
    ASSUME ignoreSensors \in Seq([id : NodeNames, type : TypeNames]),
           NEW i \in NodeNames, NEW t \in Types
    PROVE  Unignore(i, t) \in Seq([id : NodeNames, type : TypeNames])
<1> DEFINE T == {j \in 1 .. Len(ignoreSensors) :
                   \/ EqualsThrows(ignoreSensors[j], i)
                   \/ ignoreSensors[j] = Device(i, t)}
           k == IF T # {} THEN Min(T) ELSE 0
<1>1. Unignore(i, t) = IF k = 0 \/ EqualsThrows(ignoreSensors[k], i)
                       THEN ignoreSensors ELSE RemoveAt(ignoreSensors, k)
    BY DEF Unignore, SelectInSeq
<1>2. k = 0 \/ k \in 1 .. Len(ignoreSensors)
    <2>1. T \subseteq Nat
        BY LenProperties
    <2> QED BY <2>1, MinIsMember
<1> HIDE DEF k
<1> QED BY <1>1, <1>2, RemoveAtType

\* The pending statements of the event thread, and its errors.
LEMMA EdtStepType ==
    ASSUME TypeOK, EdtStep \/ EdtError
    PROVE  TypeOK'
<1> USE DEF TypeOK
<1>1. CallsOK'
    BY UnchangedTypes
    DEF EdtStep, EdtError, AddNodeInsert, AddSensorInsert, DeleteNode,
        DeleteItsSensors, DeleteSensor
<1>2. /\ "idle" \in EdtOps /\ "removeItsSensors" \in EdtOps
      /\ NoNode \in NodeNames /\ NoType \in TypeNames
      /\ edt.id \in NodeNames /\ edt.addr \in Addrs \cup {Null}
      /\ ignoreNodes \in Seq(NodeNames)
      /\ ignoreSensors \in Seq([id : NodeNames, type : TypeNames])
    BY DEF PanelOK, EdtOps, NodeNames, TypeNames
<1>3. ASSUME edt' = EdtIdle, UNCHANGED <<ignoreNodes, boxes>>,
             ignoreSensors' \in Seq([id : NodeNames, type : TypeNames])
      PROVE  PanelOK'
    BY <1>2, <1>3, EdtType DEF EdtIdle
<1>4. CASE AddNodeInsert
    <2> DEFINE i == edt.id
               new == Append(nodes[i], edt.addr)
    <2>1. i \in Ids
        BY <1>4 DEF AddNodeInsert, PanelOK
    <2>2. new \in Seq(Addrs \cup {Null})
        BY <1>2, <2>1, AppendProperties DEF TablesOK
    <2>3. \/ UNCHANGED database
          \/ nodes' = [nodes EXCEPT ![i] = new] /\ UNCHANGED sensors
        BY <1>4 DEF AddNodeInsert, database
    <2>4. PanelOK'
        BY <1>2, <1>3, <1>4 DEF AddNodeInsert
    <2> HIDE DEF new, i
    <2> QED BY <1>1, <2>1, <2>2, <2>3, <2>4, NodesChange, UnchangedTypes
<1>5. CASE AddSensorInsert
    <2> DEFINE d == <<edt.id, edt.type>>
               new == Append(sensors[d], Uncalibrated)
    <2>1. d \in NodeNames \X Types /\ edt.type \in Types
        BY <1>2, <1>5 DEF AddSensorInsert, PanelOK
    <2>2. Uncalibrated \in Row
        BY DEF Uncalibrated, Row, Bound
    <2>3. new \in Seq(Row)
        BY <2>1, <2>2, AppendProperties DEF TablesOK
    <2>4. \/ UNCHANGED database
          \/ sensors' = [sensors EXCEPT ![d] = new] /\ UNCHANGED nodes
        BY <1>5 DEF AddSensorInsert, database
    <2>5. ignoreSensors' \in Seq([id : NodeNames, type : TypeNames])
        BY <1>2, <1>5, <2>1, UnignoreType DEF AddSensorInsert
    <2>6. PanelOK'
        BY <1>3, <1>5, <2>5 DEF AddSensorInsert
    <2> HIDE DEF new, d
    <2> QED BY <1>1, <2>1, <2>3, <2>4, <2>6, SensorsChange, UnchangedTypes
<1>6. CASE DeleteNode
    <2>1. TablesOK'
        BY <1>6 DEF DeleteNode, TablesOK
    <2>2. PanelOK'
        BY <1>2, <1>6 DEF DeleteNode, PanelOK
    <2> QED BY <1>1, <2>1, <2>2
<1>7. CASE DeleteItsSensors
    <2>1. TablesOK'
        BY <1>7 DEF DeleteItsSensors, TablesOK
    <2> QED BY <1>1, <1>2, <1>3, <1>7, <2>1 DEF DeleteItsSensors
<1>8. CASE DeleteSensor
    <2>1. TablesOK'
        BY <1>8 DEF DeleteSensor, TablesOK
    <2> QED BY <1>1, <1>2, <1>3, <1>8, <2>1 DEF DeleteSensor
<1>9. CASE EdtError
    <2>1. PanelOK'
        BY <1>2, <1>3, <1>9 DEF EdtError
    <2> QED BY <1>1, <1>9, <2>1, UnchangedTypes DEF EdtError
<1> QED BY <1>4, <1>5, <1>6, <1>7, <1>8, <1>9 DEF EdtStep

\* Starting again leaves typed tables and an empty session.
LEMMA RestartType == TypeOK /\ Restart => TypeOK'
<1> SUFFICES ASSUME TypeOK, Restart PROVE TypeOK'
    OBVIOUS
<1>1. NoCall \in Call /\ InProgress(NoCall)
    BY DEF NoCall, Call, CallSteps, DbSteps, NodeNames, TypeNames,
           Uncalibrated, Row, Bound, InProgress
<1>2. CallsOK'
    BY <1>1 DEF Restart, CallsOK
<1>3. PanelOK'
    BY DEF Restart, PanelOK, EdtIdle, EdtOps, NodeNames, TypeNames
<1>4. TablesOK'
    BY UnchangedTypes DEF Restart, TypeOK
<1> QED BY <1>2, <1>3, <1>4 DEF TypeOK

\* TypeOK is inductive: every variable of the WSN-to-VW interface keeps its
\* type in any number of calls and under any use of the panel.
THEOREM TypeCorrect == Spec => []TypeOK
<1>1. TypeOK /\ [Next]_vars => TypeOK'
    <2> SUFFICES ASSUME TypeOK, [Next]_vars PROVE TypeOK'
        OBVIOUS
    <2>1. CASE UNCHANGED vars
        BY <2>1, UnchangedTypes DEF vars, TypeOK, database, panel
    <2>2. CASE \E w \in Workers :
                  \/ \E i \in Ids, t \in Types, v \in Values : Receive(w, i, t, v)
                  \/ WorkerStep(w) \/ Post(w) \/ CallError(w)
        BY <2>2, CallType
    <2>3. CASE Operator
        BY <2>3, PressType, QuickType, OperatorAssumption DEF Operator
    <2>4. CASE EdtStep \/ EdtError \/ Restart
        BY <2>4, EdtStepType, RestartType
    <2> QED BY <2>1, <2>2, <2>3, <2>4 DEF Next
<1> QED BY InitType, <1>1, PTL DEF Spec
=============================================================================
