------------------------------ MODULE WsnToVw ------------------------------
(***************************************************************************)
(* The WSN-to-VW interface of the Control Panel.  Each XML-RPC call of     *)
(* ControlPanel.sensed runs in a worker thread of the Apache WebServer;    *)
(* the operator's buttons and check boxes run in the Swing event thread    *)
(* (EDT).  Both work on the nodes and sensors tables with auto-committed   *)
(* statements, so every statement, and every read of a check box or of an  *)
(* element of an ignore list, is a step of its own.                        *)
(*                                                                         *)
(* Left to other modules: what the lists and text fields of the GUI show,  *)
(* the MySQL details, and the connections a call holds.  The output and    *)
(* the lists are written by every thread without a lock, so here they may  *)
(* fail at any moment (GuiError).                                          *)
(*                                                                         *)
(* An operator that stands just before another and has its name with a     *)
(* suffix (NodeUnknownNoReturn, WriteBothOnlyMin) is the other with a slip *)
(* a programmer could make; PROJECT.json names the property it breaks.     *)
(***************************************************************************)
EXTENDS Scaling, Sequences, SequencesExt

CONSTANTS
    Ids,          \* names of sensor nodes
    Types,        \* names of sensor types
    Values,       \* the readings the nodes send
    Addrs,        \* well-formed URLs in the virtual world
    Workers,      \* XML-RPC worker threads
    NoNode,       \* what an empty node list selects ('null' in a statement)
    NoType,       \* what an empty sensor list selects
    UniqueKeys,   \* do the tables, made outside this code, have unique keys?
    Ops,          \* the buttons the operator uses
    Ticks,        \* the check boxes the operator ticks
    Unticks,      \* the check boxes the operator unticks
    Faults,       \* what can fail: "db", "vw", "gui", "restart"
    MaxIgnored    \* bound on the length of each ignore list

Boxes == {"autoNode", "autoSensor", "calibrate", "pause"}
Removals == {"removeNode", "removeSensor"}
Buttons == Removals \cup {"addNode", "addSensor", "reset", "setAddress"}

ASSUME ValuesAssumption == Values \subseteq JavaInt
ASSUME NamesAssumption ==
    /\ NoNode \notin Ids /\ NoType \notin Types
    /\ Null \notin Addrs /\ Null \notin Row
ASSUME OperatorAssumption ==
    Ops \subseteq Buttons /\ Ticks \subseteq Boxes /\ Unticks \subseteq Boxes
ASSUME EnvironmentAssumption ==
    /\ UniqueKeys \in BOOLEAN
    /\ Faults \subseteq {"db", "vw", "gui", "restart"}
    /\ MaxIgnored \in Nat

VARIABLES
    nodes,          \* id -> the addresses of its rows in the nodes table
    sensors,        \* <<id, type>> -> its rows in the sensors table
    ignoreNodes,    \* ignoreNodeList
    ignoreSensors,  \* ignoreSensorList
    boxes,          \* the check boxes
    edt,            \* the statement the event thread is about to execute
    call            \* worker -> its call of sensed, or the last one it served

vars == <<nodes, sensors, ignoreNodes, ignoreSensors, boxes, edt, call>>
database == <<nodes, sensors>>
panel == <<ignoreNodes, ignoreSensors, boxes, edt>>

NodeNames == Ids \cup {NoNode}
TypeNames == Types \cup {NoType}
Device(i, t) == [id |-> i, type |-> t]

(***************************************************************************)
(* A call.  addr is addresses.get(0), Null for the empty list; pos is the  *)
(* index ArrayList.contains has reached; seen is the row the call last     *)
(* read.  added and sent record what the call did: what it registered, and *)
(* the row with which it scaled the value the virtual world received.      *)
(***************************************************************************)
DbSteps ==
    {"nodeQuery", "nodeInsert", "sensorQuery", "sensorInsert",
     "calibrationRead", "writeMin", "writeMax", "writeBoth", "forwardRead"}
LocalSteps ==
    {"nodeUnknown", "nodeScan", "sensorUnknown", "sensorAutoAdd",
     "sensorScan", "calibrateBox", "pauseCheck"}
CallSteps == DbSteps \cup LocalSteps \cup {"post"}

Call == [pc : CallSteps \cup {"idle"},
         id : NodeNames, type : TypeNames, value : Values \cup {Null},
         addr : Addrs \cup {Null}, pos : Nat, seen : Row,
         added : {"no", "node", "sensor"}, sent : Row \cup {Null},
         ret : {"none", "true", "false", "fault"}]

NoCall == [pc |-> "idle", id |-> NoNode, type |-> NoType, value |-> Null,
           addr |-> Null, pos |-> 0, seen |-> Uncalibrated,
           added |-> "no", sent |-> Null, ret |-> "none"]

EdtOps == {"idle", "addNode", "addSensor", "removeNode", "removeItsSensors",
           "removeSensor"}
EdtIdle == [op |-> "idle", id |-> NoNode, type |-> NoType, addr |-> Null]

TablesOK ==
    /\ nodes \in [Ids -> Seq(Addrs \cup {Null})]
    /\ sensors \in [NodeNames \X Types -> Seq(Row)]

PanelOK ==
    /\ ignoreNodes \in Seq(NodeNames)
    /\ ignoreSensors \in Seq([id : NodeNames, type : TypeNames])
    /\ boxes \in [Boxes -> BOOLEAN]
    /\ edt \in [op : EdtOps, id : NodeNames, type : TypeNames,
                addr : Addrs \cup {Null}]
    /\ edt.op = "addNode" => edt.id \in Ids
    /\ edt.op = "addSensor" => edt.type \in Types

InProgress(c) ==
    c.pc # "idle" => c.id \in Ids /\ c.type \in Types /\ c.value \in Values

CallsOK ==
    /\ call \in [Workers -> Call]
    /\ \A w \in Workers : InProgress(call[w])

TypeOK == TablesOK /\ PanelOK /\ CallsOK

(***************************************************************************)
(* The tables may hold what an earlier session left: nodes with or without *)
(* an address, and sensors of those nodes, calibrated in order or not.     *)
(***************************************************************************)
OrderedRow(r) == Calibrated(r) => r.min <= r.max
LeftBehind ==
    {Uncalibrated} \cup {r \in [min : Values, max : Values] : OrderedRow(r)}

Init ==
    /\ nodes \in [Ids -> {<<>>} \cup {<<a>> : a \in Addrs \cup {Null}}]
    /\ sensors \in [NodeNames \X Types -> {<<>>} \cup {<<r>> : r \in LeftBehind}]
    /\ \A i \in NodeNames, t \in Types :
          sensors[<<i, t>>] # <<>> => i \in Ids /\ nodes[i] # <<>>
    /\ ignoreNodes = <<>>
    /\ ignoreSensors = <<>>
    /\ boxes = [b \in Boxes |-> FALSE]
    /\ edt = EdtIdle
    /\ call = [w \in Workers |-> NoCall]

-----------------------------------------------------------------------------
(* sensed: which node and which sensor sent the reading *)

At(w, step) == call[w].pc = step
Goto(w, step) == call' = [call EXCEPT ![w].pc = step]
Scan(w, step) == call' = [call EXCEPT ![w].pc = step, ![w].pos = 1]
ScanOn(w) == call' = [call EXCEPT ![w].pos = @ + 1]
Finish(w, answer, what, row) ==
    call' = [call EXCEPT ![w] = [@ EXCEPT
                !.pc = "idle", !.ret = answer, !.added = what, !.sent = row,
                !.addr = Null, !.pos = 0, !.seen = Uncalibrated]]
Return(w, answer) == Finish(w, answer, call[w].added, call[w].sent)
Delivered(w, answer) == Finish(w, answer, call[w].added, call[w].seen)
RegisteredAndGoesOn(w, what) ==
    call' = [call EXCEPT ![w].pc = "sensorQuery", ![w].added = what]
Registered(w, what) ==
    \/ Finish(w, "false", what, call[w].sent)
    \/ "gui" \in Faults /\ Finish(w, "fault", what, call[w].sent)

\* addresses.get(0): rows whose address does not parse are left out.
FirstAddress(rows) ==
    LET k == SelectInSeq(rows, LAMBDA a : a # Null)
    IN  IF k = 0 THEN Null ELSE rows[k]

\* An INSERT of a row whose key is taken fails if the key is unique.
CanInsert(rows) == UniqueKeys => rows = <<>>

Receive(w, i, t, v) ==
    /\ At(w, "idle")
    /\ call' = [call EXCEPT ![w] = [NoCall EXCEPT
                   !.pc = "nodeQuery", !.id = i, !.type = t, !.value = v]]
    /\ UNCHANGED <<database, panel>>

NodeQuery(w) ==
    LET rows == nodes[call[w].id]
    IN  /\ At(w, "nodeQuery")
        /\ call' = [call EXCEPT
              ![w].addr = FirstAddress(rows),
              ![w].pc = IF rows = <<>> THEN "nodeUnknown" ELSE "sensorQuery"]
        /\ UNCHANGED <<database, panel>>

NodeUnknownNoReturn(w) ==
    /\ At(w, "nodeUnknown")
    /\ IF boxes["autoNode"] THEN Scan(w, "nodeScan") ELSE Goto(w, "sensorQuery")
    /\ UNCHANGED <<database, panel>>

NodeUnknownInverted(w) ==
    /\ At(w, "nodeUnknown")
    /\ IF boxes["autoNode"] THEN Return(w, "false") ELSE Scan(w, "nodeScan")
    /\ UNCHANGED <<database, panel>>

NodeUnknown(w) ==
    /\ At(w, "nodeUnknown")
    /\ IF boxes["autoNode"] THEN Scan(w, "nodeScan") ELSE Return(w, "false")
    /\ UNCHANGED <<database, panel>>

\* One round of the loop in ignoreNodeList.contains(id).
NodeScan(w) ==
    LET k == call[w].pos
    IN  /\ At(w, "nodeScan")
        /\ \/ k > Len(ignoreNodes) /\ Goto(w, "nodeInsert")
           \/ /\ k <= Len(ignoreNodes)
              /\ IF ignoreNodes[k] = call[w].id
                 THEN Return(w, "false") ELSE ScanOn(w)
        /\ UNCHANGED <<database, panel>>

NodeInsertQuotedNull(w) ==
    LET i == call[w].id
    IN  /\ At(w, "nodeInsert") /\ CanInsert(nodes[i])
        /\ nodes' = [nodes EXCEPT ![i] = Append(@, NoNode)]
        /\ Registered(w, "node")
        /\ UNCHANGED <<sensors, panel>>

NodeInsert(w) ==
    LET i == call[w].id
    IN  /\ At(w, "nodeInsert")
        /\ IF CanInsert(nodes[i])
           THEN /\ nodes' = [nodes EXCEPT ![i] = Append(@, Null)]
                /\ Registered(w, "node")
           ELSE Return(w, "false") /\ UNCHANGED nodes
        /\ UNCHANGED <<sensors, panel>>

SensorQuery(w) ==
    /\ At(w, "sensorQuery")
    /\ Goto(w, IF sensors[<<call[w].id, call[w].type>>] = <<>>
               THEN "sensorUnknown" ELSE "calibrateBox")
    /\ UNCHANGED <<database, panel>>

\* The if and the else if read the check box once each.
SensorUnknownNoReturn(w) ==
    /\ At(w, "sensorUnknown")
    /\ Goto(w, IF boxes["autoSensor"] THEN "sensorAutoAdd" ELSE "calibrateBox")
    /\ UNCHANGED <<database, panel>>

SensorUnknown(w) ==
    /\ At(w, "sensorUnknown")
    /\ IF boxes["autoSensor"] THEN Goto(w, "sensorAutoAdd")
                              ELSE Return(w, "false")
    /\ UNCHANGED <<database, panel>>

SensorAutoAdd(w) ==
    /\ At(w, "sensorAutoAdd")
    /\ IF boxes["autoSensor"] THEN Scan(w, "sensorScan")
                              ELSE Goto(w, "calibrateBox")
    /\ UNCHANGED <<database, panel>>

\* SensorIgnoreIdTypeObject.equals dereferences the element's id, and its
\* type when the ids are equal: a null there is a NullPointerException.
EqualsThrows(e, i) == e.id = NoNode \/ (e.id = i /\ e.type = NoType)

SensorScan(w) ==
    LET k == call[w].pos
        e == ignoreSensors[k]
    IN  /\ At(w, "sensorScan")
        /\ \/ k > Len(ignoreSensors) /\ Goto(w, "sensorInsert")
           \/ /\ k <= Len(ignoreSensors)
              /\ \/ EqualsThrows(e, call[w].id) /\ Return(w, "fault")
                 \/ /\ ~EqualsThrows(e, call[w].id)
                    /\ IF e = Device(call[w].id, call[w].type)
                       THEN Return(w, "false") ELSE ScanOn(w)
        /\ UNCHANGED <<database, panel>>

SensorInsert(w) ==
    LET d == <<call[w].id, call[w].type>>
    IN  /\ At(w, "sensorInsert")
        /\ IF CanInsert(sensors[d])
           THEN /\ sensors' = [sensors EXCEPT ![d] = Append(@, Uncalibrated)]
                /\ Registered(w, "sensor")
           ELSE Return(w, "false") /\ UNCHANGED sensors
        /\ UNCHANGED <<nodes, panel>>

-----------------------------------------------------------------------------
(* sensed: calibration *)

CalibrateBox(w) ==
    /\ At(w, "calibrateBox")
    /\ Goto(w, IF boxes["calibrate"] THEN "calibrationRead" ELSE "pauseCheck")
    /\ UNCHANGED <<database, panel>>

\* Which column the reading v asks to be updated, given the row r.
UpdateForSwapped(r, v) ==
    IF Calibrated(r)
    THEN IF v < r.min THEN "writeMax"
         ELSE IF v > r.max THEN "writeMin" ELSE "pauseCheck"
    ELSE IF r = Uncalibrated THEN "writeBoth" ELSE "pauseCheck"

UpdateForNeverFirst(r, v) ==
    IF Calibrated(r)
    THEN IF v < r.min THEN "writeMin"
         ELSE IF v > r.max THEN "writeMax" ELSE "pauseCheck"
    ELSE "pauseCheck"

UpdateFor(r, v) ==
    IF Calibrated(r)
    THEN IF v < r.min THEN "writeMin"
         ELSE IF v > r.max THEN "writeMax" ELSE "pauseCheck"
    ELSE IF r = Uncalibrated THEN "writeBoth" ELSE "pauseCheck"

\* min.get(0) throws if the SELECT found no row.
CalibrationRead(w) ==
    LET rows == sensors[<<call[w].id, call[w].type>>]
    IN  /\ At(w, "calibrationRead")
        /\ \/ rows = <<>> /\ Return(w, "fault")
           \/ /\ rows # <<>>
              /\ call' = [call EXCEPT
                    ![w].seen = rows[1],
                    ![w].pc = UpdateFor(rows[1], call[w].value)]
        /\ UNCHANGED <<database, panel>>

\* UPDATE sensors SET ... WHERE id and type: every such row, if any.
Update(i, t, row(_)) ==
    sensors' = [sensors EXCEPT
                  ![<<i, t>>] = [k \in 1 .. Len(@) |-> row(@[k])]]

WriteMin(w) ==
    LET c == call[w]
    IN  /\ At(w, "writeMin")
        /\ Update(c.id, c.type, LAMBDA r : [r EXCEPT !.min = c.value])
        /\ Goto(w, IF c.value > c.seen.max THEN "writeMax" ELSE "pauseCheck")
        /\ UNCHANGED <<nodes, panel>>

WriteMax(w) ==
    LET c == call[w]
    IN  /\ At(w, "writeMax")
        /\ Update(c.id, c.type, LAMBDA r : [r EXCEPT !.max = c.value])
        /\ Goto(w, "pauseCheck")
        /\ UNCHANGED <<nodes, panel>>

WriteBothOnlyMin(w) ==
    LET c == call[w]
    IN  /\ At(w, "writeBoth")
        /\ Update(c.id, c.type, LAMBDA r : [r EXCEPT !.min = c.value])
        /\ Goto(w, "pauseCheck")
        /\ UNCHANGED <<nodes, panel>>

WriteBoth(w) ==
    LET c == call[w]
    IN  /\ At(w, "writeBoth")
        /\ Update(c.id, c.type, LAMBDA r : [min |-> c.value, max |-> c.value])
        /\ Goto(w, "pauseCheck")
        /\ UNCHANGED <<nodes, panel>>

-----------------------------------------------------------------------------
(* sensed and HTTPPOSTForward: forwarding to the virtual world *)

\* The pause box, then addresses.get(0) as it was read by NodeQuery.
PauseForgotten(w) ==
    /\ At(w, "pauseCheck")
    /\ IF call[w].addr = Null THEN Return(w, "false") ELSE Goto(w, "forwardRead")
    /\ UNCHANGED <<database, panel>>

PauseCheck(w) ==
    /\ At(w, "pauseCheck")
    /\ IF boxes["pause"] \/ call[w].addr = Null
       THEN Return(w, "false") ELSE Goto(w, "forwardRead")
    /\ UNCHANGED <<database, panel>>

ForwardRead(w) ==
    LET rows == sensors[<<call[w].id, call[w].type>>]
    IN  /\ At(w, "forwardRead")
        /\ \/ rows = <<>> /\ Return(w, "fault")
           \/ /\ rows # <<>>
              /\ call' = [call EXCEPT ![w].seen = rows[1], ![w].pc = "post"]
        /\ UNCHANGED <<database, panel>>

PostRetries(w) ==
    /\ At(w, "post")
    /\ \/ Delivered(w, "true")
       \/ "vw" \in Faults /\ Goto(w, "forwardRead")
    /\ UNCHANGED <<database, panel>>

\* An answer other than 200, or none, is an IOException: the virtual world
\* may or may not have received the reading.
Post(w) ==
    /\ At(w, "post")
    /\ \/ Delivered(w, "true")
       \/ "vw" \in Faults /\ (Delivered(w, "false") \/ Return(w, "false"))
    /\ UNCHANGED <<database, panel>>

\* An SQLException ends the call.  When the statement is a write that took
\* effect before the error, this is a later step of the same call failing.
DbError(w) ==
    /\ "db" \in Faults
    /\ call[w].pc \in DbSteps
    /\ Return(w, "false")
    /\ UNCHANGED <<database, panel>>

\* appendToOutput sets the caret of a terminal to the length of another, and
\* a list is refreshed in the thread of the call: either can throw.
GuiError(w) ==
    /\ "gui" \in Faults
    /\ ~At(w, "idle")
    /\ Return(w, "fault") \/ (At(w, "post") /\ Delivered(w, "fault"))
    /\ UNCHANGED <<database, panel>>

CallError(w) == DbError(w) \/ GuiError(w)

WorkerStep(w) ==
    \/ NodeQuery(w) \/ NodeUnknown(w) \/ NodeScan(w) \/ NodeInsert(w)
    \/ SensorQuery(w) \/ SensorUnknown(w) \/ SensorAutoAdd(w)
    \/ SensorScan(w) \/ SensorInsert(w)
    \/ CalibrateBox(w) \/ CalibrationRead(w)
    \/ WriteMin(w) \/ WriteMax(w) \/ WriteBoth(w)
    \/ PauseCheck(w) \/ ForwardRead(w)
-----------------------------------------------------------------------------
(***************************************************************************)
(* The operator.  A button's handler runs in the event thread, so no other *)
(* handler and no check box change runs until it returns.  A node can be   *)
(* selected if it is in the database; the lists are emptied while they are *)
(* refreshed, so nothing may be selected too.                              *)
(***************************************************************************)
Selectable == {i \in Ids : nodes[i] # <<>>} \cup {NoNode}
Press(op) == op \in Ops /\ edt.op = "idle"
Pending(o, i, t, a) == edt' = [op |-> o, id |-> i, type |-> t, addr |-> a]

\* manualNodeAdd up to the INSERT: nothing more happens if the id is taken.
AddNode(i, a) ==
    /\ Press("addNode")
    /\ nodes[i] = <<>>
    /\ ignoreNodes' = RemoveFirst(ignoreNodes, i)
    /\ Pending("addNode", i, NoType, a)
    /\ UNCHANGED <<database, ignoreSensors, boxes, call>>

AddNodeInsert ==
    /\ edt.op = "addNode"
    /\ nodes' = IF CanInsert(nodes[edt.id])
                THEN [nodes EXCEPT ![edt.id] = Append(@, edt.addr)] ELSE nodes
    /\ edt' = EdtIdle
    /\ UNCHANGED <<sensors, ignoreNodes, ignoreSensors, boxes, call>>

\* manualSensorAdd up to the INSERT.  Its first look at the ignore list asks
\* for a string, which is equal to no element.
AddSensor(i, t) ==
    /\ Press("addSensor")
    /\ i \in Selectable
    /\ sensors[<<i, t>>] = <<>>
    /\ Pending("addSensor", i, t, Null)
    /\ UNCHANGED <<database, ignoreNodes, ignoreSensors, boxes, call>>

\* contains and remove meet the first element that is equal or that throws.
Unignore(i, t) ==
    LET k == SelectInSeq(ignoreSensors,
                         LAMBDA e : EqualsThrows(e, i) \/ e = Device(i, t))
    IN  IF k = 0 \/ EqualsThrows(ignoreSensors[k], i)
        THEN ignoreSensors ELSE RemoveAt(ignoreSensors, k)

AddSensorInsert ==
    /\ edt.op = "addSensor"
    /\ IF CanInsert(sensors[<<edt.id, edt.type>>])
       THEN /\ sensors' = [sensors EXCEPT ![<<edt.id, edt.type>>] =
                              Append(@, Uncalibrated)]
            /\ \/ ignoreSensors' = Unignore(edt.id, edt.type)
               \/ "gui" \in Faults /\ UNCHANGED ignoreSensors
       ELSE UNCHANGED <<sensors, ignoreSensors>>
    /\ edt' = EdtIdle
    /\ UNCHANGED <<nodes, ignoreNodes, boxes, call>>

\* removeNode: the ignore list first, then one DELETE for each table.
RemoveNode(i, ignore) ==
    /\ Press("removeNode")
    /\ i \in Selectable
    /\ ignore => Len(ignoreNodes) < MaxIgnored
    /\ ignoreNodes' = IF ignore THEN Append(ignoreNodes, i) ELSE ignoreNodes
    /\ Pending("removeNode", i, NoType, Null)
    /\ UNCHANGED <<database, ignoreSensors, boxes, call>>

DeleteNode ==
    /\ edt.op = "removeNode"
    /\ nodes' = [i \in Ids |-> IF i = edt.id THEN <<>> ELSE nodes[i]]
    /\ edt' = [edt EXCEPT !.op = "removeItsSensors"]
    /\ UNCHANGED <<sensors, ignoreNodes, ignoreSensors, boxes, call>>

DeleteItsSensors ==
    /\ edt.op = "removeItsSensors"
    /\ sensors' = [d \in NodeNames \X Types |->
                     IF d[1] = edt.id THEN <<>> ELSE sensors[d]]
    /\ edt' = EdtIdle
    /\ UNCHANGED <<nodes, ignoreNodes, ignoreSensors, boxes, call>>

\* removeSensor: the sensor list shows the sensors of the selected node.
RemoveSensor(i, t, ignore) ==
    /\ Press("removeSensor")
    /\ i \in Selectable
    /\ t # NoType => sensors[<<i, t>>] # <<>>
    /\ ignore => Len(ignoreSensors) < MaxIgnored
    /\ ignoreSensors' = IF ignore THEN Append(ignoreSensors, Device(i, t))
                                  ELSE ignoreSensors
    /\ Pending("removeSensor", i, t, Null)
    /\ UNCHANGED <<database, ignoreNodes, boxes, call>>

DeleteSensor ==
    /\ edt.op = "removeSensor"
    /\ sensors' = [d \in NodeNames \X Types |->
                     IF d = <<edt.id, edt.type>> THEN <<>> ELSE sensors[d]]
    /\ edt' = EdtIdle
    /\ UNCHANGED <<nodes, ignoreNodes, ignoreSensors, boxes, call>>

ResetCalibration(i, t) ==
    /\ Press("reset")
    /\ i \in Selectable
    /\ Update(i, t, LAMBDA r : Uncalibrated)
    /\ UNCHANGED <<nodes, panel, call>>

SaveNodeAddress(i, a) ==
    /\ Press("setAddress")
    /\ nodes' = [nodes EXCEPT ![i] = [k \in 1 .. Len(@) |-> a]]
    /\ UNCHANGED <<sensors, panel, call>>

Tick(b) ==
    /\ edt.op = "idle"
    /\ boxes' = [boxes EXCEPT ![b] = TRUE]
    /\ UNCHANGED <<database, ignoreNodes, ignoreSensors, edt, call>>

Untick(b) ==
    /\ edt.op = "idle"
    /\ boxes' = [boxes EXCEPT ![b] = FALSE]
    /\ UNCHANGED <<database, ignoreNodes, ignoreSensors, edt, call>>

\* An SQLException in a handler, or one from the GUI: it undoes nothing.
EdtError ==
    /\ Faults \cap {"db", "gui"} # {}
    /\ edt.op # "idle"
    /\ edt' = EdtIdle
    /\ UNCHANGED <<database, ignoreNodes, ignoreSensors, boxes, call>>

\* The Control Panel ends and is started again; only the tables persist.
Restart ==
    /\ "restart" \in Faults
    /\ ignoreNodes' = <<>>
    /\ ignoreSensors' = <<>>
    /\ boxes' = [b \in Boxes |-> FALSE]
    /\ edt' = EdtIdle
    /\ call' = [w \in Workers |-> NoCall]
    /\ UNCHANGED database

EdtStep ==
    \/ AddNodeInsert \/ AddSensorInsert
    \/ DeleteNode \/ DeleteItsSensors \/ DeleteSensor

Operator ==
    \/ \E i \in Ids, a \in Addrs : AddNode(i, a) \/ SaveNodeAddress(i, a)
    \/ \E i \in NodeNames, t \in Types : AddSensor(i, t) \/ ResetCalibration(i, t)
    \/ \E i \in NodeNames, ignore \in BOOLEAN :
          \/ RemoveNode(i, ignore)
          \/ \E t \in TypeNames : RemoveSensor(i, t, ignore)
    \/ \E b \in Ticks : Tick(b)
    \/ \E b \in Unticks : Untick(b)

Next ==
    \/ \E w \in Workers :
          \/ \E i \in Ids, t \in Types, v \in Values : Receive(w, i, t, v)
          \/ WorkerStep(w) \/ Post(w) \/ CallError(w)
    \/ Operator \/ EdtStep \/ EdtError \/ Restart

Spec == Init /\ [][Next]_vars

-----------------------------------------------------------------------------
(* Safety *)

\* Every sensor row belongs to a registered node (sensed adds a sensor only
\* to a node it found, and removeNode deletes the sensors with the node).
NoOrphanSensors ==
    \A i \in Ids, t \in Types : sensors[<<i, t>>] # <<>> => nodes[i] # <<>>

\* The same, once no call and no handler is half way: what removeNode leaves
\* behind for the next node of that name.
AtRest == edt.op = "idle" /\ \A w \in Workers : At(w, "idle")
NoOrphansAtRest == AtRest => NoOrphanSensors

\* As long as the GUI does not fail it, no call ends in an unchecked exception:
\* get(0) on the result of a SELECT, in sensed and in HTTPPOSTForward, finds
\* the row that was there before, and the scan of an ignore list no null.
NoFault == \A w \in Workers : call[w].ret # "fault"

\* Along a call, the node that NodeQuery found and the sensor that SensorQuery
\* found are still in the tables ("node must be recognised to get this far").
PastSensor ==
    {"calibrateBox", "calibrationRead", "writeMin", "writeMax", "writeBoth",
     "pauseCheck", "forwardRead", "post"}
PastNode ==
    PastSensor \cup {"sensorQuery", "sensorUnknown", "sensorAutoAdd",
                    "sensorScan", "sensorInsert"}
Recognised ==
    \A w \in Workers :
        /\ call[w].pc \in PastNode => nodes[call[w].id] # <<>>
        /\ call[w].pc \in PastSensor =>
              sensors[<<call[w].id, call[w].type>>] # <<>>

\* The reading with which a node or a sensor is registered goes no further,
\* and what a call acknowledges is what the virtual world has received.
FirstReadingNotForwarded ==
    \A w \in Workers :
        /\ call[w].added # "no" => call[w].sent = Null /\ call[w].ret # "true"
        /\ call[w].ret = "true" => call[w].sent # Null

\* min and max are set together: a row with one of them is never scaled and,
\* as sensed updates rows with both or with none, never calibrated again.
NoHalfCalibration ==
    \A d \in NodeNames \X Types : \A k \in DOMAIN sensors[d] :
        LET r == sensors[d][k] IN (r.min = Null) <=> (r.max = Null)

\* Until they are reset, min only goes down and max only goes up.
Widens(r, s) ==
    /\ r.min # Null /\ s.min # Null => s.min <= r.min
    /\ r.max # Null /\ s.max # Null => s.max >= r.max
OnlyWidens ==
    [][\A d \in NodeNames \X Types :
          \A k \in DOMAIN sensors[d] \cap DOMAIN sensors'[d] :
              Widens(sensors[d][k], sensors'[d][k])]_vars

\* A reading forwarded with a calibrated row is in [0, 1], whatever the row
\* and the reading are, except for a zero reading when min = max.
Forwarded(w) == call[w].sent # Null /\ Calibrated(call[w].sent)
ForwardedInUnit ==
    \A w \in Workers :
        LET r == call[w].sent
            v == call[w].value
        IN  Forwarded(w) /\ ~(r.min = r.max /\ v = 0) => InUnit(Scaled(v, r))

-----------------------------------------------------------------------------
(***************************************************************************)
(* What all this promises is ReadingForwarding: a call holds its reading   *)
(* until it returns, its registrations are those of added, and it has      *)
(* forwarded the reading when sent is set.                                 *)
(***************************************************************************)
EffectOf(c) ==
    IF c.added # "no" THEN "registered"
    ELSE IF c.sent # Null THEN "forwarded" ELSE "none"

Registrations ==
    {i \in Ids : nodes[i] # <<>>} \cup {d \in NodeNames \X Types : sensors[d] # <<>>}

ReadingOf(c) ==
    [status |-> IF c.pc = "idle" THEN "free" ELSE "held",
     effect |-> EffectOf(c), answer |-> c.ret]

Abstract == INSTANCE ReadingForwarding WITH
    Senders <- NodeNames \cup (NodeNames \X Types),
    known <- Registrations,
    reading <- [w \in Workers |-> ReadingOf(call[w])]

\* A call has one effect at most, is answered once, and says "true" only of
\* a reading that reached the virtual world; nothing else but the operator's
\* buttons changes what is registered.
ImplementsForwarding == Abstract!Spec

\* With the fairness below, every reading that is taken is answered too.
AnswersReadings == Abstract!FairSpec

-----------------------------------------------------------------------------
(***************************************************************************)
(* Liveness.  The thread of a call runs until it returns, and MySQL        *)
(* answers each statement or fails it.  HttpURLConnection is used with no  *)
(* timeout, so that the virtual world answers each post or breaks the      *)
(* connection is assumed of it.  Nodes go on sending readings of each of   *)
(* their sensors.                                                          *)
(***************************************************************************)
Fairness ==
    /\ \A w \in Workers : WF_vars(WorkerStep(w)) /\ WF_vars(Post(w))
    /\ WF_vars(EdtStep)

Readings ==
    \A i \in Ids, t \in Types :
        SF_vars(\E w \in Workers, v \in Values : Receive(w, i, t, v))

LoadedSpec == Spec /\ Fairness /\ Readings

\* With the auto add boxes ticked for good, every node and sensor that keeps
\* sending is registered in the end.
AutoRegistration ==
    <>[](boxes["autoNode"] /\ boxes["autoSensor"]) =>
        <>(\A i \in Ids, t \in Types : nodes[i] # <<>> /\ sensors[<<i, t>>] # <<>>)

\* With calibration ticked for good, every registered sensor that keeps
\* sending is calibrated in the end.
CalibrationHappens ==
    <>[](boxes["calibrate"]) =>
        \A i \in Ids, t \in Types :
            [](sensors[<<i, t>>] # <<>> => <>(\A k \in DOMAIN sensors[<<i, t>>] :
                                             Calibrated(sensors[<<i, t>>][k])))

=============================================================================
