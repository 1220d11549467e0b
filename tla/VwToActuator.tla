---------------------------- MODULE VwToActuator ----------------------------
(***************************************************************************)
(* The VW-to-actuator interface: the virtual world sends a command to the  *)
(* HTTP server of the Control Panel (HTTPHandler.handle), which looks the  *)
(* actuator up in the actuators table and calls ActuatorRPCServer.control  *)
(* at its address by XML-RPC, which switches a relay of a Phidget kit.     *)
(*                                                                         *)
(* HttpServer has no executor of its own here, so its one dispatcher       *)
(* thread runs the handlers one after the other; the calls at the actuator *)
(* server run each in a thread, and the operator in the event thread.      *)
(***************************************************************************)
EXTENDS Naturals, FiniteSets

CONSTANTS
    Ids,        \* ids of actuators
    Blue,       \* the id of the blue light, 1
    Red,        \* the id of the red light, 2
    Addrs,      \* URLs an actuator may be registered with
    Server,     \* the one at which ActuatorRPCServer runs
    Clients,    \* objects in the virtual world that send commands
    Null,       \* no row in the table
    Sent,       \* what the clients ask for
    Faults,     \* what can fail: see AllFaults
    MaxLate     \* bound on the calls that are late at a time

\* A database error, an exception in the GUI's output, a body that is read in
\* part, a client that has gone, a lost XML-RPC call or answer, the Phidget
\* kit's plug, a restart of the actuator server, one of the Control Panel.
AllFaults == {"db", "gui", "cut", "client", "net", "kit", "server", "panel"}

ASSUME LightsAssumption == Blue \in Ids /\ Red \in Ids /\ Blue # Red
ASSUME AddressAssumption == Server \in Addrs /\ Null \notin Addrs
ASSUME EnvironmentAssumption ==
    /\ Sent \subseteq {"on", "off", "other"}
    /\ Faults \subseteq AllFaults
    /\ MaxLate \in Nat

VARIABLES
    actuators,  \* id -> its address in the actuators table, or Null
    pause,      \* the pause check box
    req,        \* client -> its request, or the last one it made
    late,       \* calls that reach the actuator server after they were given up
    kit,        \* the Phidget kit as the actuator server knows it
    output,     \* the relays
    acked       \* history: the last command answered 200, for each id

vars == <<actuators, pause, req, late, kit, output, acked>>
table == <<actuators, pause>>
device == <<late, kit, output>>

Lights == {Blue, Red}
Commands == {"on", "off"}
Actions == Commands \cup {"other"}   \* any other text is no command
Handling == {"select", "pauseCheck", "send", "rpc"}

\* did is a history: the command has switched its relay.
Request == [pc : Handling \cup {"idle", "waiting"}, post : BOOLEAN,
            id : Ids, action : Actions, addr : Addrs \cup {Null},
            result : {"none", "true", "false"}, did : BOOLEAN,
            code : {"none", "200", "400", "closed", "unanswered"}]

TypeOK ==
    /\ actuators \in [Ids -> Addrs \cup {Null}]
    /\ pause \in BOOLEAN
    /\ req \in [Clients -> Request]
    /\ late \in SUBSET [id : Ids, action : Actions]
    /\ kit \in {"none", "opened", "attached"}
    /\ output \in [{6, 7} -> BOOLEAN]
    /\ acked \in [Lights -> Commands \cup {"none"}]

NoRequest == [pc |-> "idle", post |-> TRUE, id |-> Blue, action |-> "other",
              addr |-> Null, result |-> "none", did |-> FALSE, code |-> "none"]

Released == [r \in {6, 7} |-> FALSE]

Init ==
    /\ actuators \in [Ids -> Addrs \cup {Null}]
    /\ pause = FALSE
    /\ req = [c \in Clients |-> NoRequest]
    /\ late = {}
    /\ kit = "none"
    /\ output = Released
    /\ acked = [l \in Lights |-> "none"]

-----------------------------------------------------------------------------
(* The HTTP server of the Control Panel *)

At(c, step) == req[c].pc = step
InHandler(c) == req[c].pc \in Handling
Becomes(c, r) == req' = [req EXCEPT ![c] = r]
Goto(c, step) == Becomes(c, [req[c] EXCEPT !.pc = step])
Ends(c, code) == Becomes(c, [NoRequest EXCEPT !.code = code, !.did = req[c].did])

SendRequest(c, post, i, a) ==
    /\ At(c, "idle")
    /\ Becomes(c, [NoRequest EXCEPT
                     !.pc = "waiting", !.post = post, !.id = i, !.action = a])
    /\ UNCHANGED <<table, device, acked>>

\* The method, then the body, of which one read may return a part: it has no
\* action, which is an exception, or what is left of one.
Parse(c) ==
    \/ ~req[c].post /\ Ends(c, "unanswered")
    \/ req[c].post /\ Goto(c, "select")
    \/ /\ req[c].post /\ "cut" \in Faults
       /\ \/ Ends(c, "closed")
          \/ Becomes(c, [req[c] EXCEPT !.pc = "select", !.action = "other"])

TakeConcurrent(c) ==
    /\ At(c, "waiting")
    /\ Parse(c)
    /\ UNCHANGED <<table, device, acked>>

Take(c) ==
    /\ At(c, "waiting")
    /\ \A d \in Clients : ~InHandler(d)
    /\ Parse(c)
    /\ UNCHANGED <<table, device, acked>>

Select(c) ==
    /\ At(c, "select")
    /\ \/ actuators[req[c].id] = Null /\ Ends(c, "400")
       \/ "db" \in Faults /\ Ends(c, "400")
       \/ /\ actuators[req[c].id] # Null
          /\ Becomes(c, [req[c] EXCEPT !.pc = "pauseCheck",
                                        !.addr = actuators[req[c].id]])
    /\ UNCHANGED <<table, device, acked>>

PauseCheckForgotten(c) ==
    /\ At(c, "pauseCheck")
    /\ Goto(c, "send")
    /\ UNCHANGED <<table, device, acked>>

PauseCheckNoAnswer(c) ==
    /\ At(c, "pauseCheck")
    /\ IF pause THEN Ends(c, "unanswered") ELSE Goto(c, "send")
    /\ UNCHANGED <<table, device, acked>>

PauseCheck(c) ==
    /\ At(c, "pauseCheck")
    /\ IF pause THEN Ends(c, "400") ELSE Goto(c, "send")
    /\ UNCHANGED <<table, device, acked>>

\* SendXMLRPCRequest: nothing answers at another address.
Send(c) ==
    /\ At(c, "send")
    /\ \/ req[c].addr = Server /\ Goto(c, "rpc")
       \/ (req[c].addr # Server \/ "net" \in Faults) /\ Ends(c, "400")
    /\ UNCHANGED <<table, device, acked>>

\* The answer of control.  The result is sent on to the client, unless it has
\* left, which is an IOException.
Answer(c) ==
    /\ At(c, "rpc") /\ req[c].result # "none"
    /\ \/ /\ req[c].result = "true"
          /\ Ends(c, "200")
          /\ acked' = [acked EXCEPT ![req[c].id] = req[c].action]
       \/ req[c].result = "false" /\ Ends(c, "400") /\ UNCHANGED acked
       \/ "client" \in Faults /\ Ends(c, "closed") /\ UNCHANGED acked
    /\ UNCHANGED <<table, device>>

\* appendToOutput throws; nothing is written between a true result and its 200.
GuiError(c) ==
    /\ "gui" \in Faults
    /\ InHandler(c)
    /\ At(c, "rpc") => req[c].result = "false"
    /\ Ends(c, "closed")
    /\ UNCHANGED <<table, device, acked>>

-----------------------------------------------------------------------------
(* The actuator server *)

\* "id == 1 == blue == output 7", "id == 2 == red == output 6"
Relay(i) == IF i = Blue THEN 7 ELSE 6

\* "false == on, true == off.  No, really!"
Level(a) == a = "off"
LevelInverted(a) == a = "on"

\* control(id, action): kit is null until setupPhidgetConnection, and a kit
\* that is not attached is a PhidgetException.
SwitchesAnyText(i, a) == kit = "attached" /\ i \in Lights
Switches(i, a) == kit = "attached" /\ i \in Lights /\ a \in Commands
Control(i, a) ==
    output' = IF Switches(i, a) THEN [output EXCEPT ![Relay(i)] = Level(a)]
                                ELSE output

Done(c, done) ==
    Becomes(c, [req[c] EXCEPT !.did = done,
                              !.result = IF done THEN "true" ELSE "false"])

ExecuteSilent(c) ==
    /\ At(c, "rpc") /\ req[c].result = "none"
    /\ Control(req[c].id, req[c].action)
    /\ Becomes(c, [req[c] EXCEPT !.did = Switches(req[c].id, req[c].action),
                                 !.result = "false"])
    /\ UNCHANGED <<table, late, kit, acked>>

Execute(c) ==
    /\ At(c, "rpc") /\ req[c].result = "none"
    /\ Control(req[c].id, req[c].action)
    /\ Done(c, Switches(req[c].id, req[c].action))
    /\ UNCHANGED <<table, late, kit, acked>>

BecomesLate(C) ==
    /\ late' = late \cup {[id |-> req[c].id, action |-> req[c].action] : c \in C}
    /\ Cardinality(late') <= MaxLate

\* An XmlRpcException: the call, or its answer, is still on its way.
LoseCall(c) ==
    /\ "net" \in Faults
    /\ At(c, "rpc") /\ req[c].result \in {"none", "true"}
    /\ \/ req[c].result = "true" /\ UNCHANGED late
       \/ req[c].result = "none" /\ BecomesLate({c})
    /\ Becomes(c, [req[c] EXCEPT !.result = "false"])
    /\ UNCHANGED <<table, kit, output, acked>>

ExecuteLate ==
    \E k \in late :
        /\ Control(k.id, k.action)
        /\ late' = late \ {k}
        /\ UNCHANGED <<table, req, kit, acked>>

\* main: the XML-RPC server first, then the connection to the kit.
OpenKit ==
    /\ kit = "none"
    /\ kit' = "opened"
    /\ UNCHANGED <<table, req, late, output, acked>>

Attach ==
    /\ kit = "opened"
    /\ kit' = "attached"
    /\ UNCHANGED <<table, req, late, output, acked>>

\* Without power the kit releases its relays.
Detach ==
    /\ "kit" \in Faults
    /\ kit = "attached"
    /\ kit' = "opened"
    /\ output' = Released
    /\ UNCHANGED <<table, req, late, acked>>

RestartServer ==
    /\ "server" \in Faults
    /\ kit' = "none"
    /\ late' = {}
    /\ req' = [c \in Clients |->
                 IF At(c, "rpc") THEN [req[c] EXCEPT !.result = "false"] ELSE req[c]]
    /\ UNCHANGED <<table, output, acked>>

-----------------------------------------------------------------------------
(* The operator *)

\* manualActuatorAdd: only the event thread writes this table.
AddActuator(i, a) ==
    /\ actuators[i] = Null
    /\ actuators' = [actuators EXCEPT ![i] = a]
    /\ UNCHANGED <<pause, req, device, acked>>

RemoveActuator(i) ==
    /\ actuators' = [actuators EXCEPT ![i] = Null]
    /\ UNCHANGED <<pause, req, device, acked>>

UpdateActuatorAddress(i, a) ==
    /\ actuators[i] # Null
    /\ actuators' = [actuators EXCEPT ![i] = a]
    /\ UNCHANGED <<pause, req, device, acked>>

SetPause(p) ==
    /\ pause' = p
    /\ UNCHANGED <<actuators, req, device, acked>>

\* The connections of the HTTP server close; a call it made goes on.
RestartPanel ==
    /\ "panel" \in Faults
    /\ pause' = FALSE
    /\ req' = [c \in Clients |->
                 IF At(c, "idle") THEN req[c]
                 ELSE [NoRequest EXCEPT !.code = "closed"]]
    /\ BecomesLate({c \in Clients : At(c, "rpc") /\ req[c].result = "none"})
    /\ UNCHANGED <<actuators, kit, output, acked>>

HandlerStep(c) == Select(c) \/ PauseCheck(c) \/ Send(c) \/ Answer(c)

Next ==
    \/ \E c \in Clients :
          \/ \E post \in BOOLEAN, i \in Ids, a \in Sent :
                SendRequest(c, post, i, a)
          \/ Take(c) \/ HandlerStep(c) \/ GuiError(c)
          \/ Execute(c) \/ LoseCall(c)
    \/ ExecuteLate
    \/ OpenKit \/ Attach \/ Detach \/ RestartServer
    \/ \E i \in Ids :
          \/ RemoveActuator(i)
          \/ \E a \in Addrs : AddActuator(i, a) \/ UpdateActuatorAddress(i, a)
    \/ \E p \in BOOLEAN : SetPause(p)
    \/ RestartPanel

Spec == Init /\ [][Next]_vars

-----------------------------------------------------------------------------
(* Safety *)

\* A light shows the command that was acknowledged last, except while another
\* has been carried out and is about to be acknowledged.  handle takes the
\* next request only when it has answered the last one.
Unanswered(i) == \E c \in Clients : At(c, "rpc") /\ req[c].result = "true"
                                    /\ req[c].id = i
AckedIsLit ==
    \A i \in Lights :
        acked[i] # "none" /\ ~Unanswered(i) => output[Relay(i)] = Level(acked[i])

\* "Return HTTP 400 response codes if the request is not successful, 200
\* response codes if it is": a command that has switched a light is no failure.
RefusedDoesNothing == \A c \in Clients : req[c].code = "400" => ~req[c].did

-----------------------------------------------------------------------------
(***************************************************************************)
(* Liveness.  The dispatcher thread runs a handler to its end, and in each *)
(* round serves every connection the selector found ready, so that no      *)
(* request waits for ever while others are taken.  client.execute has no   *)
(* timeout: the actuator server is assumed to answer, or the call to fail. *)
(***************************************************************************)
Fairness ==
    /\ \A c \in Clients : SF_vars(Take(c)) /\ WF_vars(HandlerStep(c))
    /\ \A c \in Clients : WF_vars(Execute(c))
    /\ WF_vars(ExecuteLate)

LiveSpec == Spec /\ Fairness

\* No POST is left waiting: whatever fails, it gets a code or is cut off.
PostsAnswered ==
    \A c \in Clients :
        At(c, "waiting") /\ req[c].post ~>
            At(c, "idle") /\ req[c].code \in {"200", "400", "closed"}

\* Once the pause box stays ticked, the commands in flight are the last ones
\* to reach an actuator.
PauseStops == <>[]pause => <>[](late = {} /\ \A c \in Clients : ~At(c, "rpc"))

=============================================================================
