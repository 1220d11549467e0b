------------------------- MODULE VwToActuatorProofs -------------------------
(***************************************************************************)
(* Theorems about VwToActuator, for every value of its constants.          *)
(***************************************************************************)
EXTENDS VwToActuator, TLAPS

LateCall == [id : Ids, action : Actions]
Codes == {"none", "200", "400", "closed", "unanswered"}

(***************************************************************************)
(* TypeOK is not inductive: that acked records commands only follows from  *)
(* what a result says of its request.                                      *)
(***************************************************************************)
Sound(r) ==
    /\ r.result # "none" => r.pc = "rpc"
    /\ r.result = "true" => r.id \in Lights /\ r.action \in Commands
SoundRequest == {r \in Request : Sound(r)}
TInv == TypeOK /\ req \in [Clients -> SoundRequest]

\* A sound request may take the place of another.
LEMMA BecomesType ==
    ASSUME TInv, NEW c \in Clients, NEW r \in SoundRequest, Becomes(c, r)
    PROVE  req' \in [Clients -> SoundRequest]
BY DEF Becomes, TInv

\* The invariant follows from its parts.
LEMMA TInvParts ==
    ASSUME req' \in [Clients -> SoundRequest],
           actuators' \in [Ids -> Addrs \cup {Null}], pause' \in BOOLEAN,
           late' \in SUBSET LateCall, kit' \in {"none", "opened", "attached"},
           output' \in [{6, 7} -> BOOLEAN],
           acked' \in [Lights -> Commands \cup {"none"}]
    PROVE  TInv'
<1>1. SoundRequest \subseteq Request
    BY DEF SoundRequest
<1>2. req' \in [Clients -> Request]
    BY <1>1
<1> QED BY <1>2 DEF TInv, TypeOK, LateCall

\* The parts of the invariant before a step.
LEMMA TInvBefore ==
    ASSUME TInv
    PROVE  /\ actuators \in [Ids -> Addrs \cup {Null}] /\ pause \in BOOLEAN
           /\ late \in SUBSET LateCall /\ kit \in {"none", "opened", "attached"}
           /\ output \in [{6, 7} -> BOOLEAN]
           /\ acked \in [Lights -> Commands \cup {"none"}]
           /\ \A c \in Clients : req[c] \in Request /\ Sound(req[c])
BY DEF TInv, TypeOK, LateCall, SoundRequest

\* A step of the HTTP server that keeps the request sound.
LEMMA HandlerTInv ==
    ASSUME TInv, req' \in [Clients -> SoundRequest],
           UNCHANGED <<table, device, acked>>
    PROVE  TInv'
BY TInvBefore, TInvParts DEF table, device

\* The record of a client that has sent nothing.
LEMMA NoRequestType == NoRequest \in SoundRequest
BY LightsAssumption
DEF NoRequest, Request, Actions, SoundRequest, Sound

\* A request that goes on to another step stays sound.
LEMMA GotoType ==
    ASSUME TInv, NEW c \in Clients, ~At(c, "rpc"),
           NEW step \in Handling, Goto(c, step)
    PROVE  req' \in [Clients -> SoundRequest]
<1>1. req[c] \in Request /\ Sound(req[c])
    BY TInvBefore
<1> DEFINE r == [req[c] EXCEPT !.pc = step]
<1>2. r \in Request
    BY <1>1 DEF Request
<1>3. r.result = "none"
    BY <1>1 DEF Request, Sound, At
<1>4. r \in SoundRequest
    BY <1>2, <1>3 DEF SoundRequest, Sound
<1>5. Becomes(c, r)
    BY DEF Goto
<1> HIDE DEF r
<1> QED BY <1>4, <1>5, BecomesType

\* A request that is over is sound.
LEMMA EndsType ==
    ASSUME TInv, NEW c \in Clients, NEW code \in Codes, Ends(c, code)
    PROVE  req' \in [Clients -> SoundRequest]
<1> DEFINE r == [NoRequest EXCEPT !.code = code, !.did = req[c].did]
<1>1. req[c].did \in BOOLEAN
    BY TInvBefore DEF Request
<1>2. r \in Request /\ r.result = "none"
    BY <1>1, NoRequestType DEF Request, Codes, SoundRequest, NoRequest
<1>3. r \in SoundRequest
    BY <1>2 DEF SoundRequest, Sound
<1>4. Becomes(c, r)
    BY DEF Ends
<1> HIDE DEF r
<1> QED BY <1>3, <1>4, BecomesType

\* The relays keep their type, whatever control is asked.
LEMMA ControlType ==
    ASSUME output \in [{6, 7} -> BOOLEAN], NEW i, NEW a, Control(i, a)
    PROVE  output' \in [{6, 7} -> BOOLEAN]
<1>1. Level(a) \in BOOLEAN /\ Relay(i) \in {6, 7}
    BY DEF Level, Relay
<1> QED BY <1>1 DEF Control

\* A late call is a call.
LEMMA LateType ==
    ASSUME TInv, NEW C \in SUBSET Clients, BecomesLate(C)
    PROVE  late' \in SUBSET LateCall
<1>1. \A c \in Clients : req[c].id \in Ids /\ req[c].action \in Actions
    BY TInvBefore DEF Request
<1> QED BY <1>1, TInvBefore DEF BecomesLate, LateCall

\* A new request is sound.
LEMMA SendRequestType ==
    ASSUME TInv, NEW c \in Clients, NEW post \in BOOLEAN, NEW i \in Ids,
           NEW a \in Sent, SendRequest(c, post, i, a)
    PROVE  TInv'
<1> DEFINE r == [NoRequest EXCEPT !.pc = "waiting", !.post = post, !.id = i,
                                  !.action = a]
<1>1. a \in Actions
    BY EnvironmentAssumption DEF Actions, Commands
<1>2. r \in Request /\ r.result = "none"
    BY <1>1, NoRequestType DEF Request, SoundRequest, NoRequest
<1>3. r \in SoundRequest
    BY <1>2 DEF SoundRequest, Sound
<1>4. Becomes(c, r) /\ UNCHANGED <<table, device, acked>>
    BY DEF SendRequest
<1> HIDE DEF r
<1> QED BY <1>3, <1>4, BecomesType, HandlerTInv

\* Taking a request keeps it sound.
LEMMA TakeType ==
    ASSUME TInv, NEW c \in Clients, Take(c)
    PROVE  TInv'
<1> DEFINE r == [req[c] EXCEPT !.pc = "select", !.action = "other"]
<1>1. req[c] \in Request /\ Sound(req[c]) /\ ~At(c, "rpc")
    BY TInvBefore DEF Take, At
<1>2. ASSUME Ends(c, "unanswered") \/ Ends(c, "closed")
      PROVE  req' \in [Clients -> SoundRequest]
    BY <1>2, EndsType DEF Codes
<1>3. ASSUME Goto(c, "select")
      PROVE  req' \in [Clients -> SoundRequest]
    BY <1>1, <1>3, GotoType DEF Handling
<1>4. ASSUME Becomes(c, r)
      PROVE  req' \in [Clients -> SoundRequest]
    <2>1. r \in Request /\ r.result = "none"
        BY <1>1 DEF Request, Handling, Actions, Sound, At
    <2>2. r \in SoundRequest
        BY <2>1 DEF SoundRequest, Sound
    <2> HIDE DEF r
    <2> QED BY <1>4, <2>2, BecomesType
<1>5. req' \in [Clients -> SoundRequest]
    BY <1>2, <1>3, <1>4 DEF Take, Parse
<1> QED BY <1>5, HandlerTInv DEF Take

\* So does looking its actuator up.
LEMMA SelectType ==
    ASSUME TInv, NEW c \in Clients, Select(c)
    PROVE  TInv'
<1> DEFINE r == [req[c] EXCEPT !.pc = "pauseCheck",
                               !.addr = actuators[req[c].id]]
<1>1. req[c] \in Request /\ Sound(req[c]) /\ ~At(c, "rpc")
    BY TInvBefore DEF Select, At
<1>2. ASSUME Ends(c, "400")
      PROVE  req' \in [Clients -> SoundRequest]
    BY <1>2, EndsType DEF Codes
<1>3. ASSUME Becomes(c, r)
      PROVE  req' \in [Clients -> SoundRequest]
    <2>1. actuators[req[c].id] \in Addrs \cup {Null}
        BY <1>1, TInvBefore DEF Request
    <2>2. r \in Request /\ r.result = "none"
        BY <1>1, <2>1 DEF Request, Handling, Sound, At
    <2>3. r \in SoundRequest
        BY <2>2 DEF SoundRequest, Sound
    <2> HIDE DEF r
    <2> QED BY <1>3, <2>3, BecomesType
<1>4. req' \in [Clients -> SoundRequest]
    BY <1>2, <1>3 DEF Select
<1> QED BY <1>4, HandlerTInv DEF Select

\* So do the pause check, the call, and an exception of the GUI.
LEMMA SimpleStepType ==
    ASSUME TInv, NEW c \in Clients, PauseCheck(c) \/ Send(c) \/ GuiError(c)
    PROVE  TInv'
<1>1. CASE PauseCheck(c)
    <2>1. req' \in [Clients -> SoundRequest]
        BY <1>1, EndsType, GotoType DEF PauseCheck, Codes, Handling, At
    <2> QED BY <1>1, <2>1, HandlerTInv DEF PauseCheck
<1>2. CASE Send(c)
    <2>1. req' \in [Clients -> SoundRequest]
        BY <1>2, EndsType, GotoType DEF Send, Codes, Handling, At
    <2> QED BY <1>2, <2>1, HandlerTInv DEF Send
<1>3. CASE GuiError(c)
    <2>1. req' \in [Clients -> SoundRequest]
        BY <1>3, EndsType DEF GuiError, Codes
    <2> QED BY <1>3, <2>1, HandlerTInv DEF GuiError
<1> QED BY <1>1, <1>2, <1>3

\* What is acknowledged is a command.
LEMMA AnswerType ==
    ASSUME TInv, NEW c \in Clients, Answer(c)
    PROVE  TInv'
<1>1. req' \in [Clients -> SoundRequest]
    BY EndsType DEF Answer, Codes
<1>2. acked' \in [Lights -> Commands \cup {"none"}]
    <2>1. CASE req[c].result = "true"
               /\ acked' = [acked EXCEPT ![req[c].id] = req[c].action]
        BY <2>1, TInvBefore DEF Sound
    <2>2. CASE UNCHANGED acked
        BY <2>2, TInvBefore
    <2> QED BY <2>1, <2>2 DEF Answer
<1>3. UNCHANGED <<table, device>>
    BY DEF Answer
<1> QED BY <1>1, <1>2, <1>3, TInvBefore, TInvParts DEF table, device

\* Carrying a command out keeps its request sound.
LEMMA ExecuteType ==
    ASSUME TInv, NEW c \in Clients, Execute(c)
    PROVE  TInv'
<1> DEFINE done == Switches(req[c].id, req[c].action)
           r == [req[c] EXCEPT !.did = done,
                               !.result = IF done THEN "true" ELSE "false"]
<1>1. req[c] \in Request /\ At(c, "rpc")
    BY TInvBefore DEF Execute
<1>2. done \in BOOLEAN /\ (done => req[c].id \in Lights /\ req[c].action \in Commands)
    BY DEF Switches
<1> HIDE DEF done
<1>3. r \in Request
    BY <1>1, <1>2 DEF Request
<1>4. /\ r.pc = "rpc" /\ r.id = req[c].id /\ r.action = req[c].action
      /\ r.result = "true" => done
    BY <1>1 DEF Request, At
<1>5. r \in SoundRequest
    BY <1>2, <1>3, <1>4 DEF SoundRequest, Sound
<1>6. Becomes(c, r)
    BY DEF Execute, Done, done
<1> HIDE DEF r
<1>7. req' \in [Clients -> SoundRequest]
    BY <1>5, <1>6, BecomesType
<1>8. output' \in [{6, 7} -> BOOLEAN]
    BY TInvBefore, ControlType DEF Execute
<1>9. UNCHANGED <<table, late, kit, acked>>
    BY DEF Execute
<1> QED BY <1>7, <1>8, <1>9, TInvBefore, TInvParts DEF table

\* A call that fails has the result false.
LEMMA LoseCallType ==
    ASSUME TInv, NEW c \in Clients, LoseCall(c)
    PROVE  TInv'
<1> DEFINE r == [req[c] EXCEPT !.result = "false"]
<1>1. req[c] \in Request /\ At(c, "rpc")
    BY TInvBefore DEF LoseCall
<1>2. r \in Request /\ r.pc = "rpc" /\ r.result = "false"
    BY <1>1 DEF Request, At
<1>3. r \in SoundRequest
    BY <1>2 DEF SoundRequest, Sound
<1>4. Becomes(c, r)
    BY DEF LoseCall
<1> HIDE DEF r
<1>5. req' \in [Clients -> SoundRequest]
    BY <1>3, <1>4, BecomesType
<1>6. late' \in SUBSET LateCall
    BY LateType, TInvBefore DEF LoseCall
<1>7. UNCHANGED <<table, kit, output, acked>>
    BY DEF LoseCall
<1> QED BY <1>5, <1>6, <1>7, TInvBefore, TInvParts DEF table

\* The actuator server on its own.
LEMMA DeviceType ==
    ASSUME TInv,
           ExecuteLate \/ OpenKit \/ Attach \/ Detach \/ RestartServer
    PROVE  TInv'
<1>0. req \in [Clients -> SoundRequest]
    BY DEF TInv
<1>1. CASE ExecuteLate
    <2>1. output' \in [{6, 7} -> BOOLEAN]
        BY <1>1, TInvBefore, ControlType DEF ExecuteLate
    <2>2. late' \in SUBSET LateCall /\ UNCHANGED <<table, req, kit, acked>>
        BY <1>1, TInvBefore DEF ExecuteLate
    <2> QED BY <1>0, <2>1, <2>2, TInvBefore, TInvParts DEF table
<1>2. CASE OpenKit \/ Attach
    <2>1. /\ kit' \in {"none", "opened", "attached"}
          /\ UNCHANGED <<table, req, late, output, acked>>
        BY <1>2 DEF OpenKit, Attach
    <2> QED BY <1>0, <2>1, TInvBefore, TInvParts DEF table
<1>3. CASE Detach
    BY <1>0, <1>3, TInvBefore, TInvParts DEF Detach, Released, table
<1>4. CASE RestartServer
    <2>1. ASSUME NEW c \in Clients, At(c, "rpc")
          PROVE  [req[c] EXCEPT !.result = "false"] \in SoundRequest
        BY <2>1, TInvBefore DEF At, Request, SoundRequest, Sound
    <2>2. req' \in [Clients -> SoundRequest]
        BY <1>0, <1>4, <2>1 DEF RestartServer
    <2>3. late' = {} /\ kit' = "none" /\ UNCHANGED <<table, output, acked>>
        BY <1>4 DEF RestartServer
    <2> QED BY <2>2, <2>3, TInvBefore, TInvParts DEF table
<1> QED BY <1>1, <1>2, <1>3, <1>4

\* The operator and a restart of the Control Panel.
LEMMA OperatorType ==
    ASSUME TInv,
           \/ \E i \in Ids :
                 \/ RemoveActuator(i)
                 \/ \E a \in Addrs : AddActuator(i, a) \/ UpdateActuatorAddress(i, a)
           \/ \E p \in BOOLEAN : SetPause(p)
           \/ RestartPanel
    PROVE  TInv'
<1>0. req \in [Clients -> SoundRequest]
    BY DEF TInv
<1>1. CASE \E i \in Ids :
              \/ RemoveActuator(i)
              \/ \E a \in Addrs : AddActuator(i, a) \/ UpdateActuatorAddress(i, a)
    <2>1. actuators' \in [Ids -> Addrs \cup {Null}]
        BY <1>1, TInvBefore
        DEF RemoveActuator, AddActuator, UpdateActuatorAddress
    <2>2. UNCHANGED <<pause, req, device, acked>>
        BY <1>1 DEF RemoveActuator, AddActuator, UpdateActuatorAddress
    <2> QED BY <1>0, <2>1, <2>2, TInvBefore, TInvParts DEF device
<1>2. CASE \E p \in BOOLEAN : SetPause(p)
    BY <1>0, <1>2, TInvBefore, TInvParts DEF SetPause, device
<1>3. CASE RestartPanel
    <2>1. [NoRequest EXCEPT !.code = "closed"] \in SoundRequest
        BY NoRequestType DEF NoRequest, Request, SoundRequest, Sound
    <2>2. req' \in [Clients -> SoundRequest]
        BY <1>0, <1>3, <2>1 DEF RestartPanel
    <2>3. late' \in SUBSET LateCall
        BY <1>3, LateType DEF RestartPanel
    <2>4. pause' = FALSE /\ UNCHANGED <<actuators, kit, output, acked>>
        BY <1>3 DEF RestartPanel
    <2> QED BY <2>2, <2>3, <2>4, TInvBefore, TInvParts
<1> QED BY <1>1, <1>2, <1>3

\* The invariant holds at the start.
LEMMA InitTInv == Init => TInv
<1> SUFFICES ASSUME Init PROVE TInv
    OBVIOUS
<1>1. req \in [Clients -> SoundRequest]
    BY NoRequestType DEF Init
<1>2. req \in [Clients -> Request]
    BY <1>1 DEF SoundRequest
<1>3. /\ actuators \in [Ids -> Addrs \cup {Null}] /\ pause \in BOOLEAN
      /\ late = {} /\ kit = "none" /\ output \in [{6, 7} -> BOOLEAN]
      /\ acked \in [Lights -> Commands \cup {"none"}]
    BY DEF Init, Released
<1> QED BY <1>1, <1>2, <1>3 DEF TInv, TypeOK

\* Every step preserves the invariant.
LEMMA NextTInv == TInv /\ [Next]_vars => TInv'
<1> SUFFICES ASSUME TInv, [Next]_vars PROVE TInv'
    OBVIOUS
<1>1. CASE UNCHANGED vars
    BY <1>1, TInvBefore, TInvParts DEF vars, TInv
<1>2. ASSUME NEW c \in Clients, NEW post \in BOOLEAN, NEW i \in Ids,
             NEW a \in Sent, SendRequest(c, post, i, a)
      PROVE  TInv'
    BY <1>2, SendRequestType
<1>3. ASSUME NEW c \in Clients,
             \/ Take(c) \/ HandlerStep(c) \/ GuiError(c)
             \/ Execute(c) \/ LoseCall(c)
      PROVE  TInv'
    BY <1>3, TakeType, SelectType, SimpleStepType, AnswerType, ExecuteType,
       LoseCallType DEF HandlerStep
<1> QED BY <1>1, <1>2, <1>3, DeviceType, OperatorType DEF Next

\* The invariant holds for good.
LEMMA TInvCorrect == Spec => []TInv
BY InitTInv, NextTInv, PTL DEF Spec

\* The variables have their types; in particular the virtual world is told
\* of no success but that of a command.
THEOREM TypeCorrect == Spec => []TypeOK
<1>1. TInv => TypeOK
    BY DEF TInv
<1> QED BY <1>1, TInvCorrect, PTL

(***************************************************************************)
(* A light shows the last command acknowledged.  The one dispatcher thread *)
(* serves one request at a time (Serial), so between a command and its     *)
(* acknowledgement no other is carried out; a call that was given up could *)
(* be, so none may be.                                                     *)
(***************************************************************************)
Calm == Faults \cap {"client", "net", "kit", "server", "panel"} = {}

Serial == \A c, d \in Clients : InHandler(c) /\ InHandler(d) => c = d
ExecutedIsLit ==
    \A c \in Clients : req[c].result = "true" =>
                           output[Relay(req[c].id)] = Level(req[c].action)
AInv == TInv /\ Serial /\ late = {} /\ ExecutedIsLit /\ AckedIsLit

\* Only the request that becomes another is another.
LEMMA BecomesOnly ==
    ASSUME TInv, NEW c \in Clients, NEW r, Becomes(c, r)
    PROVE  req'[c] = r /\ \A d \in Clients : d # c => req'[d] = req[d]
BY DEF Becomes, TInv

\* Of a call that was made, and of no other, there is a result.
LEMMA ResultInHandler ==
    ASSUME TInv, NEW c \in Clients, req[c].result # "none"
    PROVE  At(c, "rpc") /\ InHandler(c)
BY TInvBefore DEF Sound, At, InHandler, Handling

\* A step of one request that has no effect on a light.
LEMMA QuietStep ==
    ASSUME AInv, TInv', NEW c \in Clients,
           \A d \in Clients : d # c => req'[d] = req[d],
           req[c].result # "true", req'[c].result # "true",
           InHandler(c)' => InHandler(c) \/ \A d \in Clients : ~InHandler(d),
           UNCHANGED <<late, output, acked>>
    PROVE  AInv'
<1>1. \A d \in Clients : d # c => (InHandler(d)' <=> InHandler(d))
    BY DEF InHandler
<1>2. Serial'
    BY <1>1 DEF AInv, Serial
<1>3. ExecutedIsLit'
    BY DEF AInv, ExecutedIsLit
<1>4. \A i \in Lights : Unanswered(i)' <=> Unanswered(i)
    BY DEF Unanswered, At
<1>5. AckedIsLit'
    BY <1>4 DEF AInv, AckedIsLit
<1> QED BY <1>2, <1>3, <1>5 DEF AInv

\* A request that ends has no result, and is out of the handler.
LEMMA EndsOut ==
    ASSUME TInv, NEW c \in Clients, NEW code, Ends(c, code)
    PROVE  /\ req'[c].result = "none" /\ ~InHandler(c)'
           /\ \A d \in Clients : d # c => req'[d] = req[d]
<1> DEFINE r == [NoRequest EXCEPT !.code = code, !.did = req[c].did]
<1>1. r.result = "none" /\ r.pc = "idle"
    BY DEF NoRequest
<1>2. Becomes(c, r)
    BY DEF Ends
<1> HIDE DEF r
<1>3. req'[c] = r /\ \A d \in Clients : d # c => req'[d] = req[d]
    BY <1>2, BecomesOnly
<1> QED BY <1>1, <1>3 DEF InHandler, Handling

\* A request that goes on keeps its result.
LEMMA GotoKeeps ==
    ASSUME TInv, NEW c \in Clients, NEW step, Goto(c, step)
    PROVE  /\ req'[c].result = req[c].result
           /\ \A d \in Clients : d # c => req'[d] = req[d]
<1> DEFINE r == [req[c] EXCEPT !.pc = step]
<1>1. req[c] \in Request
    BY TInvBefore
<1>2. r.result = req[c].result
    BY <1>1 DEF Request
<1>3. Becomes(c, r)
    BY DEF Goto
<1> HIDE DEF r
<1> QED BY <1>2, <1>3, BecomesOnly

\* A request that is sent waits for the handler.
LEMMA SendRequestAcked ==
    ASSUME AInv, TInv', NEW c \in Clients, NEW post, NEW i, NEW a,
           SendRequest(c, post, i, a)
    PROVE  AInv'
<1> DEFINE r == [NoRequest EXCEPT !.pc = "waiting", !.post = post, !.id = i,
                                  !.action = a]
<1>1. r.result = "none" /\ r.pc = "waiting"
    BY DEF NoRequest
<1>2. Becomes(c, r) /\ UNCHANGED <<late, output, acked>> /\ At(c, "idle")
    BY DEF SendRequest, device
<1> HIDE DEF r
<1>3. TInv
    BY DEF AInv
<1>4. req'[c] = r /\ \A d \in Clients : d # c => req'[d] = req[d]
    BY <1>2, <1>3, BecomesOnly
<1>5. req[c].result # "true"
    BY <1>2, <1>3, ResultInHandler DEF At
<1>6. ~InHandler(c)' /\ req'[c].result # "true"
    BY <1>1, <1>4 DEF InHandler, Handling
<1> QED BY <1>2, <1>4, <1>5, <1>6, QuietStep

\* The handler takes a request when it has none.
LEMMA TakeAcked ==
    ASSUME AInv, TInv', NEW c \in Clients, Take(c)
    PROVE  AInv'
<1> DEFINE r == [req[c] EXCEPT !.pc = "select", !.action = "other"]
<1>1. TInv /\ UNCHANGED <<late, output, acked>>
    BY DEF AInv, Take, device
<1>2. req[c].result = "none"
    BY <1>1, ResultInHandler DEF Take, At
<1>3. \A d \in Clients : ~InHandler(d)
    BY DEF Take
<1>4. ASSUME Ends(c, "unanswered") \/ Ends(c, "closed")
      PROVE  req'[c].result = "none" /\ \A d \in Clients : d # c => req'[d] = req[d]
    BY <1>1, <1>4, EndsOut
<1>5. ASSUME Goto(c, "select")
      PROVE  req'[c].result = "none" /\ \A d \in Clients : d # c => req'[d] = req[d]
    BY <1>1, <1>2, <1>5, GotoKeeps
<1>6. ASSUME Becomes(c, r)
      PROVE  req'[c].result = "none" /\ \A d \in Clients : d # c => req'[d] = req[d]
    <2>1. r.result = "none"
        BY <1>1, <1>2, TInvBefore DEF Request
    <2> HIDE DEF r
    <2> QED BY <1>1, <1>6, <2>1, BecomesOnly
<1>7. req'[c].result = "none" /\ \A d \in Clients : d # c => req'[d] = req[d]
    BY <1>4, <1>5, <1>6 DEF Take, Parse
<1> QED BY <1>1, <1>2, <1>3, <1>7, QuietStep

\* Before the call, and when the GUI fails, no light is switched.
LEMMA HandlerAcked ==
    ASSUME AInv, TInv', NEW c \in Clients,
           Select(c) \/ PauseCheck(c) \/ Send(c) \/ GuiError(c)
    PROVE  AInv'
<1> DEFINE r == [req[c] EXCEPT !.pc = "pauseCheck",
                               !.addr = actuators[req[c].id]]
<1>1. TInv /\ UNCHANGED <<late, output, acked>>
    BY DEF AInv, Select, PauseCheck, Send, GuiError, device
<1>2. InHandler(c) /\ req[c].result # "true"
    <2>1. CASE GuiError(c)
        BY <1>1, <2>1, ResultInHandler DEF GuiError
    <2>2. CASE Select(c) \/ PauseCheck(c) \/ Send(c)
        <3>1. ~At(c, "rpc") /\ InHandler(c)
            BY <2>2 DEF Select, PauseCheck, Send, At, InHandler, Handling
        <3> QED BY <1>1, <3>1, ResultInHandler
    <2> QED BY <2>1, <2>2
<1>3. ASSUME NEW code, Ends(c, code)
      PROVE  /\ req'[c].result # "true"
             /\ \A d \in Clients : d # c => req'[d] = req[d]
    BY <1>1, <1>3, EndsOut
<1>4. ASSUME NEW step, Goto(c, step)
      PROVE  /\ req'[c].result # "true"
             /\ \A d \in Clients : d # c => req'[d] = req[d]
    BY <1>1, <1>2, <1>4, GotoKeeps
<1>5. ASSUME Becomes(c, r)
      PROVE  /\ req'[c].result # "true"
             /\ \A d \in Clients : d # c => req'[d] = req[d]
    <2>1. r.result # "true"
        BY <1>1, <1>2, TInvBefore DEF Request
    <2> HIDE DEF r
    <2> QED BY <1>1, <1>5, <2>1, BecomesOnly
<1>6. /\ req'[c].result # "true"
      /\ \A d \in Clients : d # c => req'[d] = req[d]
    BY <1>3, <1>4, <1>5 DEF Select, PauseCheck, Send, GuiError
<1> QED BY <1>1, <1>2, <1>6, QuietStep

\* While c is in the handler, no other request has a result.
LEMMA OnlyResult ==
    ASSUME TInv, Serial, NEW c \in Clients, At(c, "rpc"),
           NEW d \in Clients, d # c
    PROVE  req[d].result = "none"
<1>1. InHandler(c)
    BY DEF At, InHandler, Handling
<1> QED BY <1>1, ResultInHandler DEF Serial

\* A command is carried out: its light shows it, and is not acknowledged yet.
LEMMA ExecuteAcked ==
    ASSUME AInv, TInv', NEW c \in Clients, Execute(c)
    PROVE  AInv'
<1> DEFINE done == Switches(req[c].id, req[c].action)
           r == [req[c] EXCEPT !.did = done,
                               !.result = IF done THEN "true" ELSE "false"]
<1>1. /\ TInv /\ Serial /\ AckedIsLit /\ late' = {} /\ acked' = acked
      /\ At(c, "rpc") /\ req[c].result = "none"
      /\ Control(req[c].id, req[c].action)
    BY DEF AInv, Execute
<1>2. req[c] \in Request /\ done \in BOOLEAN
    BY <1>1, TInvBefore DEF Switches
<1>3. Becomes(c, r)
    BY DEF Execute, Done
<1>4. /\ r.pc = "rpc" /\ r.id = req[c].id /\ r.action = req[c].action
      /\ r.result = "true" <=> done
    <2> HIDE DEF done
    <2> QED BY <1>1, <1>2 DEF Request, At
<1> HIDE DEF r
<1>5. req'[c] = r /\ \A d \in Clients : d # c => req'[d] = req[d]
    BY <1>1, <1>3, BecomesOnly
<1>6. \A d \in Clients : d # c => req[d].result = "none" /\ req'[d].result = "none"
    BY <1>1, <1>5, OnlyResult
<1>7. Serial'
    BY <1>1, <1>4, <1>5 DEF Serial, InHandler, At
<1>8. done => req[c].id \in Lights
    BY DEF Switches
<1>9. output \in [{6, 7} -> BOOLEAN] /\ \A i : Relay(i) \in {6, 7}
    BY <1>1, TInvBefore DEF Relay
<1>10. done => output' = [output EXCEPT ![Relay(req[c].id)] = Level(req[c].action)]
    BY <1>1 DEF Control
<1>11. ~done => output' = output
    BY <1>1 DEF Control
<1> HIDE DEF done
<1>12. done => output'[Relay(req[c].id)] = Level(req[c].action)
    BY <1>9, <1>10
<1>13. ExecutedIsLit'
    BY <1>4, <1>5, <1>6, <1>12 DEF ExecutedIsLit
<1>14. \A i \in Lights : ~Unanswered(i)
    BY <1>1, <1>6 DEF Unanswered
<1>15. ASSUME NEW i \in Lights, acked'[i] # "none", ~Unanswered(i)'
       PROVE  output'[Relay(i)] = Level(acked'[i])
    <2>1. output[Relay(i)] = Level(acked[i])
        BY <1>1, <1>14, <1>15 DEF AckedIsLit
    <2>2. done => i # req[c].id
        BY <1>4, <1>5, <1>15 DEF Unanswered, At
    <2>3. done => Relay(i) # Relay(req[c].id)
        BY <1>8, <2>2, LightsAssumption DEF Relay, Lights
    <2>4. output'[Relay(i)] = output[Relay(i)]
        BY <1>9, <1>10, <1>11, <2>3
    <2> QED BY <1>1, <2>1, <2>4
<1>16. AckedIsLit'
    BY <1>15 DEF AckedIsLit, Level, Relay
<1> QED BY <1>1, <1>7, <1>13, <1>16 DEF AInv

\* A command is acknowledged: its light shows it still.
LEMMA AnswerAcked ==
    ASSUME AInv, TInv', NEW c \in Clients, Answer(c), Calm
    PROVE  AInv'
<1>1. /\ TInv /\ Serial /\ AckedIsLit /\ ExecutedIsLit /\ late = {}
      /\ At(c, "rpc") /\ UNCHANGED <<table, device>>
    BY DEF AInv, Answer
<1>2. \A d \in Clients : d # c => req[d].result = "none"
    BY <1>1, OnlyResult
<1>3. PICK code : Ends(c, code)
    BY DEF Answer
<1>4. /\ req'[c].result = "none" /\ ~InHandler(c)'
      /\ \A d \in Clients : d # c => req'[d] = req[d]
    BY <1>1, <1>3, EndsOut
<1>5. CASE req[c].result = "false" /\ UNCHANGED acked
    BY <1>1, <1>4, <1>5, QuietStep DEF device
<1>6. CASE req[c].result = "true"
           /\ acked' = [acked EXCEPT ![req[c].id] = req[c].action]
    <2>1. \A d \in Clients : d # c => (InHandler(d)' <=> InHandler(d))
        BY <1>4 DEF InHandler
    <2>2. Serial'
        BY <1>1, <1>4, <2>1 DEF Serial
    <2>3. ExecutedIsLit'
        BY <1>2, <1>4 DEF ExecutedIsLit
    <2>4. req[c].id \in Lights /\ acked \in [Lights -> Commands \cup {"none"}]
        BY <1>1, <1>6, TInvBefore DEF Sound
    <2>5. output[Relay(req[c].id)] = Level(req[c].action) /\ output' = output
        BY <1>1, <1>6 DEF ExecutedIsLit, device
    <2>6. ASSUME NEW i \in Lights, acked'[i] # "none"
          PROVE  output'[Relay(i)] = Level(acked'[i])
        <3>1. CASE i = req[c].id
            BY <1>6, <2>4, <2>5, <3>1
        <3>2. CASE i # req[c].id
            <4>1. acked'[i] = acked[i]
                BY <1>6, <2>4, <3>2
            <4>2. ~Unanswered(i)
                BY <1>2, <3>2 DEF Unanswered
            <4> QED BY <1>1, <2>5, <2>6, <4>1, <4>2 DEF AckedIsLit
        <3> QED BY <3>1, <3>2
    <2>7. AckedIsLit'
        BY <2>6 DEF AckedIsLit, Level, Relay
    <2> QED BY <1>1, <2>2, <2>3, <2>7 DEF AInv, device
<1>7. "client" \notin Faults
    BY DEF Calm
<1> QED BY <1>5, <1>6, <1>7 DEF Answer

\* What has to do with no request.
LEMMA OthersAcked ==
    ASSUME AInv, TInv', UNCHANGED <<req, late, output, acked>>
    PROVE  AInv'
<1>1. Serial' /\ ExecutedIsLit'
    BY DEF AInv, Serial, InHandler, ExecutedIsLit
<1>2. \A i \in Lights : Unanswered(i)' <=> Unanswered(i)
    BY DEF Unanswered, At
<1>3. AckedIsLit'
    BY <1>2 DEF AInv, AckedIsLit
<1> QED BY <1>1, <1>3 DEF AInv

\* Every step preserves the invariant.
LEMMA NextAcked == ASSUME Calm PROVE AInv /\ [Next]_vars => AInv'
<1> SUFFICES ASSUME AInv, [Next]_vars PROVE AInv'
    OBVIOUS
<1>1. TInv'
    BY NextTInv DEF AInv
<1>2. CASE UNCHANGED vars
    BY <1>1, <1>2, OthersAcked DEF vars
<1>3. ASSUME NEW c \in Clients, NEW post \in BOOLEAN, NEW i \in Ids,
             NEW a \in Sent, SendRequest(c, post, i, a)
      PROVE  AInv'
    BY <1>1, <1>3, SendRequestAcked
<1>4. ASSUME NEW c \in Clients,
             Take(c) \/ HandlerStep(c) \/ GuiError(c) \/ Execute(c)
      PROVE  AInv'
    BY <1>1, <1>4, TakeAcked, HandlerAcked, AnswerAcked, ExecuteAcked
    DEF HandlerStep
<1>5. ~ExecuteLate
    BY DEF AInv, ExecuteLate
<1>6. ~Detach /\ ~RestartServer /\ ~RestartPanel /\ \A c \in Clients : ~LoseCall(c)
    BY DEF Calm, Detach, RestartServer, RestartPanel, LoseCall
<1>7. CASE OpenKit \/ Attach
    BY <1>1, <1>7, OthersAcked DEF OpenKit, Attach
<1>8. CASE \/ \E i \in Ids :
                 \/ RemoveActuator(i)
                 \/ \E a \in Addrs : AddActuator(i, a) \/ UpdateActuatorAddress(i, a)
           \/ \E p \in BOOLEAN : SetPause(p)
    BY <1>1, <1>8, OthersAcked
    DEF RemoveActuator, AddActuator, UpdateActuatorAddress, SetPause, device
<1> QED BY <1>2, <1>3, <1>4, <1>5, <1>6, <1>7, <1>8 DEF Next

\* The light of an actuator shows the command acknowledged last, for any
\* number of clients and actuators, and whatever the database, the bodies of
\* the requests and the GUI do, if calls are not lost, clients stay, and the
\* kit and both programs keep running.
THEOREM AckedCorrect == ASSUME Calm PROVE Spec => []AckedIsLit
<1>1. Init => AInv
    <2> SUFFICES ASSUME Init PROVE AInv
        OBVIOUS
    <2>1. \A c \in Clients : req[c].pc = "idle" /\ req[c].result = "none"
        BY DEF Init, NoRequest
    <2>2. Serial /\ ExecutedIsLit
        BY <2>1 DEF Serial, InHandler, Handling, ExecutedIsLit
    <2>3. AckedIsLit /\ late = {}
        BY DEF Init, AckedIsLit
    <2> QED BY <2>2, <2>3, InitTInv DEF AInv
<1>2. AInv /\ [Next]_vars => AInv'
    BY NextAcked
<1>3. AInv => AckedIsLit
    BY DEF AInv
<1> QED BY <1>1, <1>2, <1>3, PTL DEF Spec


-----------------------------------------------------------------------------
(***************************************************************************)
(* What was refused did nothing.  The command of a request that is being   *)
(* handled has switched its relay only if the answer of control says so: a *)
(* lost answer, or a server that stops before it answers, would have       *)
(* handle refuse what was done.                                            *)
(***************************************************************************)
AnswersArrive == Faults \cap {"net", "server"} = {}

ToldOf(r) ==
    /\ r.code = "400" => ~r.did
    /\ r.pc # "idle" => r.code = "none" /\ (r.did => r.result = "true")
RInv == TInv /\ \A c \in Clients : ToldOf(req[c])

\* A request may become any that is told of.
LEMMA BecomesTold ==
    ASSUME RInv, NEW c \in Clients, NEW r, ToldOf(r), Becomes(c, r)
    PROVE  \A d \in Clients : ToldOf(req'[d])
<1>1. req'[c] = r /\ \A d \in Clients : d # c => req'[d] = req[d]
    BY BecomesOnly DEF RInv
<1> QED BY <1>1 DEF RInv

\* A request that goes on has done nothing yet.
LEMMA GotoTold ==
    ASSUME RInv, NEW c \in Clients, req[c].pc # "idle", req[c].result # "true",
           NEW step, NEW r, r = [req[c] EXCEPT !.pc = step], Becomes(c, r)
    PROVE  \A d \in Clients : ToldOf(req'[d])
<1>1. req[c] \in Request /\ ToldOf(req[c])
    BY TInvBefore DEF RInv
<1>2. r.code = req[c].code /\ r.did = req[c].did /\ r.result = req[c].result
    BY <1>1 DEF Request
<1>3. ToldOf(r)
    BY <1>1, <1>2 DEF ToldOf
<1> QED BY <1>3, BecomesTold

\* A request that has done something ends with no 400.
LEMMA EndsTold ==
    ASSUME RInv, NEW c \in Clients, NEW code, Ends(c, code),
           req[c].pc # "idle", code = "400" => req[c].result # "true"
    PROVE  \A d \in Clients : ToldOf(req'[d])
<1>1. ToldOf(req[c])
    BY DEF RInv
<1>2. PICK r : r = [NoRequest EXCEPT !.code = code, !.did = req[c].did]
    OBVIOUS
<1>3. r.pc = "idle" /\ r.code = code /\ r.did = req[c].did
    BY <1>2 DEF NoRequest
<1>4. ToldOf(r)
    BY <1>1, <1>3 DEF ToldOf
<1>5. Becomes(c, r)
    BY <1>2 DEF Ends
<1> QED BY <1>4, <1>5, BecomesTold

\* The body of the request is read.
LEMMA TakeTold ==
    ASSUME RInv, NEW c \in Clients, Take(c)
    PROVE  \A d \in Clients : ToldOf(req'[d])
<1>1. /\ req[c] \in Request /\ req[c].pc = "waiting" /\ req[c].result # "true"
      /\ ToldOf(req[c])
    BY TInvBefore DEF RInv, Take, At, Sound
<1>2. CASE \/ Ends(c, "unanswered") \/ Ends(c, "closed")
    BY <1>1, <1>2, EndsTold
<1>3. CASE Goto(c, "select")
    BY <1>1, <1>3, GotoTold DEF Goto
<1>4. CASE Becomes(c, [req[c] EXCEPT !.pc = "select", !.action = "other"])
  <2>1. PICK r : r = [req[c] EXCEPT !.pc = "select", !.action = "other"]
      OBVIOUS
  <2>2. r.code = req[c].code /\ r.did = req[c].did /\ r.result = req[c].result
      BY <1>1, <2>1 DEF Request
  <2>3. ToldOf(r) /\ Becomes(c, r)
      BY <1>1, <1>4, <2>1, <2>2 DEF ToldOf
  <2> QED BY <2>3, BecomesTold
<1> QED BY <1>2, <1>3, <1>4 DEF Take, Parse

\* The steps of the handler up to the call.
LEMMA HandlerTold ==
    ASSUME RInv, NEW c \in Clients, Select(c) \/ PauseCheck(c) \/ Send(c)
    PROVE  \A d \in Clients : ToldOf(req'[d])
<1>1. /\ req[c] \in Request /\ req[c].pc \in {"select", "pauseCheck", "send"}
      /\ req[c].result # "true" /\ ToldOf(req[c])
    BY TInvBefore DEF RInv, Select, PauseCheck, Send, At, Sound
<1>2. CASE Ends(c, "400")
    BY <1>1, <1>2, EndsTold
<1>3. ASSUME NEW step, Goto(c, step) PROVE \A d \in Clients : ToldOf(req'[d])
    BY <1>1, <1>3, GotoTold DEF Goto
<1>4. CASE Becomes(c, [req[c] EXCEPT !.pc = "pauseCheck", !.addr = actuators[req[c].id]])
  <2>1. PICK r : r = [req[c] EXCEPT !.pc = "pauseCheck", !.addr = actuators[req[c].id]]
      OBVIOUS
  <2>2. r.code = req[c].code /\ r.did = req[c].did /\ r.result = req[c].result
      BY <1>1, <2>1 DEF Request
  <2>3. ToldOf(r) /\ Becomes(c, r)
      BY <1>1, <1>4, <2>1, <2>2 DEF ToldOf
  <2> QED BY <2>3, BecomesTold
<1> QED BY <1>2, <1>3, <1>4 DEF Select, PauseCheck, Send

\* The call, its answer, and an error of the terminal.
LEMMA CallTold ==
    ASSUME RInv, NEW c \in Clients, Execute(c) \/ Answer(c) \/ GuiError(c)
    PROVE  \A d \in Clients : ToldOf(req'[d])
<1>1. req[c] \in Request /\ req[c].pc # "idle" /\ ToldOf(req[c])
    BY TInvBefore DEF RInv, Execute, Answer, GuiError, At, InHandler, Handling
<1>2. CASE Execute(c)
  <2>1. PICK done : done = Switches(req[c].id, req[c].action)
      OBVIOUS
  <2>2. PICK r : r = [req[c] EXCEPT !.did = done, !.result = IF done THEN "true" ELSE "false"]
      OBVIOUS
  <2>3. r.code = req[c].code /\ r.did = done /\ (done => r.result = "true")
      BY <1>1, <2>2 DEF Request
  <2>4. ToldOf(r)
      BY <1>1, <2>3 DEF ToldOf
  <2>5. Becomes(c, r)
      BY <1>2, <2>1, <2>2 DEF Execute, Done
  <2> QED BY <2>4, <2>5, BecomesTold
<1>3. CASE Answer(c)
  <2>1. CASE Ends(c, "200") \/ Ends(c, "closed")
      BY <1>1, <2>1, EndsTold
  <2>2. CASE req[c].result = "false" /\ Ends(c, "400")
      BY <1>1, <2>2, EndsTold
  <2> QED BY <1>3, <2>1, <2>2 DEF Answer
<1>4. CASE GuiError(c)
    BY <1>1, <1>4, EndsTold DEF GuiError
<1> QED BY <1>2, <1>3, <1>4

\* A request that is sent has no code, and one cut off has done nothing.
LEMMA SendRequestTold ==
    ASSUME RInv, NEW c \in Clients, NEW post, NEW i, NEW a,
           SendRequest(c, post, i, a)
    PROVE  \A d \in Clients : ToldOf(req'[d])
<1>1. PICK r : r = [NoRequest EXCEPT !.pc = "waiting", !.post = post, !.id = i,
                                     !.action = a]
    OBVIOUS
<1>2. r.code = "none" /\ r.did = FALSE
    BY <1>1 DEF NoRequest
<1>3. ToldOf(r)
    BY <1>2 DEF ToldOf
<1>4. Becomes(c, r)
    BY <1>1 DEF SendRequest
<1> QED BY <1>3, <1>4, BecomesTold

LEMMA RestartPanelTold ==
    ASSUME RInv, RestartPanel, NEW c \in Clients
    PROVE  ToldOf(req'[c])
<1>1. PICK r : r = [NoRequest EXCEPT !.code = "closed"]
    OBVIOUS
<1>2. r.pc = "idle" /\ r.code = "closed"
    BY <1>1 DEF NoRequest
<1>3. req'[c] = req[c] \/ req'[c] = r
    BY <1>1 DEF RestartPanel
<1> QED BY <1>2, <1>3 DEF ToldOf, RInv

(***************************************************************************)
(* RefusedDoesNothing: no command that has switched its light is answered  *)
(* with 400, for any number of clients and actuators, and whatever the     *)
(* database, the kit, the clients, the GUI and a restart of the Control    *)
(* Panel do, as long as the answers of control arrive.  When they do not,  *)
(* the code does answer 400 to what was done.                              *)
(***************************************************************************)
THEOREM RefusedCorrect == ASSUME AnswersArrive PROVE Spec => []RefusedDoesNothing
<1>1. Init => RInv
  <2> SUFFICES ASSUME Init PROVE RInv
      OBVIOUS
  <2>1. \A c \in Clients : req[c].code = "none" /\ req[c].pc = "idle"
      BY DEF Init, NoRequest
  <2> QED BY <2>1, InitTInv DEF RInv, ToldOf
<1>2. RInv /\ [Next]_vars => RInv'
  <2> SUFFICES ASSUME RInv, [Next]_vars PROVE \A c \in Clients : ToldOf(req'[c])
      BY NextTInv DEF RInv
  <2>1. CASE UNCHANGED req
      BY <2>1 DEF RInv
  <2>2. ASSUME NEW c \in Clients, NEW post \in BOOLEAN, NEW i \in Ids,
               NEW a \in Sent, SendRequest(c, post, i, a)
        PROVE  \A d \in Clients : ToldOf(req'[d])
      BY <2>2, SendRequestTold
  <2>3. ASSUME NEW c \in Clients, Take(c) \/ HandlerStep(c) \/ GuiError(c) \/ Execute(c)
        PROVE  \A d \in Clients : ToldOf(req'[d])
      BY <2>3, TakeTold, HandlerTold, CallTold DEF HandlerStep
  <2>4. ~RestartServer /\ \A c \in Clients : ~LoseCall(c)
      BY DEF AnswersArrive, RestartServer, LoseCall
  <2>5. CASE ExecuteLate \/ OpenKit \/ Attach \/ Detach
      BY <2>1, <2>5 DEF ExecuteLate, OpenKit, Attach, Detach
  <2>6. CASE \/ \E i \in Ids :
                   \/ RemoveActuator(i)
                   \/ \E a \in Addrs : AddActuator(i, a) \/ UpdateActuatorAddress(i, a)
             \/ \E p \in BOOLEAN : SetPause(p)
      BY <2>1, <2>6 DEF RemoveActuator, AddActuator, UpdateActuatorAddress, SetPause
  <2>7. CASE RestartPanel
      BY <2>7, RestartPanelTold
  <2>8. CASE UNCHANGED vars
      BY <2>1, <2>8 DEF vars
  <2> QED BY <2>2, <2>3, <2>4, <2>5, <2>6, <2>7, <2>8 DEF Next
<1>3. RInv => RefusedDoesNothing
  BY DEF RInv, ToldOf, RefusedDoesNothing
<1> QED BY <1>1, <1>2, <1>3, PTL DEF Spec
=============================================================================
