----------------------------- MODULE PhotoMote -----------------------------
(***************************************************************************)
(* The Tmote Invent of the photo demo: PhotoToRadioC, which reads the      *)
(* light sensor every five seconds and broadcasts readings; PhotoDriverM,  *)
(* which powers the sensor with two commands to the AD524X potentiometer;  *)
(* AD524XM, which queues the commands (circularQueue.h) and writes them to *)
(* the I2C bus; and, as they use them, the arbiter of the bus, which the   *)
(* radio uses too, the ADC, and the radio stack.                           *)
(*                                                                         *)
(* Tasks run one after the other, and an interrupt or an event of the      *)
(* stack between them: each is an action, which runs to its end.           *)
(***************************************************************************)
EXTENDS CircularQueue

CONSTANTS
    Light,        \* levels of light, as the 12-bit ADC reads them
    QUEUE_SIZE,   \* commands AD524XM can hold
    Faults        \* what can fail: "start", "send", "refuse"

None == "none"
NoReading == -1
ASSUME LightAssumption == Light \subseteq 0 .. 4095
ASSUME QueueAssumption == QUEUE_SIZE \in Nat \ {0}
ASSUME FaultsAssumption == Faults \subseteq {"start", "send", "refuse"}

VARIABLES
    light,         \* what the sensor sees
    am,            \* the radio: "off", "starting" or "on"
    reading,       \* has the timer asked for a reading that has not come?
    lastTransmit,  \* the reading that PhotoToRadioC counts as sent last
    busy,          \* PhotoToRadioC: the radio has not returned pkt yet
    pkt,           \* photoreading in pkt
    radio,         \* the reading the radio is sending, or NoReading
    sent,          \* history: the reading sent last, or NoReading
    missed,        \* history: the reading of the last send, if it failed
    driver,        \* PhotoDriverM.state
    queue,         \* AD524XM.queue
    commands,      \* AD524XM.commands: the state each is to report
    written,       \* history: the commands written to the bus
    writeDoneP,    \* the command whose report is posted, or "none"
    tasks,         \* AD524XM's startDone and the arbiter's grantedTask
    bus            \* the arbiter, and whether a write is under way

app == <<reading, lastTransmit, busy, pkt, radio, sent, missed>>
board == <<driver, queue, commands, written, writeDoneP, tasks, bus>>
vars == <<light, am, app, board>>

Commands == {"AD524X_START", "AD524X_OUTPUT"}
NoQueue == [front |-> 0, back |-> 0, size |-> 0]
Clients == {"ad524x", "cc2420"}

TypeOK ==
    /\ light \in Light
    /\ am \in {"off", "starting", "on"}
    /\ reading \in BOOLEAN /\ busy \in BOOLEAN
    /\ lastTransmit \in 0 .. 4095 /\ pkt \in 0 .. 4095
    /\ radio \in Light \cup {NoReading} /\ sent \in Light \cup {NoReading}
    /\ missed \in Light \cup {NoReading}
    /\ driver \in {"OFF", "START", "START_O", "IDLE"}
    /\ queue \in Queues(QUEUE_SIZE) \cup {NoQueue}
    /\ commands \in [0 .. QUEUE_SIZE - 1 -> Commands \cup {None}]
    /\ written \in Seq(Commands)
    /\ writeDoneP \in Commands \cup {None}
    /\ tasks \subseteq {"startDone", "granted"}
    /\ bus \in [state : {"controlled", "granting", "busy"}, writing : BOOLEAN,
                resId : Clients \cup {None}, reqResId : Clients \cup {None},
                waiting : Seq(Clients)]

Init ==
    /\ light \in Light
    /\ am = "off"
    /\ reading = FALSE /\ busy = FALSE
    /\ lastTransmit = 1 /\ pkt = 0
    /\ radio = NoReading /\ sent = NoReading /\ missed = NoReading
    /\ driver = "OFF"
    /\ queue = NoQueue
    /\ commands = [i \in 0 .. QUEUE_SIZE - 1 |-> None]
    /\ written = <<>> /\ writeDoneP = None
    /\ tasks = {}
    /\ bus = [state |-> "controlled", writing |-> FALSE, resId |-> None,
              reqResId |-> None, waiting |-> <<>>]

-----------------------------------------------------------------------------
(* The arbiter of USART0 (ArbiterP with FcfsResourceQueueC) *)

\* The default owner gives the bus up at once and posts the granted task.
Request(b, c) ==
    IF b.state = "controlled"
    THEN [b EXCEPT !.state = "granting", !.reqResId = c]
    ELSE IF Contains(b.waiting, c) THEN b
    ELSE [b EXCEPT !.waiting = Append(@, c)]

Release(b, c) ==
    IF ~(b.state = "busy" /\ b.resId = c) THEN b
    ELSE IF b.waiting # <<>>
    THEN [b EXCEPT !.state = "granting", !.reqResId = Head(b.waiting),
                   !.waiting = Tail(@)]
    ELSE [b EXCEPT !.state = "controlled", !.resId = None]

\* Release and ask again: AD524XM does so whenever it has a command to write.
Defer(b) == Request(Release(b, "ad524x"), "ad524x")

GrantedTask == IF bus'.state = "granting" THEN {"granted"} ELSE {}

-----------------------------------------------------------------------------
(* AD524XM *)

\* startCommand, for a queue q and a bus b as the caller has left them.
StartCommand(q, b, c) ==
    LET pushed == cqueue_pushBack(q)
    IN  IF pushed.ok
        THEN /\ queue' = pushed.queue
             /\ commands' = [commands EXCEPT ![pushed.queue.back] = c]
             /\ bus' = Defer(b)
        ELSE queue' = q /\ bus' = b /\ UNCHANGED commands

\* A write the bus refuses is deferred.  Msp430I2CP refuses none, but AD524XM
\* allows for it; its second release finds the bus granted or taken already.
RefusedForGood(b) == Release(b, "ad524x")
Refused(b) == Release(Defer(b), "ad524x")

\* A grant for which there is no command left: each command is asked for twice.
Kept(b) == b
GivenBack(b) == Release(b, "ad524x")

Granted ==
    /\ "granted" \in tasks
    /\ bus.reqResId = "ad524x"
    /\ LET b == [bus EXCEPT !.state = "busy", !.resId = "ad524x"]
       IN  \/ /\ ~cqueue_isEmpty(queue)
              /\ bus' = [b EXCEPT !.writing = TRUE]
              /\ written' = Append(written, commands[queue.front])
           \/ /\ ~cqueue_isEmpty(queue) /\ "refuse" \in Faults
              /\ bus' = Refused(b)
              /\ UNCHANGED written
           \/ /\ cqueue_isEmpty(queue)
              /\ bus' = GivenBack(b)
              /\ UNCHANGED written
    /\ tasks' = (tasks \ {"granted"}) \cup GrantedTask
    /\ UNCHANGED <<light, am, app, driver, queue, commands, writeDoneP>>

\* The interrupt at the end of a write, in error or not: ioDoneBegin pops the
\* command and gives the bus up; the error is only passed on.
WriteDone ==
    /\ bus.writing
    /\ writeDoneP' = commands[queue.front]
    /\ queue' = cqueue_popFront(queue).queue
    /\ bus' = Release([bus EXCEPT !.writing = FALSE], "ad524x")
    /\ tasks' = tasks \cup GrantedTask
    /\ UNCHANGED <<light, am, app, driver, commands, written>>

\* ioDoneEnd, for the queue and the bus as the report has left them.
IoDoneEnd(q, b) == IF cqueue_isEmpty(q) THEN b ELSE Defer(b)

\* The task that reports START to PhotoDriverM, which sets the output and,
\* if that is queued, is up.
ReportStart ==
    LET pushed == cqueue_pushBack(queue)
        b == IF pushed.ok THEN Defer(bus) ELSE bus
    IN  IF driver = "START"
        THEN /\ driver' = IF pushed.ok THEN "IDLE" ELSE "START_O"
             /\ queue' = pushed.queue
             /\ commands' = IF pushed.ok
                    THEN [commands EXCEPT ![pushed.queue.back] = "AD524X_OUTPUT"]
                    ELSE commands
             /\ bus' = IoDoneEnd(pushed.queue, b)
        ELSE /\ bus' = IoDoneEnd(queue, bus)
             /\ UNCHANGED <<driver, queue, commands>>

\* ... and the one that reports OUTPUT: the driver no longer waits for it.
ReportOutput ==
    /\ driver' = IF driver = "START_O" THEN "IDLE" ELSE driver
    /\ bus' = IoDoneEnd(queue, bus)
    /\ UNCHANGED <<queue, commands>>

WriteDoneTask ==
    /\ writeDoneP # None
    /\ \/ writeDoneP = "AD524X_START" /\ ReportStart
       \/ writeDoneP = "AD524X_OUTPUT" /\ ReportOutput
    /\ writeDoneP' = None
    /\ tasks' = tasks \cup GrantedTask
    /\ UNCHANGED <<light, am, app, written>>

\* The task startDone signals PhotoDriverM, which starts the potentiometer.
StartDoneTask ==
    /\ "startDone" \in tasks
    /\ StartCommand(queue, bus, "AD524X_START")
    /\ tasks' = (tasks \ {"startDone"}) \cup GrantedTask
    /\ UNCHANGED <<light, am, app, driver, written, writeDoneP>>

\* The radio's driver asks for the bus, gets it, and gives it up.
RadioRequests ==
    /\ am # "off"
    /\ ~(bus.state = "busy" /\ bus.resId = "cc2420")
    /\ ~(bus.state = "granting" /\ bus.reqResId = "cc2420")
    /\ bus' = Request(bus, "cc2420")
    /\ tasks' = tasks \cup GrantedTask
    /\ UNCHANGED <<light, am, app, driver, queue, commands, written, writeDoneP>>

RadioGranted ==
    /\ "granted" \in tasks
    /\ bus.reqResId = "cc2420"
    /\ bus' = [bus EXCEPT !.state = "busy", !.resId = "cc2420"]
    /\ tasks' = tasks \ {"granted"}
    /\ UNCHANGED <<light, am, app, driver, queue, commands, written, writeDoneP>>

RadioReleases ==
    /\ bus.state = "busy" /\ bus.resId = "cc2420"
    /\ bus' = Release(bus, "cc2420")
    /\ tasks' = tasks \cup GrantedTask
    /\ UNCHANGED <<light, am, app, driver, queue, commands, written, writeDoneP>>

-----------------------------------------------------------------------------
(* PhotoToRadioC *)

Booted ==
    /\ am = "off"
    /\ am' = "starting"
    /\ UNCHANGED <<light, app, board>>

\* PhotoControl.start runs down to AD524XM, which empties its queue.
PhotoControlStart ==
    IF driver = "OFF"
    THEN /\ driver' = "START"
         /\ queue' = cqueue_init(QUEUE_SIZE)
         /\ tasks' = tasks \cup {"startDone"}
    ELSE UNCHANGED <<driver, queue, tasks>>

AMStartDone ==
    /\ am = "starting"
    /\ am' = "on"
    /\ PhotoControlStart
    /\ UNCHANGED <<light, app, commands, written, writeDoneP, bus>>

\* Started again: am stays "starting".
AMStartFailed ==
    /\ "start" \in Faults
    /\ am = "starting"
    /\ UNCHANGED vars

\* The five-second timer: Photo.read asks for the ADC, once.
TimerFired ==
    /\ am = "on"
    /\ reading' = TRUE
    /\ UNCHANGED <<light, am, lastTransmit, busy, pkt, radio, sent, missed, board>>

\* Has the reading changed enough to be sent?
Half(r) == (r \div 100) * 50
Changed(last, data) == last + Half(last) > data \/ last - Half(last) < data

\* AMSend.send: from here to sendDone the radio works on pkt itself.
Send(data) ==
    \/ /\ busy' = TRUE /\ radio' = data
       /\ UNCHANGED <<sent, missed>>
    \/ /\ "send" \in Faults
       /\ missed' = data
       /\ UNCHANGED <<busy, radio, sent>>

ReadDoneUnguarded(data) ==
    /\ reading
    /\ reading' = FALSE
    /\ pkt' = data
    /\ IF ~busy /\ Changed(lastTransmit, data)
       THEN lastTransmit' = data /\ Send(data)
       ELSE UNCHANGED <<lastTransmit, busy, radio, sent, missed>>
    /\ UNCHANGED <<light, am, board>>

\* The result of the read is not looked at.
ReadDone(data) ==
    /\ reading
    /\ reading' = FALSE
    /\ IF ~busy
       THEN /\ pkt' = data
            /\ IF Changed(lastTransmit, data)
               THEN lastTransmit' = data /\ Send(data)
               ELSE UNCHANGED <<lastTransmit, busy, radio, sent, missed>>
       ELSE UNCHANGED <<pkt, lastTransmit, busy, radio, sent, missed>>
    /\ UNCHANGED <<light, am, board>>

\* What is sent is what pkt holds when the radio has done with it.
Transmitted == sent' = pkt /\ missed' = NoReading
NotTransmitted == "send" \in Faults /\ missed' = pkt /\ UNCHANGED sent

SendDoneOfNoError ==
    /\ radio # NoReading
    /\ \/ Transmitted /\ busy' = FALSE
       \/ NotTransmitted /\ UNCHANGED busy
    /\ radio' = NoReading
    /\ UNCHANGED <<light, am, reading, lastTransmit, pkt, board>>

\* The error is not looked at.
SendDone ==
    /\ radio # NoReading
    /\ Transmitted \/ NotTransmitted
    /\ busy' = FALSE
    /\ radio' = NoReading
    /\ UNCHANGED <<light, am, reading, lastTransmit, pkt, board>>

LightChanges ==
    /\ light' \in Light \ {light}
    /\ UNCHANGED <<am, app, board>>

-----------------------------------------------------------------------------
Board ==
    \/ StartDoneTask \/ Granted \/ WriteDone \/ WriteDoneTask
    \/ RadioRequests \/ RadioGranted \/ RadioReleases

Next ==
    \/ Booted \/ AMStartDone \/ AMStartFailed
    \/ TimerFired \/ ReadDone(light) \/ SendDone
    \/ Board \/ LightChanges

Spec == Init /\ [][Next]_vars

-----------------------------------------------------------------------------
(* Safety *)

\* The index arithmetic makes a queue of its slots, for every size up to that
\* of the queue in use: a push never takes a used slot.
QueueIsSafe ==
    \A size \in 1 .. queue.size : \A cq \in Queues(size) :
        PushesAreSafe(cq) /\ PopsAreSafe(cq)

\* The packet the radio is working on is not written to.
PacketStable == [][radio # NoReading => pkt' = pkt]_vars

-----------------------------------------------------------------------------
(***************************************************************************)
(* Liveness.  Posted tasks run, the timer keeps firing, the ADC and the    *)
(* I2C bus answer, the radio gives the bus and pkt back, and what can fail *)
(* - starting the radio, a write, a send - does not fail for ever.         *)
(***************************************************************************)
Fairness ==
    /\ WF_vars(Booted) /\ SF_vars(AMStartDone)
    /\ WF_vars(TimerFired) /\ WF_vars(ReadDone(light)) /\ WF_vars(SendDone)
    /\ SF_vars(ReadDone(light) /\ radio' # radio)
    /\ SF_vars(SendDone /\ Transmitted)
    /\ WF_vars(StartDoneTask) /\ WF_vars(WriteDone) /\ WF_vars(WriteDoneTask)
    /\ WF_vars(Granted) /\ SF_vars(Granted /\ bus'.writing)
    /\ WF_vars(RadioGranted) /\ WF_vars(RadioReleases)

FairSpec == Spec /\ Fairness

\* Although the bus is granted twice for a command, and refused or taken by
\* the radio in between, the two commands that power the sensor are written in
\* the end, once each and in order.
SensorPowered == <>[](written = <<"AD524X_START", "AD524X_OUTPUT">>)

\* The potentiometer never keeps the bus from the radio.
RadioServed == Contains(bus.waiting, "cc2420") ~> bus.resId = "cc2420"

\* A level of light that lasts is heard in the end, although most readings are
\* dropped while the radio is busy and any send may fail.  Two levels may not
\* be: 1, which counts as sent when the mote boots, and a level below 100 of
\* which a send has failed, since that counts as sent too.
LevelHeard ==
    \A v \in Light \ {1} :
        <>[](light = v) => <>[](sent = v \/ (v < 100 /\ missed = v))
=============================================================================
