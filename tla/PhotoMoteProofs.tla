-------------------------- MODULE PhotoMoteProofs --------------------------
(***************************************************************************)
(* The packet of PhotoMote belongs to the radio from send to sendDone, and *)
(* what the threshold for a change comes to.                               *)
(***************************************************************************)
EXTENDS PhotoMote, SequenceTheorems, TLAPS

(***************************************************************************)
(* The 50 % threshold of PhotoToRadioC.nc:61 filters next to nothing: a    *)
(* reading is left unsent only if it equals the one before, and that one   *)
(* is below 100.  Above, both sides of the disjunction overlap.            *)
(***************************************************************************)
THEOREM ThresholdFiltersRepeats ==
    ASSUME NEW last \in 0 .. 4095, NEW data \in 0 .. 4095
    PROVE  ~Changed(last, data) <=> last < 100 /\ data = last
<1>1. PICK q \in Int, r \in 0 .. 99 : last = 100 * q + r /\ last \div 100 = q
  OBVIOUS
<1>2. Half(last) = q * 50
  BY <1>1 DEF Half
<1>3. CASE q = 0
  <2>1. last < 100 /\ Half(last) = 0
    BY <1>1, <1>2, <1>3
  <2> QED
    BY <2>1 DEF Changed
<1>4. CASE q # 0
  <2>1. q >= 1 /\ last >= 100 /\ Half(last) >= 50 /\ Half(last) \in Int
    BY <1>1, <1>2, <1>4
  <2>2. last + Half(last) > last - Half(last) + 1
    BY <2>1
  <2> QED
    BY <2>1, <2>2 DEF Changed
<1> QED
  BY <1>3, <1>4

-----------------------------------------------------------------------------
\* busy says that the radio has the packet.
BusyInv == radio # NoReading => busy

LEMMA BusyStep == BusyInv /\ [Next]_vars => BusyInv'
<1> SUFFICES ASSUME BusyInv, [Next]_vars PROVE BusyInv'
  OBVIOUS
<1> USE DEF BusyInv
<1>1. CASE ReadDone(light)
  BY <1>1 DEF ReadDone, Send
<1>2. CASE SendDone
  BY <1>2 DEF SendDone
<1>3. CASE Booted \/ AMStartDone \/ AMStartFailed \/ LightChanges
  BY <1>3 DEF Booted, AMStartDone, AMStartFailed, LightChanges, app, vars
<1>4. CASE TimerFired
  BY <1>4 DEF TimerFired
<1>5. CASE Board
  BY <1>5 DEF Board, StartDoneTask, Granted, WriteDone, WriteDoneTask,
              RadioRequests, RadioGranted, RadioReleases, app
<1>6. CASE UNCHANGED vars
  BY <1>6 DEF vars, app
<1> QED
  BY <1>1, <1>2, <1>3, <1>4, <1>5, <1>6 DEF Next

LEMMA PacketStep == BusyInv /\ [Next]_vars => (radio # NoReading => pkt' = pkt)
<1> SUFFICES ASSUME BusyInv, [Next]_vars, radio # NoReading PROVE pkt' = pkt
  OBVIOUS
<1>0. busy
  BY DEF BusyInv
<1>1. CASE ReadDone(light)
  BY <1>0, <1>1 DEF ReadDone
<1>2. CASE SendDone
  BY <1>2 DEF SendDone
<1>3. CASE Booted \/ AMStartDone \/ AMStartFailed \/ LightChanges
  BY <1>3 DEF Booted, AMStartDone, AMStartFailed, LightChanges, app, vars
<1>4. CASE TimerFired
  BY <1>4 DEF TimerFired
<1>5. CASE Board
  BY <1>5 DEF Board, StartDoneTask, Granted, WriteDone, WriteDoneTask,
              RadioRequests, RadioGranted, RadioReleases, app
<1>6. CASE UNCHANGED vars
  BY <1>6 DEF vars, app
<1> QED
  BY <1>1, <1>2, <1>3, <1>4, <1>5, <1>6 DEF Next

(***************************************************************************)
(* PhotoToRadioC writes to pkt only when it is not busy, so the radio      *)
(* sends what it was given, for all levels of light and all failures.      *)
(***************************************************************************)
THEOREM PacketCorrect == Spec => PacketStable
<1>1. Init => BusyInv
  BY DEF Init, BusyInv
<1> QED
  BY <1>1, BusyStep, PacketStep, PTL DEF Spec, PacketStable

-----------------------------------------------------------------------------
(***************************************************************************)
(* The types of PhotoToRadioC.  The radio sends what pkt holds.            *)
(***************************************************************************)
AppType ==
    /\ light \in Light
    /\ am \in {"off", "starting", "on"}
    /\ reading \in BOOLEAN /\ busy \in BOOLEAN
    /\ lastTransmit \in 0 .. 4095

PktInv ==
    /\ pkt \in 0 .. 4095
    /\ radio \in Light \cup {NoReading} /\ sent \in Light \cup {NoReading}
    /\ missed \in Light \cup {NoReading}
    /\ radio # NoReading => busy /\ pkt = radio

AppInv == AppType /\ PktInv

LEMMA ReadDoneApp ==
    ASSUME AppInv, ReadDone(light)
    PROVE  AppInv'
<1> USE DEF AppInv
<1>1. light \in Light /\ light \in 0 .. 4095
  BY LightAssumption DEF AppType
<1>2. light' = light /\ am' = am /\ reading' \in BOOLEAN
  BY DEF ReadDone
<1>3. lastTransmit' \in 0 .. 4095 /\ busy' \in BOOLEAN
  <2>1. lastTransmit \in 0 .. 4095
    BY DEF AppType
  <2>2. ASSUME lastTransmit' = lastTransmit
        PROVE  lastTransmit' \in 0 .. 4095
    BY <2>1, <2>2
  <2>3. ASSUME lastTransmit' # lastTransmit
        PROVE  lastTransmit' \in 0 .. 4095
    <3>1. lastTransmit' = light
      BY <2>3 DEF ReadDone
    <3> QED
      BY <1>1, <3>1
  <2>4. lastTransmit' \in 0 .. 4095
    BY <2>2, <2>3
  <2>5. busy' = busy \/ busy' = TRUE
    BY DEF ReadDone, Send
  <2>6. busy' \in BOOLEAN
    <3>1. busy \in BOOLEAN
      BY DEF AppType
    <3> HIDE DEF AppInv
    <3> QED
      BY <2>5, <3>1
  <2> QED
    BY <2>4, <2>6
<1>4. PktInv'
  <2>1. CASE busy
    BY <2>1 DEF ReadDone, PktInv
  <2>2. CASE ~ busy /\ ~ Changed(lastTransmit, light)
    BY <1>1, <2>2 DEF ReadDone, PktInv
  <2>3. CASE ~ busy /\ Changed(lastTransmit, light)
    <3>1. pkt' = light /\ Send(light) /\ radio = NoReading
      BY <2>3 DEF ReadDone, PktInv
    <3>2. \/ busy' /\ radio' = light /\ sent' = sent /\ missed' = missed
          \/ radio' = radio /\ sent' = sent /\ missed' = light
      BY <3>1 DEF Send
    <3> QED
      BY <1>1, <3>1, <3>2 DEF PktInv
  <2> QED
    BY <2>1, <2>2, <2>3
<1>5. AppType'
  BY <1>1, <1>2, <1>3 DEF AppType
<1> QED
  BY <1>4, <1>5

LEMMA SendDoneApp ==
    ASSUME AppInv, SendDone
    PROVE  AppInv'
<1> USE DEF AppInv
<1>1. /\ pkt \in Light /\ pkt' = pkt /\ radio' = NoReading
      /\ UNCHANGED <<light, am, reading, lastTransmit>>
  BY DEF PktInv, SendDone
<1>2. sent' \in Light \cup {NoReading} /\ missed' \in Light \cup {NoReading}
  BY <1>1 DEF PktInv, SendDone, Transmitted, NotTransmitted
<1>3. PktInv'
  BY <1>1, <1>2 DEF PktInv
<1>4. busy' \in BOOLEAN
  BY DEF SendDone
<1>5. AppType'
  BY <1>1, <1>4 DEF AppType
<1> QED
  BY <1>3, <1>5

LEMMA AppStep ==
    ASSUME AppInv, [Next]_vars
    PROVE  AppInv'
<1> USE DEF AppInv
<1>1. CASE ReadDone(light) \/ SendDone
  BY <1>1, ReadDoneApp, SendDoneApp
<1>2. CASE TimerFired
  <2>1. /\ UNCHANGED <<light, am, lastTransmit, busy, pkt, radio, sent, missed>>
        /\ reading' \in BOOLEAN
    BY <1>2 DEF TimerFired
  <2> QED
    BY <2>1 DEF AppType, PktInv
<1>3. CASE Booted \/ AMStartDone \/ AMStartFailed \/ LightChanges \/ Board \/ UNCHANGED vars
  <2> USE DEF Booted, AMStartDone, AMStartFailed, LightChanges, Board, StartDoneTask,
              Granted, WriteDone, WriteDoneTask, RadioRequests, RadioGranted,
              RadioReleases, vars
  <2>1. UNCHANGED app
    BY <1>3
  <2>2. light' \in Light
    BY <1>3 DEF AppType
  <2>3. am' \in {"off", "starting", "on"}
    BY <1>3 DEF AppType
  <2>4. PktInv'
    BY <2>1 DEF PktInv, app
  <2>5. AppType'
    BY <2>1, <2>2, <2>3 DEF AppType, app
  <2> QED
    BY <2>4, <2>5
<1> QED
  BY <1>1, <1>2, <1>3 DEF Next

(***************************************************************************)
(* The queue of AD524XM: the slots it uses, and what becomes of them.      *)
(***************************************************************************)
Used(cq) ==
    IF cqueue_isEmpty(cq) THEN {}
    ELSE IF cq.front >= cq.back THEN cq.back .. cq.front
    ELSE (0 .. cq.front) \cup (cq.back .. cq.size - 1)

LEMMA QueueFields ==
    ASSUME NEW size \in Nat \ {0}, NEW cq \in Queues(size)
    PROVE  /\ cq.size = size
           /\ cqueue_isEmpty(cq) => cq.front = size /\ cq.back = size
           /\ ~ cqueue_isEmpty(cq) => cq.front \in 0 .. size - 1 /\ cq.back \in 0 .. size - 1
BY DEF Queues, cqueue_isEmpty

LEMMA PushBack ==
    ASSUME NEW size \in Nat \ {0}, NEW cq \in Queues(size)
    PROVE  /\ cqueue_pushBack(cq).queue \in Queues(size)
           /\ cqueue_pushBack(cq).ok \in BOOLEAN
           /\ ~ cqueue_pushBack(cq).ok => cqueue_pushBack(cq).queue = cq
           /\ cqueue_pushBack(cq).ok =>
                  /\ ~ cqueue_isEmpty(cqueue_pushBack(cq).queue)
                  /\ cqueue_pushBack(cq).queue.back \in 0 .. size - 1
                  /\ Used(cqueue_pushBack(cq).queue)
                         \subseteq Used(cq) \cup {cqueue_pushBack(cq).queue.back}
<1>1. CASE cqueue_isEmpty(cq)
  <2>1. PICK r : r = OnlyElement(cq)
    OBVIOUS
  <2>2. /\ r \in Queues(size) /\ r.front = 0 /\ r.back = 0 /\ r.size = size
        /\ ~ cqueue_isEmpty(r)
    <3>1. cq = [front |-> size, back |-> size, size |-> size]
      BY <1>1, QueueFields DEF Queues, cqueue_isEmpty
    <3>2. r = [front |-> 0, back |-> 0, size |-> size]
      BY <2>1, <3>1 DEF OnlyElement
    <3> QED
      BY <3>2 DEF Queues, cqueue_isEmpty
  <2>3. Used(r) = {0}
    BY <2>2 DEF Used
  <2>4. cqueue_pushBack(cq) = [queue |-> r, ok |-> TRUE]
    BY <1>1, <2>1 DEF cqueue_pushBack, Returns
  <2> QED
    BY <2>2, <2>3, <2>4
<1>2. CASE ~ cqueue_isEmpty(cq)
  <2>1. PICK n : n = cqueue_privDec(cq, cq.back)
    OBVIOUS
  <2>2. /\ cq.front \in 0 .. size - 1 /\ cq.back \in 0 .. size - 1 /\ cq.size = size
        /\ cq \in [front : 0 .. size - 1, back : 0 .. size - 1, size : {size}]
    BY <1>2, QueueFields DEF Queues, cqueue_isEmpty
  <2>3. n = (IF cq.back # 0 THEN cq.back - 1 ELSE size - 1) /\ n \in 0 .. size - 1
    BY <2>1, <2>2 DEF cqueue_privDec
  <2>4. CASE n = cq.front
    BY <1>2, <2>1, <2>4 DEF cqueue_pushBack, Returns
  <2>5. CASE n # cq.front
    <3>1. PICK r : r = [cq EXCEPT !.back = n]
      OBVIOUS
    <3>2. cqueue_pushBack(cq) = [queue |-> r, ok |-> TRUE]
      BY <1>2, <2>1, <2>5, <3>1 DEF cqueue_pushBack, Returns
    <3>3. /\ r \in Queues(size) /\ r.back = n /\ r.front = cq.front /\ r.size = size
          /\ ~ cqueue_isEmpty(r)
      BY <2>2, <2>3, <3>1 DEF Queues, cqueue_isEmpty
    <3>4. Used(r) \subseteq Used(cq) \cup {n}
      BY <1>2, <2>2, <2>3, <2>5, <3>3 DEF Used
    <3> QED
      BY <2>3, <3>2, <3>3, <3>4
  <2> QED
    BY <2>4, <2>5
<1> QED
  BY <1>1, <1>2

LEMMA PopFront ==
    ASSUME NEW size \in Nat \ {0}, NEW cq \in Queues(size)
    PROVE  /\ cqueue_popFront(cq).queue \in Queues(size)
           /\ Used(cqueue_popFront(cq).queue) \subseteq Used(cq)
<1>1. CASE cqueue_isEmpty(cq)
  BY <1>1 DEF cqueue_popFront, Returns
<1>2. CASE ~ cqueue_isEmpty(cq)
  <2>1. /\ cq.front \in 0 .. size - 1 /\ cq.back \in 0 .. size - 1 /\ cq.size = size
        /\ cq \in [front : 0 .. size - 1, back : 0 .. size - 1, size : {size}]
    BY <1>2, QueueFields DEF Queues, cqueue_isEmpty
  <2>2. CASE cq.front = cq.back
    <3>1. PICK r : r = NoElement(cq)
      OBVIOUS
    <3>2. r \in Queues(size) /\ cqueue_isEmpty(r)
      BY <2>1, <3>1 DEF NoElement, Queues, cqueue_isEmpty
    <3>3. cqueue_popFront(cq) = [queue |-> r, ok |-> FALSE]
      BY <1>2, <2>2, <3>1 DEF cqueue_popFront, Returns
    <3> QED
      BY <3>2, <3>3 DEF Used
  <2>3. CASE cq.front # cq.back
    <3>1. PICK r, n : n = cqueue_privDec(cq, cq.front) /\ r = [cq EXCEPT !.front = n]
      OBVIOUS
    <3>2. n = (IF cq.front # 0 THEN cq.front - 1 ELSE size - 1) /\ n \in 0 .. size - 1
      BY <2>1, <3>1 DEF cqueue_privDec
    <3>3. cqueue_popFront(cq) = [queue |-> r, ok |-> TRUE]
      BY <1>2, <2>3, <3>1 DEF cqueue_popFront, Returns
    <3>4. /\ r \in Queues(size) /\ r.front = n /\ r.back = cq.back /\ r.size = size
          /\ ~ cqueue_isEmpty(r)
      BY <2>1, <3>1, <3>2 DEF Queues, cqueue_isEmpty
    <3>5. Used(r) \subseteq Used(cq)
      BY <1>2, <2>1, <2>3, <3>2, <3>4 DEF Used
    <3> QED
      BY <3>3, <3>4, <3>5
  <2> QED
    BY <2>2, <2>3
<1> QED
  BY <1>1, <1>2

-----------------------------------------------------------------------------
(***************************************************************************)
(* The types of the driver, of AD524XM and of the bus.  A used slot of the *)
(* queue always has its command, the queue is there once the driver is on, *)
(* and a write that is under way is that of a command in the queue.        *)
(***************************************************************************)
Buses ==
    [state : {"controlled", "granting", "busy"}, writing : BOOLEAN,
     resId : Clients \cup {None}, reqResId : Clients \cup {None},
     waiting : Seq(Clients)]

DriverInv ==
    /\ driver \in {"OFF", "START", "START_O", "IDLE"}
    /\ tasks \subseteq {"startDone", "granted"}
    /\ driver = "OFF" => queue = NoQueue /\ "startDone" \notin tasks
    /\ driver # "OFF" => queue \in Queues(QUEUE_SIZE)

CommandInv ==
    /\ commands \in [0 .. QUEUE_SIZE - 1 -> Commands \cup {None}]
    /\ \A i \in Used(queue) : commands[i] \in Commands
    /\ written \in Seq(Commands)
    /\ writeDoneP \in Commands \cup {None}

BusInv ==
    /\ bus \in Buses
    /\ bus.writing => ~ cqueue_isEmpty(queue)

MoteInv == DriverInv /\ CommandInv /\ BusInv

LEMMA RequestKeeps ==
    ASSUME NEW b \in Buses, NEW c \in Clients
    PROVE  Request(b, c) \in Buses /\ Request(b, c).writing = b.writing
<1>1. Append(b.waiting, c) \in Seq(Clients)
  BY AppendProperties DEF Buses
<1>2. \/ Request(b, c) = b
      \/ Request(b, c) = [b EXCEPT !.state = "granting", !.reqResId = c]
      \/ Request(b, c) = [b EXCEPT !.waiting = Append(b.waiting, c)]
  BY DEF Request, Buses
<1> QED
  BY <1>1, <1>2 DEF Buses

LEMMA ReleaseKeeps ==
    ASSUME NEW b \in Buses, NEW c \in Clients
    PROVE  Release(b, c) \in Buses /\ Release(b, c).writing = b.writing
<1>1. CASE ~ (b.state = "busy" /\ b.resId = c)
  BY <1>1 DEF Release
<1>2. CASE (b.state = "busy" /\ b.resId = c) /\ b.waiting # <<>>
  <2>1. Head(b.waiting) \in Clients /\ Tail(b.waiting) \in Seq(Clients)
    BY <1>2, HeadTailProperties DEF Buses
  <2>2. Release(b, c) = [b EXCEPT !.state = "granting", !.reqResId = Head(b.waiting),
                                  !.waiting = Tail(b.waiting)]
    BY <1>2 DEF Release, Buses
  <2> QED
    BY <2>1, <2>2 DEF Buses
<1>3. CASE (b.state = "busy" /\ b.resId = c) /\ b.waiting = <<>>
  <2>1. Release(b, c) = [b EXCEPT !.state = "controlled", !.resId = None]
    BY <1>3 DEF Release
  <2> QED
    BY <2>1 DEF Buses
<1> QED
  BY <1>1, <1>2, <1>3

LEMMA DeferKeeps ==
    ASSUME NEW b \in Buses
    PROVE  Defer(b) \in Buses /\ Defer(b).writing = b.writing
<1>1. "ad524x" \in Clients
  BY DEF Clients
<1>2. PICK r : r = Release(b, "ad524x")
  OBVIOUS
<1>3. r \in Buses /\ r.writing = b.writing
  BY <1>1, <1>2, ReleaseKeeps
<1> QED
  BY <1>1, <1>2, <1>3, RequestKeeps DEF Defer

LEMMA NothingQueued ==
    /\ cqueue_isEmpty(NoQueue) /\ Used(NoQueue) = {}
    /\ cqueue_init(QUEUE_SIZE) \in Queues(QUEUE_SIZE)
    /\ cqueue_isEmpty(cqueue_init(QUEUE_SIZE)) /\ Used(cqueue_init(QUEUE_SIZE)) = {}
BY DEF NoQueue, cqueue_init, cqueue_isEmpty, Used, Queues

\* Command c enters the queue.
LEMMA CommandEnters ==
    ASSUME MoteInv, driver # "OFF", NEW c \in Commands,
           cqueue_pushBack(queue).ok, queue' = cqueue_pushBack(queue).queue,
           commands' = [commands EXCEPT ![queue'.back] = c]
    PROVE  /\ queue' \in Queues(QUEUE_SIZE) /\ ~ cqueue_isEmpty(queue')
           /\ commands' \in [0 .. QUEUE_SIZE - 1 -> Commands \cup {None}]
           /\ \A i \in Used(queue') : commands'[i] \in Commands
<1>1. PICK k, r : r = queue' /\ k = r.back
  OBVIOUS
<1>2. QUEUE_SIZE \in Nat \ {0} /\ queue \in Queues(QUEUE_SIZE)
  BY QueueAssumption DEF MoteInv, DriverInv
<1>3. /\ r \in Queues(QUEUE_SIZE) /\ ~ cqueue_isEmpty(r) /\ k \in 0 .. QUEUE_SIZE - 1
      /\ Used(r) \subseteq Used(queue) \cup {k}
  BY <1>1, <1>2, PushBack
<1>4. commands' = [commands EXCEPT ![k] = c]
  BY <1>1
<1>5. /\ commands' \in [0 .. QUEUE_SIZE - 1 -> Commands \cup {None}]
      /\ commands'[k] = c
      /\ \A i \in 0 .. QUEUE_SIZE - 1 : i # k => commands'[i] = commands[i]
  BY <1>3, <1>4 DEF MoteInv, CommandInv
<1>6. \A i \in Used(queue) : i \in 0 .. QUEUE_SIZE - 1
  BY <1>2, QueueFields DEF Used
<1>7. \A i \in Used(r) : commands'[i] \in Commands
  BY <1>3, <1>5, <1>6 DEF MoteInv, CommandInv
<1> QED
  BY <1>1, <1>3, <1>5, <1>7

LEMMA InitMote == Init => AppInv /\ MoteInv
<1> SUFFICES ASSUME Init PROVE AppInv /\ MoteInv
  OBVIOUS
<1>1. AppType
  <2>1. light \in Light /\ am \in {"off", "starting", "on"}
    BY DEF Init
  <2>2. reading \in BOOLEAN /\ busy \in BOOLEAN
    BY DEF Init
  <2>3. lastTransmit \in 0 .. 4095
    BY DEF Init
  <2> QED
    BY <2>1, <2>2, <2>3 DEF AppType
<1>2. PktInv
  BY DEF Init, PktInv
<1>3. DriverInv
  BY DEF Init, DriverInv
<1>4. CommandInv
  BY NothingQueued, EmptySeq DEF Init, CommandInv
<1>5. bus \in Buses
  BY EmptySeq DEF Init, Buses
<1> QED
  BY <1>1, <1>2, <1>3, <1>4, <1>5 DEF Init, AppInv, MoteInv, BusInv

\* The bus changes hands; nothing of AD524XM does.
LEMMA BusChanges ==
    ASSUME MoteInv, UNCHANGED <<driver, queue, commands, written, writeDoneP>>,
           bus' \in Buses, bus'.writing = bus.writing,
           tasks' \subseteq tasks \cup {"granted"}
    PROVE  MoteInv'
BY DEF MoteInv, DriverInv, CommandInv, BusInv

LEMMA RadioBusStep ==
    ASSUME MoteInv, RadioRequests \/ RadioGranted \/ RadioReleases
    PROVE  MoteInv'
<1>1. "cc2420" \in Clients /\ bus \in Buses
  BY DEF Clients, MoteInv, BusInv
<1>2. /\ UNCHANGED <<driver, queue, commands, written, writeDoneP>>
      /\ tasks' \subseteq tasks \cup {"granted"}
  BY DEF RadioRequests, RadioGranted, RadioReleases, GrantedTask
<1>3. \/ bus' = Request(bus, "cc2420") \/ bus' = Release(bus, "cc2420")
      \/ bus' = [bus EXCEPT !.state = "busy", !.resId = "cc2420"]
  BY DEF RadioRequests, RadioGranted, RadioReleases
<1>4. bus' \in Buses /\ bus'.writing = bus.writing
  <2>1. CASE bus' = [bus EXCEPT !.state = "busy", !.resId = "cc2420"]
    BY <1>1, <2>1 DEF Buses
  <2>2. CASE bus' # [bus EXCEPT !.state = "busy", !.resId = "cc2420"]
    BY <1>1, <1>3, <2>2, RequestKeeps, ReleaseKeeps
  <2> QED
    BY <2>1, <2>2
<1> QED
  BY <1>2, <1>4, BusChanges

LEMMA GrantedStep ==
    ASSUME MoteInv, Granted
    PROVE  MoteInv'
<1>1. PICK b : b = [bus EXCEPT !.state = "busy", !.resId = "ad524x"]
  OBVIOUS
<1>2. b \in Buses /\ b.writing = bus.writing /\ "ad524x" \in Clients
  BY <1>1 DEF MoteInv, BusInv, Buses, Clients
<1>3. /\ UNCHANGED <<driver, queue, commands, writeDoneP>>
      /\ tasks' \subseteq tasks \cup {"granted"}
  BY DEF Granted, GrantedTask
<1>4. CASE /\ ~ cqueue_isEmpty(queue) /\ bus' = [b EXCEPT !.writing = TRUE]
           /\ written' = Append(written, commands[queue.front])
  <2>1. bus' \in Buses
    BY <1>2, <1>4 DEF Buses
  <2>2. queue \in Queues(QUEUE_SIZE) /\ QUEUE_SIZE \in Nat \ {0}
    BY <1>4, NothingQueued, QueueAssumption DEF MoteInv, DriverInv
  <2>3. queue.front \in Used(queue)
    BY <1>4, <2>2, QueueFields DEF Used
  <2>4. written' \in Seq(Commands)
    BY <1>4, <2>3, AppendProperties DEF MoteInv, CommandInv
  <2> QED
    BY <1>3, <1>4, <2>1, <2>4 DEF MoteInv, DriverInv, CommandInv, BusInv
<1>5. CASE (bus' = Refused(b) \/ bus' = GivenBack(b)) /\ UNCHANGED written
  <2>1. PICK d : d = Defer(b)
    OBVIOUS
  <2>2. d \in Buses /\ d.writing = bus.writing
    BY <1>2, <2>1, DeferKeeps
  <2>3. bus' = Release(d, "ad524x") \/ bus' = Release(b, "ad524x")
    BY <1>5, <2>1 DEF Refused, GivenBack
  <2>4. bus' \in Buses /\ bus'.writing = bus.writing
    BY <1>2, <2>2, <2>3, ReleaseKeeps
  <2> QED
    BY <1>3, <1>5, <2>4, BusChanges
<1> QED
  BY <1>1, <1>4, <1>5 DEF Granted

LEMMA WriteDoneStep ==
    ASSUME MoteInv, WriteDone
    PROVE  MoteInv'
<1>1. /\ ~ cqueue_isEmpty(queue) /\ queue \in Queues(QUEUE_SIZE)
      /\ QUEUE_SIZE \in Nat \ {0}
  BY NothingQueued, QueueAssumption DEF WriteDone, MoteInv, DriverInv, BusInv
<1>2. writeDoneP' \in Commands
  <2>1. queue.front \in Used(queue)
    BY <1>1, QueueFields DEF Used
  <2> QED
    BY <2>1 DEF WriteDone, MoteInv, CommandInv
<1>3. /\ queue' \in Queues(QUEUE_SIZE) /\ Used(queue') \subseteq Used(queue)
  BY <1>1, PopFront DEF WriteDone
<1>4. bus' \in Buses /\ bus'.writing = FALSE
  <2>1. PICK b : b = [bus EXCEPT !.writing = FALSE]
    OBVIOUS
  <2>2. b \in Buses /\ b.writing = FALSE /\ "ad524x" \in Clients
    BY <2>1 DEF MoteInv, BusInv, Buses, Clients
  <2>3. bus' = Release(b, "ad524x")
    BY <2>1 DEF WriteDone
  <2> QED
    BY <2>2, <2>3, ReleaseKeeps
<1>5. /\ UNCHANGED <<driver, commands, written>>
      /\ tasks' \subseteq tasks \cup {"granted"}
  BY DEF WriteDone, GrantedTask
<1>6. driver # "OFF"
  BY <1>1, NothingQueued DEF MoteInv, DriverInv
<1> QED
  BY <1>2, <1>3, <1>4, <1>5, <1>6 DEF MoteInv, DriverInv, CommandInv, BusInv

LEMMA StartDoneStep ==
    ASSUME MoteInv, StartDoneTask
    PROVE  MoteInv'
<1>1. /\ driver # "OFF" /\ queue \in Queues(QUEUE_SIZE)
      /\ UNCHANGED <<driver, written, writeDoneP>>
      /\ tasks' \subseteq tasks \cup {"granted"}
      /\ StartCommand(queue, bus, "AD524X_START")
  BY DEF StartDoneTask, GrantedTask, MoteInv, DriverInv
<1>2. CASE cqueue_pushBack(queue).ok
  <2>1. /\ queue' = cqueue_pushBack(queue).queue
        /\ commands' = [commands EXCEPT ![queue'.back] = "AD524X_START"]
        /\ bus' = Defer(bus)
    BY <1>1, <1>2 DEF StartCommand
  <2>2. "AD524X_START" \in Commands
    BY DEF Commands
  <2>3. /\ queue' \in Queues(QUEUE_SIZE) /\ ~ cqueue_isEmpty(queue')
        /\ commands' \in [0 .. QUEUE_SIZE - 1 -> Commands \cup {None}]
        /\ \A i \in Used(queue') : commands'[i] \in Commands
    BY <1>1, <1>2, <2>1, <2>2, CommandEnters
  <2>4. bus' \in Buses
    BY <2>1, DeferKeeps DEF MoteInv, BusInv
  <2> QED
    BY <1>1, <2>3, <2>4 DEF MoteInv, DriverInv, CommandInv, BusInv
<1>3. CASE ~ cqueue_pushBack(queue).ok
  <2>1. queue' = queue /\ bus' = bus /\ UNCHANGED commands
    BY <1>1, <1>3 DEF StartCommand
  <2> QED
    BY <1>1, <2>1, BusChanges DEF MoteInv, BusInv
<1> QED
  BY <1>2, <1>3

LEMMA IoDoneKeeps ==
    ASSUME NEW b \in Buses, NEW q
    PROVE  IoDoneEnd(q, b) \in Buses /\ IoDoneEnd(q, b).writing = b.writing
BY DeferKeeps DEF IoDoneEnd

LEMMA WriteDoneTaskStep ==
    ASSUME MoteInv, WriteDoneTask
    PROVE  MoteInv'
<1>1. /\ UNCHANGED written /\ writeDoneP' = None
      /\ tasks' \subseteq tasks \cup {"granted"}
      /\ bus \in Buses
  BY DEF WriteDoneTask, GrantedTask, MoteInv, BusInv
<1>2. CASE driver = "START" /\ ReportStart /\ cqueue_pushBack(queue).ok
  <2>1. PICK b : b = Defer(bus)
    OBVIOUS
  <2>2. /\ driver' = "IDLE" /\ queue' = cqueue_pushBack(queue).queue
        /\ commands' = [commands EXCEPT ![queue'.back] = "AD524X_OUTPUT"]
        /\ bus' = IoDoneEnd(queue', b)
    BY <1>2, <2>1 DEF ReportStart
  <2>3. "AD524X_OUTPUT" \in Commands
    BY DEF Commands
  <2>4. /\ queue' \in Queues(QUEUE_SIZE) /\ ~ cqueue_isEmpty(queue')
        /\ commands' \in [0 .. QUEUE_SIZE - 1 -> Commands \cup {None}]
        /\ \A i \in Used(queue') : commands'[i] \in Commands
    BY <1>2, <2>2, <2>3, CommandEnters
  <2>5. bus' \in Buses
    BY <1>1, <2>1, <2>2, DeferKeeps, IoDoneKeeps
  <2> QED
    BY <1>1, <1>2, <2>2, <2>4, <2>5 DEF MoteInv, DriverInv, CommandInv, BusInv
<1>3. CASE /\ UNCHANGED <<queue, commands>> /\ bus' = IoDoneEnd(queue, bus)
           /\ \/ driver' = driver
              \/ driver # "OFF" /\ driver' \in {"START_O", "IDLE"}
  <2>1. bus' \in Buses /\ bus'.writing = bus.writing
    BY <1>1, <1>3, IoDoneKeeps
  <2> QED
    BY <1>1, <1>3, <2>1 DEF MoteInv, DriverInv, CommandInv, BusInv
<1>4. ASSUME driver = "START", ReportStart, ~ cqueue_pushBack(queue).ok
      PROVE  /\ UNCHANGED <<queue, commands>> /\ bus' = IoDoneEnd(queue, bus)
             /\ driver' = "START_O"
  <2>1. queue \in Queues(QUEUE_SIZE) /\ QUEUE_SIZE \in Nat \ {0}
    BY <1>4, QueueAssumption DEF MoteInv, DriverInv
  <2>2. cqueue_pushBack(queue).queue = queue
    BY <1>4, <2>1, PushBack
  <2> QED
    BY <1>4, <2>2 DEF ReportStart
<1>5. CASE ReportStart
  <2>1. CASE driver = "START"
    BY <1>2, <1>3, <1>4, <1>5, <2>1
  <2>2. CASE driver # "START"
    BY <1>3, <1>5, <2>2 DEF ReportStart
  <2> QED
    BY <2>1, <2>2
<1>6. CASE ReportOutput
  BY <1>3, <1>6 DEF ReportOutput
<1> QED
  BY <1>5, <1>6 DEF WriteDoneTask

LEMMA AMStartDoneStep ==
    ASSUME MoteInv, AMStartDone
    PROVE  MoteInv'
<1>1. UNCHANGED <<commands, written, writeDoneP, bus>> /\ PhotoControlStart
  BY DEF AMStartDone
<1>2. CASE driver = "OFF"
  <2>1. /\ driver' = "START" /\ queue' = cqueue_init(QUEUE_SIZE)
        /\ tasks' = tasks \cup {"startDone"}
    BY <1>1, <1>2 DEF PhotoControlStart
  <2>2. bus.writing = FALSE
    BY <1>2, NothingQueued DEF MoteInv, DriverInv, BusInv, Buses
  <2> QED
    BY <1>1, <2>1, <2>2, NothingQueued DEF MoteInv, DriverInv, CommandInv, BusInv
<1>3. CASE driver # "OFF"
  BY <1>1, <1>3 DEF PhotoControlStart, MoteInv, DriverInv, CommandInv, BusInv
<1> QED
  BY <1>2, <1>3

LEMMA MoteStep ==
    ASSUME MoteInv, [Next]_vars
    PROVE  MoteInv'
<1>1. CASE Board
  BY <1>1, StartDoneStep, GrantedStep, WriteDoneStep, WriteDoneTaskStep, RadioBusStep
  DEF Board
<1>2. CASE AMStartDone
  BY <1>2, AMStartDoneStep
<1>3. CASE \/ Booted \/ AMStartFailed \/ TimerFired \/ ReadDone(light) \/ SendDone
           \/ LightChanges \/ UNCHANGED vars
  <2>1. UNCHANGED board
    BY <1>3 DEF Booted, AMStartFailed, TimerFired, ReadDone, SendDone, LightChanges, vars
  <2> QED
    BY <2>1 DEF board, MoteInv, DriverInv, CommandInv, BusInv
<1> QED
  BY <1>1, <1>2, <1>3 DEF Next

LEMMA MoteInvariant == Spec => [](AppInv /\ MoteInv)
<1>1. AppInv /\ MoteInv /\ [Next]_vars => AppInv' /\ MoteInv'
  BY AppStep, MoteStep
<1> QED
  BY <1>1, InitMote, PTL DEF Spec

(***************************************************************************)
(* Type correctness, for all levels of light, all sizes of AD524XM's queue *)
(* and all failures: what is written to the bus is a command, although its *)
(* slot is read after tasks of others, and what is sent is a level.        *)
(***************************************************************************)
THEOREM TypeCorrect == Spec => []TypeOK
<1>1. AppInv /\ MoteInv => TypeOK
  BY DEF AppInv, AppType, PktInv, MoteInv, DriverInv, CommandInv, BusInv, Buses, TypeOK
<1> QED
  BY <1>1, MoteInvariant, PTL

-----------------------------------------------------------------------------
(***************************************************************************)
(* The index arithmetic of circularQueue.h.                                *)
(***************************************************************************)

\* The i-th slot of a queue that starts at f.
SlotAt(f, i, size) == IF f - (i - 1) >= 0 THEN f - (i - 1) ELSE f - (i - 1) + size

LEMMA WrapsDown ==
    ASSUME NEW size \in Nat \ {0}, NEW f \in 0 .. size - 1, NEW i \in 1 .. size
    PROVE  /\ (f - (i - 1)) % size = SlotAt(f, i, size)
           /\ SlotAt(f, i, size) \in 0 .. size - 1
<1>1. PICK k \in Int : k = f - (i - 1) /\ k > - size /\ k < size
  OBVIOUS
<1>2. CASE k >= 0
  <2>1. k % size = k
    BY <1>1, <1>2
  <2> QED
    BY <1>1, <1>2, <2>1 DEF SlotAt
<1>3. CASE k < 0
  <2>1. PICK d \in Int, r \in 0 .. size - 1 : d = k \div size /\ r = k % size /\ k = size * d + r
    OBVIOUS
  <2>2. d = -1
    <3>1. CASE d >= 0
      <4>1. size * d >= 0
        BY <3>1
      <4> QED
        BY <1>3, <2>1, <4>1
    <3>2. CASE d <= -2
      <4>1. size * d <= -2 * size
        BY <3>2
      <4> QED
        BY <1>1, <2>1, <4>1
    <3> QED
      BY <3>1, <3>2
  <2>3. k % size = k + size
    BY <2>1, <2>2
  <2> QED
    BY <1>1, <1>3, <2>3 DEF SlotAt
<1> QED
  BY <1>1, <1>2, <1>3

LEMMA Elements ==
    ASSUME NEW size \in Nat \ {0}, NEW cq \in Queues(size)
    PROVE  /\ cqueue_numElements(cq) \in 0 .. size
           /\ cqueue_isEmpty(cq) <=> cqueue_numElements(cq) = 0
           /\ ~ cqueue_isEmpty(cq) =>
                  cqueue_numElements(cq) = IF cq.front >= cq.back THEN cq.front - cq.back + 1
                                           ELSE size + cq.front - cq.back + 1
<1>1. CASE cqueue_isEmpty(cq)
  BY <1>1 DEF cqueue_numElements
<1>2. CASE ~ cqueue_isEmpty(cq)
  <2>1. PICK f, b \in 0 .. size - 1 : f = cq.front /\ b = cq.back
    BY <1>2, QueueFields
  <2>2. cqueue_numElements(cq) = IF f >= b THEN f - b + 1 ELSE size + f - b + 1
    BY <1>2, <2>1, QueueFields DEF cqueue_numElements
  <2> QED
    BY <1>2, <2>1, <2>2
<1> QED
  BY <1>1, <1>2

LEMMA SlotsAre ==
    ASSUME NEW size \in Nat \ {0}, NEW cq \in Queues(size)
    PROVE  /\ Slots(cq) \in Seq(0 .. size - 1)
           /\ Len(Slots(cq)) = cqueue_numElements(cq)
           /\ \A i \in 1 .. cqueue_numElements(cq) :
                  Slots(cq)[i] = SlotAt(cq.front, i, size)
           /\ IsInjective(Slots(cq))
<1>1. PICK n \in 0 .. size : n = cqueue_numElements(cq)
  BY Elements
<1>2. PICK s : s = Slots(cq)
  OBVIOUS
<1>3. s = [i \in 1 .. n |-> (cq.front - (i - 1)) % size]
  BY <1>1, <1>2, QueueFields DEF Slots
<1>4. ASSUME NEW i \in 1 .. n
      PROVE  s[i] = SlotAt(cq.front, i, size) /\ s[i] \in 0 .. size - 1
  <2>1. cq.front \in 0 .. size - 1 /\ i \in 1 .. size
    BY <1>1, QueueFields, Elements
  <2> QED
    BY <1>3, <2>1, WrapsDown
<1>5. s \in Seq(0 .. size - 1) /\ Len(s) = n
  <2>1. s \in [1 .. n -> 0 .. size - 1]
    BY <1>3, <1>4
  <2> QED
    BY <2>1
<1>6. ASSUME NEW i \in 1 .. n, NEW j \in 1 .. n, s[i] = s[j]
      PROVE  i = j
  <2>1. PICK f \in 0 .. size - 1 : f = cq.front
    BY <1>1, QueueFields, Elements
  <2>2. SlotAt(f, i, size) = SlotAt(f, j, size)
    BY <1>4, <1>6, <2>1
  <2> QED
    BY <2>1, <2>2 DEF SlotAt
<1>7. IsInjective(s)
  BY <1>3, <1>6 DEF IsInjective
<1> QED
  BY <1>1, <1>2, <1>4, <1>5, <1>7

\* A queue one slot up, or down.
LEMMA SlotUp ==
    ASSUME NEW size \in Nat \ {0}, NEW f \in 0 .. size - 1, NEW i \in 1 .. size
    PROVE  SlotAt(IF f + 1 = size THEN 0 ELSE f + 1, i + 1, size) = SlotAt(f, i, size)
BY DEF SlotAt

LEMMA TailIs ==
    ASSUME NEW S, NEW s \in Seq(S), NEW t \in Seq(S), Len(t) = Len(s) + 1,
           \A i \in 1 .. Len(s) : t[i + 1] = s[i]
    PROVE  Tail(t) = s
<1>1. Len(s) \in Nat /\ t # <<>>
  BY LenProperties, EmptySeq
<1>2. /\ Tail(t) \in Seq(S) /\ Len(Tail(t)) = Len(s)
      /\ \A i \in 1 .. Len(Tail(t)) : Tail(t)[i] = t[i + 1]
  BY <1>1, HeadTailProperties
<1> QED
  BY <1>2, SeqEqual

LEMMA FrontIs ==
    ASSUME NEW S, NEW s \in Seq(S), NEW t \in Seq(S), Len(t) = Len(s) + 1,
           \A i \in 1 .. Len(s) : t[i] = s[i]
    PROVE  Front(t) = s
<1>1. PICK n \in Nat : n = Len(s)
  BY LenProperties
<1>2. Front(t) = [i \in 1 .. n |-> t[i]]
  BY <1>1 DEF Front
<1>3. s = [i \in 1 .. n |-> s[i]]
  BY <1>1, LenProperties
<1> QED
  BY <1>1, <1>2, <1>3

Inc(f, size) == IF f + 1 = size THEN 0 ELSE f + 1

\* r is q with one more element at its front, or at its back; or with the slot
\* of its last element given to a new first one.
MoreFront(r, q, size) ==
    /\ cqueue_numElements(r) = cqueue_numElements(q) + 1
    /\ cqueue_numElements(q) # 0 => r.front = Inc(q.front, size)
MoreBack(r, q) ==
    /\ cqueue_numElements(r) = cqueue_numElements(q) + 1
    /\ cqueue_numElements(q) # 0 => r.front = q.front
Turned(r, q, size) ==
    /\ cqueue_numElements(r) = size /\ cqueue_numElements(q) = size
    /\ r.front = Inc(q.front, size)

LEMMA MoreFrontSlots ==
    ASSUME NEW size \in Nat \ {0}, NEW q \in Queues(size), NEW r \in Queues(size),
           MoreFront(r, q, size)
    PROVE  Len(Slots(r)) = Len(Slots(q)) + 1 /\ Tail(Slots(r)) = Slots(q)
<1>1. PICK n, m \in 0 .. size : /\ n = cqueue_numElements(q) /\ m = cqueue_numElements(r)
                                /\ m = n + 1
  BY Elements DEF MoreFront
<1>2. PICK s, t \in Seq(0 .. size - 1) : s = Slots(q) /\ t = Slots(r)
  BY SlotsAre
<1>3. /\ Len(s) = n /\ Len(t) = n + 1
      /\ \A i \in 1 .. n : s[i] = SlotAt(q.front, i, size)
      /\ \A i \in 1 .. n + 1 : t[i] = SlotAt(r.front, i, size)
  BY <1>1, <1>2, SlotsAre
<1>4. ASSUME NEW i \in 1 .. n
      PROVE  t[i + 1] = s[i]
  <2>1. PICK f \in 0 .. size - 1 : f = q.front /\ r.front = Inc(f, size)
    BY <1>1, QueueFields, Elements DEF MoreFront
  <2>2. i \in 1 .. size /\ i + 1 \in 1 .. n + 1
    BY <1>1
  <2>3. SlotAt(Inc(f, size), i + 1, size) = SlotAt(f, i, size)
    BY <2>2, SlotUp DEF Inc
  <2> QED
    BY <1>3, <2>1, <2>2, <2>3
<1>5. Tail(t) = s
  BY <1>2, <1>3, <1>4, TailIs
<1> QED
  BY <1>2, <1>3, <1>5

LEMMA MoreBackSlots ==
    ASSUME NEW size \in Nat \ {0}, NEW q \in Queues(size), NEW r \in Queues(size),
           MoreBack(r, q)
    PROVE  Len(Slots(r)) = Len(Slots(q)) + 1 /\ Front(Slots(r)) = Slots(q)
<1>1. PICK n, m \in 0 .. size : /\ n = cqueue_numElements(q) /\ m = cqueue_numElements(r)
                                /\ m = n + 1
  BY Elements DEF MoreBack
<1>2. PICK s, t \in Seq(0 .. size - 1) : s = Slots(q) /\ t = Slots(r)
  BY SlotsAre
<1>3. /\ Len(s) = n /\ Len(t) = n + 1
      /\ \A i \in 1 .. n : s[i] = SlotAt(q.front, i, size)
      /\ \A i \in 1 .. n + 1 : t[i] = SlotAt(r.front, i, size)
  BY <1>1, <1>2, SlotsAre
<1>4. ASSUME NEW i \in 1 .. n
      PROVE  t[i] = s[i]
  <2>1. r.front = q.front /\ i \in 1 .. n + 1
    BY <1>1 DEF MoreBack
  <2> QED
    BY <1>3, <2>1
<1>5. Front(t) = s
  BY <1>2, <1>3, <1>4, FrontIs
<1> QED
  BY <1>2, <1>3, <1>5

LEMMA TurnedSlots ==
    ASSUME NEW size \in Nat \ {0}, NEW q \in Queues(size), NEW r \in Queues(size),
           Turned(r, q, size)
    PROVE  Len(Slots(r)) = size /\ Len(Slots(q)) = size /\ Tail(Slots(r)) = Front(Slots(q))
<1>1. PICK s, t \in Seq(0 .. size - 1) : s = Slots(q) /\ t = Slots(r)
  BY SlotsAre
<1>2. /\ Len(s) = size /\ Len(t) = size
      /\ \A i \in 1 .. size : s[i] = SlotAt(q.front, i, size)
      /\ \A i \in 1 .. size : t[i] = SlotAt(r.front, i, size)
  BY <1>1, SlotsAre DEF Turned
<1>3. ASSUME NEW i \in 1 .. size - 1
      PROVE  t[i + 1] = s[i]
  <2>1. PICK f \in 0 .. size - 1 : f = q.front /\ r.front = Inc(f, size)
    BY QueueFields, Elements DEF Turned
  <2>2. i \in 1 .. size /\ i + 1 \in 1 .. size
    OBVIOUS
  <2>3. SlotAt(Inc(f, size), i + 1, size) = SlotAt(f, i, size)
    BY <2>2, SlotUp DEF Inc
  <2> QED
    BY <1>2, <2>1, <2>2, <2>3
<1>4. PICK u : u = [i \in 1 .. size - 1 |-> s[i]]
  OBVIOUS
<1>5. u = Front(s)
  BY <1>2, <1>4 DEF Front
<1>6. u \in Seq(0 .. size - 1) /\ Len(u) = size - 1
  <2>1. \A i \in 1 .. size - 1 : s[i] \in 0 .. size - 1
    BY <1>2, ElementOfSeq
  <2>2. u \in [1 .. size - 1 -> 0 .. size - 1]
    BY <1>4, <2>1
  <2>3. size - 1 \in Nat
    OBVIOUS
  <2> QED
    BY <2>2, <2>3
<1>7. Tail(t) = u
  <2>1. \A i \in 1 .. Len(u) : t[i + 1] = u[i]
    BY <1>3, <1>4, <1>6
  <2>2. Len(t) = Len(u) + 1
    BY <1>2, <1>6
  <2> QED
    BY <1>1, <1>6, <2>1, <2>2, TailIs
<1> QED
  BY <1>1, <1>2, <1>5, <1>7

\* What front and back come to, in a queue with elements and in one with one.
LEMMA Indices ==
    ASSUME NEW size \in Nat \ {0}, NEW cq \in Queues(size), ~ cqueue_isEmpty(cq)
    PROVE  /\ cq.size = size /\ cq.front \in 0 .. size - 1 /\ cq.back \in 0 .. size - 1
           /\ cqueue_privInc(cq, cq.front) = Inc(cq.front, size)
           /\ cqueue_privInc(cq, cq.back) = Inc(cq.back, size)
           /\ cqueue_privDec(cq, cq.front) = IF cq.front # 0 THEN cq.front - 1 ELSE size - 1
           /\ cqueue_privDec(cq, cq.back) = IF cq.back # 0 THEN cq.back - 1 ELSE size - 1
           /\ cqueue_numElements(cq) = IF cq.front >= cq.back THEN cq.front - cq.back + 1
                                       ELSE size + cq.front - cq.back + 1
           /\ cq \in [front : 0 .. size - 1, back : 0 .. size - 1, size : {size}]
BY QueueFields, Elements
   DEF cqueue_privInc, cqueue_privDec, Inc, Queues, cqueue_isEmpty

LEMMA AQueue ==
    ASSUME NEW size \in Nat \ {0}, NEW f \in 0 .. size - 1, NEW b \in 0 .. size - 1, NEW r,
           r = [front |-> f, back |-> b, size |-> size]
    PROVE  /\ r \in Queues(size)
           /\ cqueue_numElements(r) = IF f >= b THEN f - b + 1 ELSE size + f - b + 1
<1>1. r \in Queues(size) /\ ~ cqueue_isEmpty(r)
  BY DEF Queues, cqueue_isEmpty
<1> QED
  BY <1>1, Elements

LEMMA OnlyElementIs ==
    ASSUME NEW size \in Nat \ {0}, NEW cq \in Queues(size), cqueue_isEmpty(cq)
    PROVE  /\ OnlyElement(cq) \in Queues(size) /\ cqueue_numElements(OnlyElement(cq)) = 1
           /\ cqueue_numElements(cq) = 0
<1>1. cq = [front |-> size, back |-> size, size |-> size]
  BY QueueFields DEF Queues, cqueue_isEmpty
<1>2. PICK r : r = OnlyElement(cq)
  OBVIOUS
<1>3. r = [front |-> 0, back |-> 0, size |-> size]
  BY <1>1, <1>2 DEF OnlyElement
<1>4. 0 \in 0 .. size - 1
  OBVIOUS
<1> QED
  BY <1>2, <1>3, <1>4, AQueue, Elements

LEMMA NoElementIs ==
    ASSUME NEW size \in Nat \ {0}, NEW cq \in Queues(size)
    PROVE  NoElement(cq) \in Queues(size) /\ cqueue_numElements(NoElement(cq)) = 0
<1>1. PICK r : r = NoElement(cq)
  OBVIOUS
<1>2. PICK f, b : cq = [front |-> f, back |-> b, size |-> size]
  BY QueueFields DEF Queues
<1>3. r = [front |-> size, back |-> size, size |-> size]
  BY <1>1, <1>2 DEF NoElement
<1>4. r \in Queues(size) /\ cqueue_isEmpty(r)
  BY <1>3 DEF Queues, cqueue_isEmpty
<1> QED
  BY <1>1, <1>4, Elements

LEMMA PushFrontIs ==
    ASSUME NEW size \in Nat \ {0}, NEW cq \in Queues(size)
    PROVE  IF cqueue_numElements(cq) = size
           THEN cqueue_pushFront(cq) = [queue |-> cq, ok |-> FALSE]
           ELSE \E r \in Queues(size) : /\ cqueue_pushFront(cq) = [queue |-> r, ok |-> TRUE]
                                        /\ MoreFront(r, cq, size)
<1>1. CASE cqueue_isEmpty(cq)
  <2>1. PICK r : r = OnlyElement(cq)
    OBVIOUS
  <2>2. r \in Queues(size) /\ cqueue_numElements(r) = 1 /\ cqueue_numElements(cq) = 0
    BY <1>1, <2>1, OnlyElementIs
  <2>3. cqueue_pushFront(cq) = [queue |-> r, ok |-> TRUE]
    BY <1>1, <2>1 DEF cqueue_pushFront, Returns
  <2>4. MoreFront(r, cq, size) /\ cqueue_numElements(cq) # size
    BY <2>2 DEF MoreFront
  <2> QED
    BY <2>2, <2>3, <2>4
<1>2. CASE ~ cqueue_isEmpty(cq)
  <2>1. PICK f, b \in 0 .. size - 1 : f = cq.front /\ b = cq.back
    BY <1>2, Indices
  <2>2. PICK g \in 0 .. size - 1 : g = Inc(f, size)
    BY DEF Inc
  <2>3. cqueue_privInc(cq, cq.front) = g
    BY <1>2, <2>1, <2>2, Indices
  <2>4. cqueue_numElements(cq) = IF f >= b THEN f - b + 1 ELSE size + f - b + 1
    BY <1>2, <2>1, Indices
  <2>5. cqueue_numElements(cq) = size <=> g = b
    BY <2>2, <2>4 DEF Inc
  <2>6. CASE g = b
    BY <1>2, <2>1, <2>3, <2>5, <2>6 DEF cqueue_pushFront, Returns
  <2>7. CASE g # b
    <3>1. PICK r : r = [front |-> g, back |-> b, size |-> size]
      OBVIOUS
    <3>2. [cq EXCEPT !.front = g] = r
      BY <1>2, <2>1, <3>1, Indices
    <3>3. cqueue_pushFront(cq) = [queue |-> r, ok |-> TRUE]
      BY <1>2, <2>1, <2>3, <2>7, <3>2 DEF cqueue_pushFront, Returns
    <3>4. r \in Queues(size) /\ cqueue_numElements(r) = cqueue_numElements(cq) + 1
      BY <2>2, <2>4, <2>7, <3>1, AQueue DEF Inc
    <3>5. r.front = Inc(cq.front, size)
      BY <2>1, <2>2, <3>1
    <3> QED
      BY <2>5, <2>7, <3>3, <3>4, <3>5 DEF MoreFront
  <2> QED
    BY <2>6, <2>7
<1> QED
  BY <1>1, <1>2

LEMMA PushBackIs ==
    ASSUME NEW size \in Nat \ {0}, NEW cq \in Queues(size)
    PROVE  IF cqueue_numElements(cq) = size
           THEN cqueue_pushBack(cq) = [queue |-> cq, ok |-> FALSE]
           ELSE \E r \in Queues(size) : /\ cqueue_pushBack(cq) = [queue |-> r, ok |-> TRUE]
                                        /\ MoreBack(r, cq)
<1>1. CASE cqueue_isEmpty(cq)
  <2>1. PICK r : r = OnlyElement(cq)
    OBVIOUS
  <2>2. r \in Queues(size) /\ cqueue_numElements(r) = 1 /\ cqueue_numElements(cq) = 0
    BY <1>1, <2>1, OnlyElementIs
  <2>3. cqueue_pushBack(cq) = [queue |-> r, ok |-> TRUE]
    BY <1>1, <2>1 DEF cqueue_pushBack, Returns
  <2>4. MoreBack(r, cq) /\ cqueue_numElements(cq) # size
    BY <2>2 DEF MoreBack
  <2> QED
    BY <2>2, <2>3, <2>4
<1>2. CASE ~ cqueue_isEmpty(cq)
  <2>1. PICK f, b \in 0 .. size - 1 : f = cq.front /\ b = cq.back
    BY <1>2, Indices
  <2>2. PICK g \in 0 .. size - 1 : g = IF b # 0 THEN b - 1 ELSE size - 1
    OBVIOUS
  <2>3. cqueue_privDec(cq, cq.back) = g
    BY <1>2, <2>1, <2>2, Indices
  <2>4. cqueue_numElements(cq) = IF f >= b THEN f - b + 1 ELSE size + f - b + 1
    BY <1>2, <2>1, Indices
  <2>5. cqueue_numElements(cq) = size <=> g = f
    BY <2>2, <2>4
  <2>6. CASE g = f
    BY <1>2, <2>1, <2>3, <2>5, <2>6 DEF cqueue_pushBack, Returns
  <2>7. CASE g # f
    <3>1. PICK r : r = [front |-> f, back |-> g, size |-> size]
      OBVIOUS
    <3>2. [cq EXCEPT !.back = g] = r
      BY <1>2, <2>1, <3>1, Indices
    <3>3. cqueue_pushBack(cq) = [queue |-> r, ok |-> TRUE]
      BY <1>2, <2>1, <2>3, <2>7, <3>2 DEF cqueue_pushBack, Returns
    <3>4. r \in Queues(size) /\ cqueue_numElements(r) = cqueue_numElements(cq) + 1
      BY <2>2, <2>4, <2>7, <3>1, AQueue
    <3>5. r.front = cq.front
      BY <2>1, <3>1
    <3> QED
      BY <2>5, <2>7, <3>3, <3>4, <3>5 DEF MoreBack
  <2> QED
    BY <2>6, <2>7
<1> QED
  BY <1>1, <1>2

LEMMA PopFrontIs ==
    ASSUME NEW size \in Nat \ {0}, NEW cq \in Queues(size)
    PROVE  IF cqueue_numElements(cq) = 0
           THEN cqueue_popFront(cq) = [queue |-> cq, ok |-> FALSE]
           ELSE \E r \in Queues(size) :
                    /\ cqueue_popFront(cq) = [queue |-> r, ok |-> cqueue_numElements(cq) > 1]
                    /\ MoreFront(cq, r, size)
<1>1. CASE cqueue_isEmpty(cq)
  BY <1>1, Elements DEF cqueue_popFront, Returns
<1>2. CASE ~ cqueue_isEmpty(cq)
  <2>1. PICK f, b \in 0 .. size - 1 : f = cq.front /\ b = cq.back
    BY <1>2, Indices
  <2>2. cqueue_numElements(cq) = IF f >= b THEN f - b + 1 ELSE size + f - b + 1
    BY <1>2, <2>1, Indices
  <2>3. CASE f = b
    <3>1. PICK r : r = NoElement(cq)
      OBVIOUS
    <3>2. r \in Queues(size) /\ cqueue_numElements(r) = 0 /\ cqueue_numElements(cq) = 1
      BY <2>2, <2>3, <3>1, NoElementIs
    <3>3. cqueue_popFront(cq) = [queue |-> r, ok |-> cqueue_numElements(cq) > 1]
      <4>1. cqueue_popFront(cq) = [queue |-> r, ok |-> FALSE]
        BY <1>2, <2>1, <2>3, <3>1 DEF cqueue_popFront, Returns
      <4>2. (cqueue_numElements(cq) > 1) = FALSE
        BY <3>2
      <4> QED
        BY <4>1, <4>2
    <3>4. MoreFront(cq, r, size) /\ cqueue_numElements(cq) # 0
      BY <3>2 DEF MoreFront
    <3> QED
      BY <3>2, <3>3, <3>4
  <2>4. CASE f # b
    <3>1. PICK g \in 0 .. size - 1 : g = IF f # 0 THEN f - 1 ELSE size - 1
      OBVIOUS
    <3>2. cqueue_privDec(cq, cq.front) = g
      BY <1>2, <2>1, <3>1, Indices DEF Inc
    <3>3. PICK r : r = [front |-> g, back |-> b, size |-> size]
      OBVIOUS
    <3>4. [cq EXCEPT !.front = g] = r
      BY <1>2, <2>1, <3>3, Indices
    <3>5. cqueue_numElements(cq) > 1
      BY <2>2, <2>4
    <3>6. cqueue_popFront(cq) = [queue |-> r, ok |-> cqueue_numElements(cq) > 1]
      <4>1. cqueue_popFront(cq) = [queue |-> r, ok |-> TRUE]
        BY <1>2, <2>1, <2>4, <3>2, <3>4 DEF cqueue_popFront, Returns
      <4>2. (cqueue_numElements(cq) > 1) = TRUE
        BY <3>5
      <4> QED
        BY <4>1, <4>2
    <3>7. r \in Queues(size) /\ cqueue_numElements(cq) = cqueue_numElements(r) + 1
      BY <2>2, <2>4, <3>1, <3>3, AQueue
    <3>8. cq.front = Inc(r.front, size)
      BY <2>1, <3>1, <3>3 DEF Inc
    <3>9. MoreFront(cq, r, size) /\ cqueue_numElements(cq) # 0
      BY <3>5, <3>7, <3>8 DEF MoreFront
    <3> QED
      BY <3>6, <3>7, <3>9
  <2> QED
    BY <2>3, <2>4
<1> QED
  BY <1>1, <1>2

LEMMA PopBackIs ==
    ASSUME NEW size \in Nat \ {0}, NEW cq \in Queues(size)
    PROVE  IF cqueue_numElements(cq) = 0
           THEN cqueue_popBack(cq) = [queue |-> cq, ok |-> FALSE]
           ELSE \E r \in Queues(size) :
                    /\ cqueue_popBack(cq) = [queue |-> r, ok |-> cqueue_numElements(cq) > 1]
                    /\ MoreBack(cq, r)
<1>1. CASE cqueue_isEmpty(cq)
  BY <1>1, Elements DEF cqueue_popBack, Returns
<1>2. CASE ~ cqueue_isEmpty(cq)
  <2>1. PICK f, b \in 0 .. size - 1 : f = cq.front /\ b = cq.back
    BY <1>2, Indices
  <2>2. cqueue_numElements(cq) = IF f >= b THEN f - b + 1 ELSE size + f - b + 1
    BY <1>2, <2>1, Indices
  <2>3. CASE f = b
    <3>1. PICK r : r = NoElement(cq)
      OBVIOUS
    <3>2. r \in Queues(size) /\ cqueue_numElements(r) = 0 /\ cqueue_numElements(cq) = 1
      BY <2>2, <2>3, <3>1, NoElementIs
    <3>3. cqueue_popBack(cq) = [queue |-> r, ok |-> cqueue_numElements(cq) > 1]
      <4>1. cqueue_popBack(cq) = [queue |-> r, ok |-> FALSE]
        BY <1>2, <2>1, <2>3, <3>1 DEF cqueue_popBack, Returns
      <4>2. (cqueue_numElements(cq) > 1) = FALSE
        BY <3>2
      <4> QED
        BY <4>1, <4>2
    <3>4. MoreBack(cq, r) /\ cqueue_numElements(cq) # 0
      BY <3>2 DEF MoreBack
    <3> QED
      BY <3>2, <3>3, <3>4
  <2>4. CASE f # b
    <3>1. PICK g \in 0 .. size - 1 : g = IF b + 1 = size THEN 0 ELSE b + 1
      OBVIOUS
    <3>2. cqueue_privInc(cq, cq.back) = g
      BY <1>2, <2>1, <3>1, Indices DEF Inc
    <3>3. PICK r : r = [front |-> f, back |-> g, size |-> size]
      OBVIOUS
    <3>4. [cq EXCEPT !.back = g] = r
      BY <1>2, <2>1, <3>3, Indices
    <3>5. cqueue_numElements(cq) > 1
      BY <2>2, <2>4
    <3>6. cqueue_popBack(cq) = [queue |-> r, ok |-> cqueue_numElements(cq) > 1]
      <4>1. cqueue_popBack(cq) = [queue |-> r, ok |-> TRUE]
        BY <1>2, <2>1, <2>4, <3>2, <3>4 DEF cqueue_popBack, Returns
      <4>2. (cqueue_numElements(cq) > 1) = TRUE
        BY <3>5
      <4> QED
        BY <4>1, <4>2
    <3>7. r \in Queues(size) /\ cqueue_numElements(cq) = cqueue_numElements(r) + 1
      BY <2>2, <2>4, <3>1, <3>3, AQueue
    <3>8. cq.front = r.front
      BY <2>1, <3>1, <3>3
    <3>9. MoreBack(cq, r) /\ cqueue_numElements(cq) # 0
      BY <3>5, <3>7, <3>8 DEF MoreBack
    <3> QED
      BY <3>6, <3>7, <3>9
  <2> QED
    BY <2>3, <2>4
<1> QED
  BY <1>1, <1>2

LEMMA ForceFrontIs ==
    ASSUME NEW size \in Nat \ {0}, NEW cq \in Queues(size)
    PROVE  IF cqueue_numElements(cq) = size
           THEN \E r \in Queues(size) : /\ cqueue_forciblyPushFront(cq).queue = r
                                        /\ Turned(r, cq, size)
           ELSE cqueue_forciblyPushFront(cq) = cqueue_pushFront(cq)
<1>1. CASE cqueue_isEmpty(cq)
  BY <1>1, Elements DEF cqueue_forciblyPushFront, cqueue_pushFront
<1>2. CASE ~ cqueue_isEmpty(cq)
  <2>1. PICK f, b \in 0 .. size - 1 : f = cq.front /\ b = cq.back
    BY <1>2, Indices
  <2>2. PICK g \in 0 .. size - 1 : g = IF f + 1 = size THEN 0 ELSE f + 1
    OBVIOUS
  <2>3. cqueue_privInc(cq, cq.front) = g
    BY <1>2, <2>1, <2>2, Indices DEF Inc
  <2>4. cqueue_numElements(cq) = IF f >= b THEN f - b + 1 ELSE size + f - b + 1
    BY <1>2, <2>1, Indices
  <2>5. cqueue_numElements(cq) = size <=> g = b
    BY <2>2, <2>4
  <2>6. CASE g = b
    <3>1. PICK h \in 0 .. size - 1 : h = IF b + 1 = size THEN 0 ELSE b + 1
      OBVIOUS
    <3>2. cqueue_privInc(cq, cq.back) = h
      BY <1>2, <2>1, <3>1, Indices DEF Inc
    <3>3. PICK r : r = [front |-> g, back |-> h, size |-> size]
      OBVIOUS
    <3>4. cqueue_forciblyPushFront(cq).queue = r
      <4>1. cqueue_forciblyPushFront(cq).queue = [cq EXCEPT !.front = g, !.back = h]
        BY <1>2, <2>1, <2>3, <2>6, <3>2, Indices DEF cqueue_forciblyPushFront, Returns
      <4> QED
        BY <1>2, <2>1, <3>3, <4>1, Indices
    <3>5. r \in Queues(size) /\ cqueue_numElements(r) = size
      BY <2>2, <2>6, <3>1, <3>3, AQueue
    <3>6. r.front = Inc(cq.front, size)
      BY <2>1, <2>2, <2>6, <3>1, <3>3 DEF Inc
    <3>7. Turned(r, cq, size) /\ cqueue_numElements(cq) = size
      BY <2>5, <2>6, <3>5, <3>6 DEF Turned
    <3> QED
      BY <3>4, <3>5, <3>7
  <2>7. CASE g # b
    <3>1. [cq EXCEPT !.front = g, !.back = b] = [cq EXCEPT !.front = g]
      BY <1>2, <2>1, Indices
    <3>2. cqueue_forciblyPushFront(cq) = [queue |-> [cq EXCEPT !.front = g, !.back = b],
                                        ok |-> TRUE]
      BY <1>2, <2>1, <2>3, <2>7, Indices DEF cqueue_forciblyPushFront, Returns
    <3>3. cqueue_pushFront(cq) = [queue |-> [cq EXCEPT !.front = g], ok |-> TRUE]
      BY <1>2, <2>1, <2>3, <2>7 DEF cqueue_pushFront, Returns
    <3> QED
      BY <2>5, <2>7, <3>1, <3>2, <3>3
  <2> QED
    BY <2>6, <2>7
<1> QED
  BY <1>1, <1>2

LEMMA ForceBackIs ==
    ASSUME NEW size \in Nat \ {0}, NEW cq \in Queues(size)
    PROVE  IF cqueue_numElements(cq) = size
           THEN \E r \in Queues(size) : /\ cqueue_forciblyPushBack(cq).queue = r
                                        /\ Turned(cq, r, size)
           ELSE cqueue_forciblyPushBack(cq) = cqueue_pushBack(cq)
<1>1. CASE cqueue_isEmpty(cq)
  BY <1>1, Elements DEF cqueue_forciblyPushBack, cqueue_pushBack
<1>2. CASE ~ cqueue_isEmpty(cq)
  <2>1. PICK f, b \in 0 .. size - 1 : f = cq.front /\ b = cq.back
    BY <1>2, Indices
  <2>2. PICK g \in 0 .. size - 1 : g = IF b # 0 THEN b - 1 ELSE size - 1
    OBVIOUS
  <2>3. cqueue_privDec(cq, cq.back) = g
    BY <1>2, <2>1, <2>2, Indices DEF Inc
  <2>4. cqueue_numElements(cq) = IF f >= b THEN f - b + 1 ELSE size + f - b + 1
    BY <1>2, <2>1, Indices
  <2>5. cqueue_numElements(cq) = size <=> g = f
    BY <2>2, <2>4
  <2>6. CASE g = f
    <3>1. PICK h \in 0 .. size - 1 : h = IF f # 0 THEN f - 1 ELSE size - 1
      OBVIOUS
    <3>2. cqueue_privDec(cq, cq.front) = h
      BY <1>2, <2>1, <3>1, Indices DEF Inc
    <3>3. PICK r : r = [front |-> h, back |-> g, size |-> size]
      OBVIOUS
    <3>4. cqueue_forciblyPushBack(cq).queue = r
      <4>1. cqueue_forciblyPushBack(cq).queue = [cq EXCEPT !.back = g, !.front = h]
        BY <1>2, <2>1, <2>3, <2>6, <3>2, Indices DEF cqueue_forciblyPushBack, Returns
      <4> QED
        BY <1>2, <2>1, <3>3, <4>1, Indices
    <3>5. r \in Queues(size) /\ cqueue_numElements(r) = size
      BY <2>2, <2>6, <3>1, <3>3, AQueue
    <3>6. cq.front = Inc(r.front, size)
      BY <2>1, <2>2, <2>6, <3>1, <3>3 DEF Inc
    <3>7. Turned(cq, r, size) /\ cqueue_numElements(cq) = size
      BY <2>5, <2>6, <3>5, <3>6 DEF Turned
    <3> QED
      BY <3>4, <3>5, <3>7
  <2>7. CASE g # f
    <3>1. [cq EXCEPT !.back = g, !.front = f] = [cq EXCEPT !.back = g]
      BY <1>2, <2>1, Indices
    <3>2. cqueue_forciblyPushBack(cq) = [queue |-> [cq EXCEPT !.back = g, !.front = f],
                                        ok |-> TRUE]
      BY <1>2, <2>1, <2>3, <2>7, Indices DEF cqueue_forciblyPushBack, Returns
    <3>3. cqueue_pushBack(cq) = [queue |-> [cq EXCEPT !.back = g], ok |-> TRUE]
      BY <1>2, <2>1, <2>3, <2>7 DEF cqueue_pushBack, Returns
    <3> QED
      BY <2>5, <2>7, <3>1, <3>2, <3>3
  <2> QED
    BY <2>6, <2>7
<1> QED
  BY <1>1, <1>2

LEMMA FullIs ==
    ASSUME NEW size \in Nat \ {0}, NEW cq \in Queues(size)
    PROVE  cqueue_isFull(cq) <=> cqueue_numElements(cq) = size
<1>1. CASE cqueue_isEmpty(cq)
  BY <1>1, Elements, QueueFields DEF cqueue_isFull, cqueue_privDec, cqueue_isEmpty, Queues
<1>2. CASE ~ cqueue_isEmpty(cq)
  <2>1. PICK f, b \in 0 .. size - 1 : f = cq.front /\ b = cq.back
    BY <1>2, Indices
  <2>2. cqueue_numElements(cq) = IF f >= b THEN f - b + 1 ELSE size + f - b + 1
    BY <1>2, <2>1, Indices
  <2>3. cqueue_isFull(cq) <=> (IF b # 0 THEN b - 1 ELSE size - 1) = f
    BY <2>1, QueueFields DEF cqueue_isFull, cqueue_privDec
  <2> QED
    BY <2>2, <2>3
<1> QED
  BY <1>1, <1>2

\* What the slots of the queues that the functions leave are.
LEMMA PushesSlots ==
    ASSUME NEW size \in Nat \ {0}, NEW cq \in Queues(size), NEW n, NEW s,
           n = cqueue_numElements(cq), s = Slots(cq)
    PROVE  IF n = size
           THEN /\ cqueue_pushFront(cq) = [queue |-> cq, ok |-> FALSE]
                /\ cqueue_pushBack(cq) = [queue |-> cq, ok |-> FALSE]
           ELSE \E q, r \in Queues(size) :
                    /\ cqueue_pushFront(cq) = [queue |-> q, ok |-> TRUE]
                    /\ cqueue_pushBack(cq) = [queue |-> r, ok |-> TRUE]
                    /\ Len(Slots(q)) = n + 1 /\ Tail(Slots(q)) = s
                    /\ Len(Slots(r)) = n + 1 /\ Front(Slots(r)) = s
<1>1. n \in 0 .. size /\ Len(s) = n
  BY Elements, SlotsAre
<1>2. CASE n = size
  BY <1>2, PushFrontIs, PushBackIs
<1>3. CASE n # size
  <2>1. PICK q \in Queues(size) : /\ cqueue_pushFront(cq) = [queue |-> q, ok |-> TRUE]
                                  /\ MoreFront(q, cq, size)
    BY <1>3, PushFrontIs
  <2>2. PICK r \in Queues(size) : /\ cqueue_pushBack(cq) = [queue |-> r, ok |-> TRUE]
                                  /\ MoreBack(r, cq)
    BY <1>3, PushBackIs
  <2>3. Len(Slots(q)) = n + 1 /\ Tail(Slots(q)) = s
    BY <1>1, <2>1, MoreFrontSlots
  <2>4. Len(Slots(r)) = n + 1 /\ Front(Slots(r)) = s
    BY <1>1, <2>2, MoreBackSlots
  <2> QED
    BY <1>3, <2>1, <2>2, <2>3, <2>4
<1> QED
  BY <1>2, <1>3

LEMMA ForcedSlots ==
    ASSUME NEW size \in Nat \ {0}, NEW cq \in Queues(size), NEW s, s = Slots(cq),
           Len(s) = size
    PROVE  /\ Len(Slots(cqueue_forciblyPushFront(cq).queue)) = size
           /\ Tail(Slots(cqueue_forciblyPushFront(cq).queue)) = Front(s)
           /\ Len(Slots(cqueue_forciblyPushBack(cq).queue)) = size
           /\ Front(Slots(cqueue_forciblyPushBack(cq).queue)) = Tail(s)
<1>1. cqueue_numElements(cq) = size
  BY SlotsAre
<1>2. PICK q \in Queues(size) : cqueue_forciblyPushFront(cq).queue = q /\ Turned(q, cq, size)
  BY <1>1, ForceFrontIs
<1>3. PICK r \in Queues(size) : cqueue_forciblyPushBack(cq).queue = r /\ Turned(cq, r, size)
  BY <1>1, ForceBackIs
<1>4. Len(Slots(q)) = size /\ Tail(Slots(q)) = Front(s)
  BY <1>2, TurnedSlots
<1>5. Len(Slots(r)) = size /\ Front(Slots(r)) = Tail(s)
  BY <1>3, TurnedSlots
<1> QED
  BY <1>2, <1>3, <1>4, <1>5

LEMMA PopsSlots ==
    ASSUME NEW size \in Nat \ {0}, NEW cq \in Queues(size), NEW n, NEW s,
           n = cqueue_numElements(cq), s = Slots(cq)
    PROVE  IF n = 0
           THEN /\ cqueue_popFront(cq) = [queue |-> cq, ok |-> FALSE]
                /\ cqueue_popBack(cq) = [queue |-> cq, ok |-> FALSE]
           ELSE \E q, r \in Queues(size) :
                    /\ cqueue_popFront(cq) = [queue |-> q, ok |-> n > 1]
                    /\ cqueue_popBack(cq) = [queue |-> r, ok |-> n > 1]
                    /\ Slots(q) = Tail(s) /\ Slots(r) = Front(s)
<1>1. CASE n = 0
  BY <1>1, PopFrontIs, PopBackIs
<1>2. CASE n # 0
  <2>1. PICK q \in Queues(size) : /\ cqueue_popFront(cq) = [queue |-> q, ok |-> n > 1]
                                  /\ MoreFront(cq, q, size)
    BY <1>2, PopFrontIs
  <2>2. PICK r \in Queues(size) : /\ cqueue_popBack(cq) = [queue |-> r, ok |-> n > 1]
                                  /\ MoreBack(cq, r)
    BY <1>2, PopBackIs
  <2>3. Slots(q) = Tail(s)
    BY <2>1, MoreFrontSlots
  <2>4. Slots(r) = Front(s)
    BY <2>2, MoreBackSlots
  <2> QED
    BY <1>2, <2>1, <2>2, <2>3, <2>4
<1> QED
  BY <1>1, <1>2

LEMMA PushesSafe ==
    ASSUME NEW size \in Nat \ {0}, NEW cq \in Queues(size)
    PROVE  PushesAreSafe(cq)
<1>1. PICK n, s : n = cqueue_numElements(cq) /\ s = Slots(cq)
  OBVIOUS
<1>2. n \in 0 .. size /\ s \in Seq(0 .. size - 1) /\ Len(s) = n /\ IsInjective(s)
  BY <1>1, Elements, SlotsAre
<1>3. cq.size = size /\ (cqueue_isFull(cq) <=> n = size)
  BY <1>1, FullIs, QueueFields
<1>4. s = <<>> <=> n = 0
  BY <1>2
<1>5. PICK front, back : front = cqueue_pushFront(cq) /\ back = cqueue_pushBack(cq)
  OBVIOUS
<1>6. PICK forcedFront, forcedBack :
          /\ forcedFront = Slots(cqueue_forciblyPushFront(cq).queue)
          /\ forcedBack = Slots(cqueue_forciblyPushBack(cq).queue)
  OBVIOUS
<1>7. CASE n = size
  <2>1. front = [queue |-> cq, ok |-> FALSE] /\ back = [queue |-> cq, ok |-> FALSE]
    BY <1>1, <1>5, <1>7, PushesSlots
  <2>2. front.queue = cq /\ back.queue = cq /\ front.ok = FALSE /\ back.ok = FALSE
    BY <2>1
  <2>3. /\ Len(forcedFront) = size /\ Tail(forcedFront) = Front(s)
        /\ Len(forcedBack) = size /\ Front(forcedBack) = Tail(s)
    BY <1>1, <1>2, <1>6, <1>7, ForcedSlots
  <2>4. /\ PushesFront(front, s, Slots(front.queue))
        /\ PushesBack(back, s, Slots(back.queue))
    BY <1>1, <2>2 DEF PushesFront, PushesBack
  <2>5. IsInjective(Slots(front.queue)) /\ IsInjective(Slots(back.queue))
    BY <1>1, <1>2, <2>2
  <2>6. cqueue_isFull(cq) = TRUE /\ (Len(s) = cq.size) = TRUE /\ s # <<>>
    BY <1>2, <1>3, <1>4, <1>7 DEF cqueue_isFull
  <2> QED
    BY <1>1, <1>3, <1>5, <1>6, <2>2, <2>3, <2>4, <2>5, <2>6 DEF PushesAreSafe
<1>8. CASE n # size
  <2>1. PICK q, r \in Queues(size) :
            /\ front = [queue |-> q, ok |-> TRUE] /\ back = [queue |-> r, ok |-> TRUE]
            /\ Len(Slots(q)) = n + 1 /\ Tail(Slots(q)) = s
            /\ Len(Slots(r)) = n + 1 /\ Front(Slots(r)) = s
    BY <1>1, <1>5, <1>8, PushesSlots
  <2>2. front.queue = q /\ back.queue = r /\ front.ok = TRUE /\ back.ok = TRUE
    BY <2>1
  <2>3. cqueue_forciblyPushFront(cq) = front /\ cqueue_forciblyPushBack(cq) = back
    BY <1>1, <1>5, <1>8, ForceFrontIs, ForceBackIs
  <2>4. forcedFront = Slots(front.queue) /\ forcedBack = Slots(back.queue)
    BY <1>6, <2>3
  <2>5. /\ PushesFront(front, s, Slots(front.queue))
        /\ PushesBack(back, s, Slots(back.queue))
    BY <1>2, <2>1, <2>2 DEF PushesFront, PushesBack
  <2>6. IsInjective(Slots(front.queue)) /\ IsInjective(Slots(back.queue))
    BY <2>2, SlotsAre
  <2>7. cqueue_isFull(cq) = FALSE /\ (Len(s) = cq.size) = FALSE
    BY <1>2, <1>3, <1>8 DEF cqueue_isFull
  <2>8. s = <<>> => Len(Slots(front.queue)) = 1 /\ Len(Slots(back.queue)) = 1
    BY <1>2, <1>4, <2>1, <2>2
  <2> QED
    BY <1>1, <1>5, <1>6, <2>2, <2>4, <2>5, <2>6, <2>7, <2>8 DEF PushesAreSafe
<1> QED
  BY <1>7, <1>8

LEMMA PopsSafe ==
    ASSUME NEW size \in Nat \ {0}, NEW cq \in Queues(size)
    PROVE  PopsAreSafe(cq)
<1>1. PICK n, s : n = cqueue_numElements(cq) /\ s = Slots(cq)
  OBVIOUS
<1>2. n \in 0 .. size /\ s \in Seq(0 .. size - 1) /\ Len(s) = n
  BY <1>1, Elements, SlotsAre
<1>3. s = <<>> <=> n = 0
  BY <1>2
<1>4. PICK front, back : front = cqueue_popFront(cq) /\ back = cqueue_popBack(cq)
  OBVIOUS
<1>5. CASE n = 0
  <2>1. front = [queue |-> cq, ok |-> FALSE] /\ back = [queue |-> cq, ok |-> FALSE]
    BY <1>1, <1>4, <1>5, PopsSlots
  <2>2. front.queue = cq /\ back.queue = cq /\ front.ok = FALSE /\ back.ok = FALSE
    BY <2>1
  <2>3. (Len(s) > 1) = FALSE /\ s = <<>>
    BY <1>2, <1>3, <1>5
  <2> QED
    BY <1>1, <1>4, <2>2, <2>3 DEF PopsAreSafe
<1>6. CASE n # 0
  <2>1. PICK q, r : /\ front = [queue |-> q, ok |-> n > 1]
                    /\ back = [queue |-> r, ok |-> n > 1]
                    /\ Slots(q) = Tail(s) /\ Slots(r) = Front(s)
    BY <1>1, <1>4, <1>6, PopsSlots
  <2>2. front.queue = q /\ back.queue = r /\ front.ok = (n > 1) /\ back.ok = (n > 1)
    BY <2>1
  <2>3. s # <<>> /\ (Len(s) > 1) = (n > 1)
    BY <1>2, <1>3, <1>6
  <2> QED
    BY <1>1, <1>4, <2>1, <2>2, <2>3 DEF PopsAreSafe
<1> QED
  BY <1>5, <1>6

(***************************************************************************)
(* The index arithmetic makes a queue of its slots, whatever the size of   *)
(* the array: a push succeeds exactly when a slot is unused and takes such *)
(* a slot, a pop gives back that of the first or of the last element, and  *)
(* a forcible push of a full queue takes the slot of the other end.        *)
(***************************************************************************)
THEOREM QueueArithmetic ==
    \A size \in Nat \ {0} : \A cq \in Queues(size) : PushesAreSafe(cq) /\ PopsAreSafe(cq)
BY PushesSafe, PopsSafe

(***************************************************************************)
(* QueueIsSafe: so it does for the queue of AD524XM, which is one of the   *)
(* arithmetic's queues from its initialisation on.                         *)
(***************************************************************************)
THEOREM QueueCorrect == Spec => []QueueIsSafe
<1>1. TypeOK => QueueIsSafe
  <2>1. ASSUME TypeOK
        PROVE  queue.size \in Nat
    <3>1. CASE queue \in Queues(QUEUE_SIZE)
      BY <3>1, QueueAssumption, QueueFields
    <3>2. CASE queue = NoQueue
      BY <3>2 DEF NoQueue
    <3> QED
      BY <2>1, <3>1, <3>2 DEF TypeOK
  <2>2. ASSUME TypeOK, NEW size \in 1 .. queue.size, NEW cq \in Queues(size)
        PROVE  PushesAreSafe(cq) /\ PopsAreSafe(cq)
    <3>1. size \in Nat \ {0}
      BY <2>1, <2>2
    <3> QED
      BY <3>1, QueueArithmetic
  <2> QED
    BY <2>2 DEF QueueIsSafe
<1> QED
  BY <1>1, TypeCorrect, PTL
=============================================================================
