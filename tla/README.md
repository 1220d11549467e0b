# Crossing Reality: TLA+ models and proofs

Crossing Reality connects a wireless sensor network (WSN), actuators and a
virtual world (VW) through one program, the *Control Panel*
(`toolkit/ControlPanel/src/CrossingReality/ControlPanel.java`, `ControlPanel` below).
These modules describe what its interfaces and its operator do to the shared
tables, lists and check boxes when they run at the same time, and the way a
reading takes to it in the photo demo: the mote with its sensor board, the base
station and the serial forwarder. Paths are relative to the repository's `src/`;
`TOS` is `demo/tinyos-2.1.0`.

## The system

| Component | State | Operations | Hard behaviour |
|---|---|---|---|
| WSN-to-VW: `sensed`, `HTTPPOSTForward` | one call per XML-RPC worker thread, each in a new `ControlPanel` object | look up node and sensor, auto add, calibrate, scale, POST to the VW | about a dozen separate SQL statements without a transaction; check boxes and lists read while the operator changes them; lost answers |
| Operator: buttons and boxes | ignore lists, check boxes; Swing's event thread | add, remove and ignore nodes and sensors, reset calibration, set addresses | handlers of several statements, failing half way; races with calls |
| VW-to-actuator: `HTTPHandler.handle`, `SendXMLRPCRequest` | the request in the handler | parse, look up, check pause, call the actuator server, answer | one dispatcher thread for all; partial reads; lost calls and answers |
| `ActuatorRPCServer` (demo) | Phidget kit, relays | `control` | calls before the kit is attached; restarts |
| MySQL | tables `nodes`, `sensors`, `actuators` | statements, auto-committed | not created by this code: keys unknown |
| Photo mote (`PhotoToRadioC`) | `busy`, `pkt`, `lastTransmit` | timer, read, threshold, send | the packet is the radio's during a send; failed sends; integer threshold |
| Light sensor (`PhotoDriverM`, `AD524XM`, `circularQueue.h`) and bus arbiter | driver state, command queue, users waiting for the bus | queue a command, ask for the bus, write, report | a bus shared with the radio, given up and asked for again for every command; index arithmetic that wraps |
| Base station (`BaseStationP`, `SerialDispatcherP`, `SerialP`) | two queues, two receive buffers, acknowledgements | bridge radio and serial line | buffers exchanged, never copied; interrupts within tasks; sends that fail |
| Serial forwarder, serial side (`SerialComm`, `PacketBuffer`) | two bounded buffers, `retryCount`, an acknowledgement's condition variable | reader and writer thread | no sequence numbers; signals lost or late; deadlines; full buffers |
| Serial forwarder, TCP side (`TCPComm`) | clients' descriptors and their count, a wake-up pipe | accept, read and write threads | copies of the descriptor set that grow stale; clients leaving at any time; reads and writes that wait for one client; a buffer that drops its oldest packet |
| GUI lists, terminals | combo boxes, text areas | `update*Select`, `itemStateChanged`, `appendToOutput` | used by every thread |
| Start-up, MySQL details | `mysqldetails.txt` | `main`, `save/loadMysqlDetails` | servers accept calls before the lists exist |

The mote broadcasts readings; the base station bridges them to the serial line;
the serial forwarder hands them to its TCP clients, one of which,
`PhotoMsgReaderToXMLRPC`, calls `sensed` by XML-RPC. `sensed` reads and writes
`nodes` and `sensors` and POSTs to the node's address in the VW. The VW POSTs
commands to the HTTP server, which reads `actuators` and calls the actuator
server by XML-RPC. The operator writes all three tables, the ignore lists and
the boxes. The two interfaces of the Control Panel share nothing with each other
but the terminals, so they are modelled apart, and an exception of a terminal is
a fault of each. The parts of the photo demo meet at one narrow point each - a
packet on the air, a frame on the line, the two packet buffers - and each module
lets the other side of that point do whatever it can do (`tcp2serial`, which
`TcpComm` takes to have room, apart: the writer of `SerialComm` empties it); they are
not composed.

`PROJECT.json` lists every component with its status, every hazard at its line,
and the lines each definition translates.

## Modules

Control Panel:

- `Scaling` – the arithmetic of `HTTPPOSTForward`: the double division by the
  int `max - min` (which wraps at the width of an int, `2 * Half` values here),
  infinities and NaN, the clamp. Rationals are kept as pairs.
- `WsnToVw` – calls, event thread and tables. `call[w].pc` names the statement,
  box read or list element the worker is about to touch; one action is one of
  them with what follows it up to the next shared access. `edt` is the
  statement the event thread is about to execute. Rows are kept as a sequence
  per key, so that duplicate rows (`UniqueKeys = FALSE`) can occur.
  `added` and `sent` of a call are histories of what it did.
- `ReadingForwarding` – the abstract specification: a worker takes a reading and
  answers it once; the reading registers one sender, or reaches the VW, or
  neither, and "true" is said only of one that reached the VW. `WsnToVw` implements
  it under the mapping `Abstract` (`known` is what has rows, `reading` is what the
  call's histories say).
- `OperatorSettings` – `WsnToVw` with a history variable: the settings in force
  ever since a call arrived.
- `VwToActuator` – clients, handler, XML-RPC call, actuator server, kit, relays
  and the operator's part. `late` holds calls that were given up but still
  arrive; `acked` is a history of acknowledged commands, `did` of switched ones.

Photo demo:

- `CircularQueue` – every function of `circularQueue.h`, and what a queue is: the
  sequence of the slots it uses.
- `PhotoMote` – the application, the driver, the potentiometer's commands and the
  bus arbiter. A task or an interrupt is an action. The radio and the bus are used
  through what they signal.
- `SerialComm` – the two threads of the serial side; each call of a packet buffer is
  one action, since nothing is locked between two.
- `TcpComm` – the three threads of the TCP side, and the part of `readSerial` that fills
  `serial2tcp` and drops its oldest packet when it is full. Each section under
  `countlock`, with the byte put into the pipe after it, is one action. `owner` says whose
  connection a descriptor is. Sockets block: `readPacket` and `writePacket` are two
  actions each, one that takes up the connection (`peer`) and one that returns when its
  client has sent the rest (`input`), has read (`full`) or is gone.
- `BaseStation` – the mote's two queues, the two receive buffers of its serial stack
  and its transmitter. `Buffers` are message buffers, `mem` what they hold;
  `given`, `acked`, `entered` and `left` are histories. `receiveTask` is two
  actions, because interrupts come between its two sections; nothing else does.

`MC*` are instances for TLC. The theorems and their proofs are in modules of their own:
`WsnToVwProofs` (types), `WsnToVwSafety` (everything else about calls, and about `Scaling` and
`OperatorSettings`), `WsnToVwRefinement`, `VwToActuatorProofs`, `PhotoMoteProofs` (with
`CircularQueue`), `SerialCommProofs`, `TcpCommProofs` and `BaseStationProofs`.

| Code | Action |
|---|---|
| `sensed` 640-751 | `Receive`, `NodeQuery`, `NodeUnknown`, `NodeScan`, `NodeInsert` |
| 754-901 | `SensorQuery`, `SensorUnknown` (first read of the box), `SensorAutoAdd` (second read), `SensorScan`, `SensorInsert` |
| 903-1160 | `CalibrateBox`, `CalibrationRead`, `WriteMin`, `WriteMax`, `WriteBoth` |
| 1163-1377 | `PauseCheck`, `ForwardRead`, `Post` |
| `catch (SQLException)`; `appendToOutput` | `DbError`, `EdtError`; `GuiError` |
| `manualNodeAdd`, `manualSensorAdd` | `AddNode`, `AddNodeInsert`; `AddSensor`, `AddSensorInsert` |
| `removeNode`, `removeSensor` | `RemoveNode`, `DeleteNode`, `DeleteItsSensors`; `RemoveSensor`, `DeleteSensor` |
| `handle` 3048-3305 | `Take`, `Select`, `PauseCheck`, `Answer` |
| `SendXMLRPCRequest`, `control` | `Send`, `LoseCall`; `Execute`, `ExecuteLate` |
| `manualActuatorAdd`, `removeActuator`, 2522-2582 | `AddActuator`, `RemoveActuator`, `UpdateActuatorAddress` |
| `PhotoToRadioC` | `Booted`, `AMStartDone`, `AMStartFailed`, `TimerFired`, `ReadDone`, `SendDone` |
| `AD524XM` with `PhotoDriverM` | `StartDoneTask`, `Granted`, `WriteDone` (interrupt), `WriteDoneTask` (`ReportStart`, `ReportOutput`) |
| `ArbiterP` | `Request`, `Release`, called by the actions above, `RadioRequests`, `RadioReleases`; `grantedTask` is `Granted` or `RadioGranted` |
| `readSerial` 639-678 | `ReadPacket` (with `SignalAck`), `EnqueueAck`, `CheckFull`, `WhileFull`, `DropOldest`, `Put` |
| `writeSerial` 688-758 | `Dequeue`, `WritePacket`, `Wait`, `Woken`, `TimedOut` |
| `connectClients`; `readClients`; `writeClients` | `Accept`, `VersionCheck`, `AddClient`; `CopyForReading`, `Select`, `SelectReturns`, `ReadPacket`, `ReadReturns`; `CountForWriting`, `Dequeue`, `CopyForWriting`, `WritePacket`, `WriteReturns` |
| `readSerial` 641-676, with TCPComm's threads | `PacketArrives`, `CheckFull`, `DropOldest`, `Put` |
| `BaseStationP` | `RadioStartDone`, `SerialStartDone`, `RadioReceive`, `UartSendTask`, `UartSendDone`, `RadioSendTask`, `RadioSendDone`, `ReceiveTask` |
| `SerialDispatcherP`, `SerialP` | `FrameStarts`, `FrameEnds`, `FrameFails`, `Received`; `RunTx`, `PutDone` |

What is abstracted: connecting to the database and reading a result are one step
with the statement (an error in any of them is `DbError`, which may happen before
the statement, or, being a failure of the next step, after it); texts, lists
and fields of the GUI are left out, and the operator may select any node in the
database or none; names, addresses and readings are small sets. A body that is
read in part is a command cut short or an exception. The HTTP server's single
thread is the guard of `Take`; the JDK gives `HttpServer` no executor unless it
is set, and it is not. Packets and messages are numbers in the order they come, a
frame is one step in each direction, and a damaged one is a choice; bytes,
escapes, CRCs and lengths are left out. What a client of `TcpComm` has sent is
nothing, a part of a packet, a packet or something invalid, and its connection takes
more or is full; `PhotoMote` takes no account of what a potentiometer command says.
A condition variable is taken not to wake up without a signal, as is the case
with the C library in use on Linux; a spurious wake-up in `writeSerial` would count as an
acknowledgement.

An operator that stands just before another and has its name with a suffix
(`TakeConcurrent`, `WriteBothOnlyMin`), or before it and called for what it does
wrong (`Kept`, `ClearsAlways`), is the other with a programmer's slip; no
specification uses it, `PROJECT.json` ("mutants") names the property it breaks.

## Runs

| Run | Question | Result |
|---|---|---|
| `MCRegistration` | Two calls and an operator who adds: do calls keep the node and sensor they found, is no sensor orphaned, does no call end in an exception, and is every step one of `ReadingForwarding` (so that a registering reading goes no further)? | holds |
| `MCSoleCaller` | One call at a time, with resets, removals and re-additions between its steps, and signed readings that make `max - min` overflow: does the range only widen, and is what is forwarded in [0, 1] (0 on min = max apart)? | holds |
| `MCSettings` | Is a setting in force for the whole of a call honoured by it? | holds |
| `MCLoaded` | Two calls at a time: are min and max set together; are nodes and sensors that keep sending registered and calibrated, and all their readings answered? | holds |
| `MCCommands` | Does a light show the command acknowledged last, and has a refused command switched nothing? | holds |
| `MCCommandsEnd` | Is no POST left waiting, and does the pause box stop commands, whatever fails? | holds |
| `MCPhotoMote` | Whatever fails, are the sensor's commands each written once, does the radio get the bus, is the packet under way left alone, and is a level of light that lasts heard? | holds |
| `MCSerialComm` | Are the packets of both directions in order and accounted for, are they given up only after all retries, and do both threads get on? | holds |
| `MCTcpComm` | Is a client counted out once, does one that is served miss only packets dropped from a full buffer, and, unless a thread stays with one client for ever, is everyone read, who has gone removed and every packet written? | holds |
| `MCBaseStation` | Has each buffer one owner, is everything bridged once and in order, and does what entered a queue leave it? | holds |
| `FindingOrphans` | Does `removeNode` leave no sensor behind? | violated |
| `FindingClients` | Is `count` the number of connected clients? | violated |

Bounds. One or two workers: every hazard found needs at most two calls, and a
third runs the same steps on the same rows. One node and one sensor type (with
"no selection" as a second name): rows of different keys do not meet in any
statement but `DeleteItsSensors`. `MCLoaded` has two readings, so that a range has
two ends; five signed ones with a 3-bit int make `max - min` overflow in
`MCSoleCaller`. `MaxIgnored` = 2 in `MCSettings`, and 0 in `MCSoleCaller`, where a
removed row is to come back. `MaxLate` = 1: one handler makes one call at a time,
so a second late call needs the first to be still on its way. In `MCCommands` a
third id is an actuator that the kit does not know.

`MCPhotoMote` has the queue of four commands, as in the code, and checks the queue's
arithmetic for every size up to it; three levels of light, one that equals
the initial `lastTransmit` and one on each side of 100. `MCSerialComm` has buffers of two
packets and three packets of the mote's, so that they fill and something is dropped, and
one retry, which is both the first and the last; the deadline runs over every
tenth of a second. `MCTcpComm` has two clients, of which one may stop in the
middle of a packet, not read, and send what is invalid, and the other is there for the
first to hold up; a buffer of one, which is full at once; and three packets, so that one
can be in the writer's hands, one wait and one have it dropped. A third client would only
wait as the second does. `FindingClients` needs one, to take over a descriptor.
`MCBaseStation` has queues of one and two, so that both are full in a few steps, and as
many messages as the longer queue and one more; the code's twelve would only delay the
wrap.

Where deadlock is not checked the system may stop: the light may stay as it is, a
finite number of packets is sent, clients may stay away, the forwarder may end.

`MCRegistration` uses no removals, since with them its invariants do not hold
(`FindingOrphans`); it allows duplicate rows, failing statements and posts, and
restarts. `MCCommands` leaves out lost calls, departed clients, restarts and the
kit's plug, with any of which a light can differ from the last acknowledgement
and a command answered 400 can have been carried out. `MCTcpComm` gives no
descriptor number twice: with that, `CountIsRight` fails as `CountIsConnected` does.

`MCSettings` says of an ignore list that it binds a call while nothing is taken
off it: `ArrayList.contains` in a worker's thread and `remove` in the event
thread have no lock in common, and an element that moves to where the loop has
been is missed. Its list bound admits two elements, but with one node name none
is of another node, so this case is excluded by the property and not met in the run.
`MCLoaded` has no calibration resets: one between a call's read and its write leaves
half a row, and so `NoHalfCalibration` is claimed without them.

### Fairness

- `MCLoaded`: a worker thread runs until its call returns (weak fairness of its
  steps), the VW answers or breaks each POST (weak fairness of `Post`: assumed, the
  code sets no timeout), and each sensor's readings are taken up again and
  again (strong fairness of `Receive` for each node and type: the web server has
  many more threads than sensors that report every few seconds).
- `MCCommandsEnd`: the dispatcher runs a handler to its end (weak), and serves
  every connection its selector reports in each round, so that a waiting request
  is not passed over for ever (strong fairness of `Take`); the actuator server
  answers, or the call fails (weak fairness of `Execute`: assumed, `client.execute`
  has no timeout).
- `MCPhotoMote`: TinyOS runs every posted task and its timer is periodic; the ADC,
  the bus and the radio signal the end of what they were asked for (weak). What may
  fail does not fail for ever (strong fairness of the outcome that succeeds).
- `MCSerialComm`: the two threads run, the mote reads its line, and a wait that
  is not signalled times out (weak; a time-out is a step of the writer). Nothing is
  assumed of the line, nor of the clients.
- `MCTcpComm`: the three threads run (weak), that is, as far as their calls return: a
  read waits for the rest of a packet and a send for a client that reads, and neither the
  clients, `accept` nor the mote have to do anything. So one client can hold up a thread
  for ever, and with it all the others. `ClientServed` and `PacketsLeave` therefore say
  what holds if the thread is again and again not held up (`[]<>~ReaderWaits`,
  `[]<>~WriterWaits`); without this premise both fail. They end where `select` has failed
  and the forwarder has cancelled itself.
- `MCBaseStation`: tasks run in the order they are posted, the radio answers each
  send, the line takes each byte (weak), and sends succeed again and again (strong).

## Proofs

Every invariant and every action property that a passing run checks is also a theorem,
and so is the refinement: for any threads, clients, sensors, buffer and queue sizes,
readings and faults that the named assumptions on the constants allow. Where a theorem
says `ASSUME ... PROVE`, it states what the code needs of its surroundings; the run of
the same property meets that condition too, and what happens without it is said below.
Each component's argument has the same form: an inductive invariant, one lemma per
action (`...Step`, `...Type`, `...Order`), and a last step in temporal logic.

### Control Panel

- `TypeCorrect` (`WsnToVwProofs`): `TypeOK` is inductive; the lemmas on `RemoveFirst`,
  `RemoveAt` and `FirstAddress` type the ignore lists and the address a call takes.
- `FirstReadingCorrect` (`WsnToVwSafety`): from `OutcomeCorrect`, an invariant of each
  call's record (while a call runs it has sent nothing, and has added at most its
  node, when it is past the node).
- `ForwardedCorrect`: `ScaledInUnit`, a fact about `Scaled` on all integers of the
  width, and `OutcomeCorrect`, which types the row a call sent with.
  `ZeroOverZeroIsSent` shows that the exception is needed.
- `RecognisedCorrect`, `NoOrphansCorrect`, `NoFaultCorrect`: under `OnlyAdds` (no
  removal, sensor auto add not unticked, no exception of the GUI). The invariant
  `AddsInv` is the three properties together, and adds that the event thread is in no
  removal and that a call in `sensorAutoAdd` will find its box still ticked:
  `Recognised` alone is not preserved by that step. `FindingOrphans` shows what one
  removal does.
- `WholeCorrect`: under `OnlyCalibrates` (unique keys, nothing reset or removed),
  `NoHalfCalibration` for any number of threads. A row is whole because the only
  statement that writes to an empty one writes both values; that the others write to a
  whole one needs `WholeInv`: a call about to write the minimum or the maximum still
  finds there a row with both. A reset or a removal between the read and the write
  takes this away.
- `WidensCorrect`: under `SoleCaller` (unique keys, one worker thread), `OnlyWidens`,
  with resets, removals and re-additions at any point. `WidensInv`: of what the thread
  has seen in a row, each value is still there or gone, never another one, so that
  what is smaller than the minimum seen is no larger than the one there. With two
  threads it fails.
- `SettingsCorrect`: `SettingsHonoured`, without further assumptions. `HeedInv`
  relates the history of `OperatorSettings` to where each call is: a setting held
  cannot be one that the call has already found otherwise, and an id held on an ignore
  list is at or after the element the scan looks at next (`Ahead`). The lists' lemmas
  (`ListsOfStep`, `AheadStays`) say that a list stays, grows at its end, or shrinks;
  one that shrinks releases what was held.
- `ForwardingImplemented` (`WsnToVwRefinement`): `WsnToVw` implements
  `ReadingForwarding`. Each step of a call is either a stutter (`GoesOn`: it keeps its
  outcome and registers nothing) or one of `Refuse`, `Register` and `Forward`
  (`Ends`); the inserts, the deletes and the updates of rows are shown to change
  `known` by one sender, by less, and not at all. It rests on `TypeOK` and
  `OutcomeCorrect`: that a call that ends has not had an effect before is the
  latter's.
- `TypeCorrect` (`VwToActuatorProofs`) needs that results belong to commands under
  way: `TypeOK` alone does not make `acked` record commands.
- `AckedCorrect`: under `Calm` (no lost calls, departed clients, restarts or
  unplugging), `AckedIsLit`. The invariant adds that one request at a time is in the
  handler, that no call is late, and that a command carried out but not acknowledged
  is what its light shows: without the first, another could be carried out between the
  two.
- `RefusedCorrect`: under `AnswersArrive` (no lost calls or answers, no restart of the
  actuator server), `RefusedDoesNothing`, with every other fault. `RInv` adds that a
  command under way that has switched something has the result "true", which no path
  answers with 400. With a lost answer the code does (see below).

### Photo demo

- `ThresholdFiltersRepeats` (`PhotoMoteProofs`): for every pair of 12-bit readings,
  the threshold holds back only a repetition of a value below 100. `PacketCorrect`:
  `PacketStable`, from `BusyInv` (the radio has the packet only while `busy`), which a
  send that fails at once and a `sendDone` with an error preserve too.
- `QueueArithmetic`: the functions of `circularQueue.h` for arrays of every size and
  queues in every position, as operations on the sequence of slots in use (`SlotsAre`:
  the i-th is i - 1 below the front, modulo the size). No induction over data is
  needed, since a push or a pop changes one end. `QueueCorrect` applies it to the
  queue of the driver, and `TypeCorrect` shows with `MoteInv` that this is always one
  of those queues: what is queued, what is being written and who waits for the bus go
  together (`DriverInv`, `CommandInv`, `BusInv`).
- `InOrderCorrect`, `TypeCorrect` and `ReadsAccountedCorrect` (`SerialCommProofs`). In
  the direction of the clients, `ReadOrder` cuts the packets the mote has sent in two
  at a number: those on the line are above it and ascend, those that were accepted are
  at or below it. In the direction of the mote, `WriteOrder` cuts what the clients
  have offered at the packet the writer has in hand or took last; below the cut are
  those delivered and on the line, above it those waiting, and acknowledgements in the
  same buffer count for nothing (`Data`, `Spaced`). The type invariant needs the
  order, and the account of packets needs that the reader holds one exactly when it is
  not reading (`ReaderShape`).
- `GivenUpCorrect`: `retryCount` is what the writes of the packet in hand say, from
  which both bounds follow; `WriteTries` carries it along with the order.
- `NoSilentLossCorrect`: for `maxRetries > 0` (25 in the code). While every wait has
  ended at its first try, at most one packet or acknowledgement is under way, that of
  the packet the writer waits for, and none when it does not wait (`OneUnderWay`); an
  acknowledgement on the line or signalled means that the packet has been delivered.
  The assumption is used: without a retry, a packet given up at its first try would
  leave its acknowledgement to the next.
- `TypeCorrect`, `CountCorrect`, `OwedIsComingCorrect` (`TcpCommProofs`), the latter
  two when no descriptor number is given again; with that `CountIsRight` fails, as
  `FindingClients` shows of `CountIsConnected`. `FDInv`: what a thread holds in a copy
  and is still open is in `FDs`, and one just accepted is in neither, so that
  `removeClient` counts a client out once. `owed` is a history: what was still to be
  written to a descriptor when it came into `FDs` and what has been put into the buffer
  since, less what has been written to it and what has been dropped. `OwedInv` says that
  this is exactly what the buffer and, while it is due, the writer's hands hold, and
  that packets ascend from the writer's hands through the buffer to the reader of the line:
  so none that was not dropped is missed, and none comes twice or out of order. It uses
  `FDInv`: the buffer is cleared only when `FDs` is empty. The set
  of clients is finite, since they are counted.
- `FrameAcceptedCorrect` (`BaseStationProofs`): `FrameAccepted` is not inductive: that
  the other buffer is locked only while a message is pending needs that the pending
  message is in that very buffer, and that `recv.pending` and the two halves of
  `receiveTask` go together (`TaskInv`); `LockInv` is the three.
- `BuffersCorrect`: `OwnInv` numbers the places of a buffer - the slots of both
  queues, the radio's, the two of the line - and says that no buffer is in two of
  them; each action exchanges two places (`OwnersSwap`) or none (`OwnersStay`).
- `InOrderCorrect`: `BridgeInv`. For each direction, what entered is what has left and
  what waits, and the message under way is the first that waits (`Side`, `Bridges`;
  the lemmas on `Slot` and `Size` do the arithmetic of in, out and full). That a
  message's bytes are still those that entered is where `OwnInv` is used: no receiver
  writes into a buffer that waits.
- `AckedCorrect`: `AckInv` says of the acknowledgements still to be sent, too, that
  their message is given or waits for `receiveTask`; nothing but that task takes it
  (`PendingStays`, from `OwnInv`: no other receiver writes into its buffer).

### Only model-checked

The liveness properties (`AutoRegistration`, `CalibrationHappens`, `AnswersReadings`,
`PostsAnswered`, `PauseStops`, `SensorPowered`, `RadioServed`, `LevelHeard`,
`ThreadsGetOn`, `PacketsLeave`, `ClientServed`, `EnteredLeaves`) and the absence of
deadlock: liveness under fairness and `ENABLED` are beyond the prover. The two
findings are counterexamples, which TLC finds.

## Disagreements of code and comments

Shown by a run:

1. `removeNode` deletes a node's sensors once, "otherwise they will come back to
   haunt" (2041-2044); a call that has found the node inserts one afterwards
   (`FindingOrphans`).
2. `TCPComm::removeClient` closes a descriptor without looking whether it is
   still in the set. If the reader and the writer both find a client gone, and its
   number has been given to a new one in between, the new one is closed, still
   counts as a member of the set but not of `count`, "number of connected clients"
   (`tcpcomm.h:88`): both threads sleep while a client may be connected
   (`FindingClients`).

Seen while modelling:

- The auto-add box is read at 823 and again at 831; unticked in between, an
  unrecognised sensor reaches the code of which 908 says that it is recognised.
- The maximum is written by comparison with a row read earlier (1042): the later
  of two calls can lower it. A reset in between leaves half a row.
- `value / (max - min)` leaves out `min` (1284), so the alert is given for readings
  in range. A first calibrated reading of 0 is forwarded as NaN (1278, proved by
  `ZeroOverZeroIsSent`).
- A request that is no POST is never answered (3055; the comment at 3044 promises
  a code). The 400 after a lost answer of the actuator server (3019) may be given
  for a command carried out.
- A node removed and ignored between a call's look at the list and its INSERT is
  auto added (714, 727); an id on the ignore list twice stays there after a
  manual add (1719, 2007).
- `TOS/apps/BaseStation/README.txt` says that a message from the serial line is
  acknowledged only if it was enqueued for the radio. `SerialP` acknowledges every
  frame whose CRC is right (446-447), before `BaseStationP` has seen it.
- `packetbuffer.cpp:64` promises "NULL = buffer empty" of `dequeue`, which waits
  instead: a reader that found the buffer full (`serialcomm.cpp:669`) and then
  empty, after `clear()`, waits for a packet that only it would enqueue.
- `writeSerial` does not carry nanoseconds into seconds (738): every deadline that
  crosses a second fails at once and the packet counts as acknowledged.
- `select` on a descriptor the writer has closed meanwhile ends the forwarder
  (`tcpcomm.cpp:379-382`).
- One client that sends a part of a packet and no more holds up the reader of all
  clients (`tcpcomm.cpp:394`, 167-175), one that does not read the writer (446, 197):
  then `serial2tcp` fills, and `readSerial` drops its oldest packets.
- `isCurrentBufferLocked` of `SerialDispatcherP` (189) returns the lock of the other
  buffer. That is what keeps the line open: a frame that fails leaves its own buffer
  locked.
- The threshold of `PhotoToRadioC` (61) filters next to nothing, and a level below
  100 of which one send failed is not sent again.
- `PhotoDriverM` signals `startDone` when the last command is queued, not when it
  is written (111-113), and `AD524XM` counts its users but sets the count to zero in each
  `start` (173).

## Not modelled, and the plan

Most of the repository's C and C++ is TinyOS 2.1.0 as its authors published it:
chip headers, simulators, generated wrappers (`tossim_wrap.cxx`), tutorials. They
hold register layouts or none of this system's logic, and no demo of it
runs them; together with XML-RPC, MySQL and the Phidget library they stay out. So
do the sensor board's other drivers, `SFControl` (telnet commands, one at a
time), `PhotoMsgReaderToXMLRPC` (one call per message, without state), and
`SerialComm`'s opening of its device. What the drivers can do that the
demo does not ask of them (stopping the sensor, reading a potentiometer,
`immediateRequest`) is left out as well, and those components are listed as partly
modelled.

Next, in this order:

1. `IgnoreLists` – the lists alone, two nodes, bound 2 or more, with the scan: when exactly
   does an ignored node stay out?
2. `Startup` – `main`'s order, early calls, the details file.
3. `DbConnections` – connections taken and leaked by each path against a pool.
4. `ControlPanelGui`, `Terminals` – lists refreshed by several threads; carets.
5. The base station composed with `SerialComm` over one line, which says when a
   packet from a client reaches the radio.
6. Proofs: the modules above, as they come; the abstract specifications that the photo
   demo's modules could be shown to implement (a bounded queue for `CircularQueue` and for
   `BaseStation`'s two, a stop-and-wait line for `SerialComm`).
