---------------------------- MODULE BaseStation ----------------------------
(***************************************************************************)
(* The bridge mote between the radio and the serial line: BaseStationP     *)
(* with its two queues, SerialDispatcherP with its two receive buffers,    *)
(* and SerialP, which receives frames, acknowledges them and sends; and,   *)
(* as they use it, the radio stack.                                        *)
(*                                                                         *)
(* Messages live in buffers that are never copied: who receives a buffer   *)
(* gives another one back.  Tasks run one after the other and a posted     *)
(* task is posted once; interrupts of the line come between and within     *)
(* them, frame by frame.                                                   *)
(***************************************************************************)
EXTENDS Integers, Sequences, SequencesExt, FiniteSets

CONSTANTS
    HostMessages,     \* how many messages come over the serial line
    RadioMessages,    \* how many come over the radio
    UART_QUEUE_LEN,
    RADIO_QUEUE_LEN,
    ACK_QUEUE_SIZE,
    Faults            \* what can fail: "start" of the radio, radio "send",
                      \* "damage" of a frame received, "tx" of a frame sent

None == 0
ASSUME MessagesAssumption == HostMessages \in Nat /\ RadioMessages \in Nat
ASSUME LengthsAssumption ==
    /\ UART_QUEUE_LEN \in Nat \ {0} /\ RADIO_QUEUE_LEN \in Nat \ {0}
    /\ ACK_QUEUE_SIZE \in Nat \ {0}
ASSUME FaultsAssumption == Faults \subseteq {"start", "send", "damage", "tx"}

FromHost == 1 .. HostMessages
FromRadio == HostMessages + 1 .. HostMessages + RadioMessages
Buffers == 1 .. UART_QUEUE_LEN + RADIO_QUEUE_LEN + 3

VARIABLES
    mem,        \* the message each buffer holds, None if nobody is to read it
    uart,       \* BaseStationP: uartQueue, uartIn, uartOut, uartBusy, uartFull
    radio,      \* ... and those of the other direction
    tasks,      \* tasks posted
    starting,   \* which of "radio" and "serial" have not signalled startDone
    radioRx,    \* the radio stack: the buffer it receives into
    radioTx,    \* ... and the one it sends, or None
    rx,         \* the message whose frame is coming in, or None
    recv,       \* SerialDispatcherP: which, locked, ptrs, and the pending task
    sendBuffer, \* SerialDispatcherP: the buffer it sends, or None
    sendError,
    tx,         \* SerialP: txState, txProto and the data buffer's state
    ackQ,       \* SerialP: acknowledgements to send
    hosted,     \* how many messages the host has begun to send
    heard,      \* how many messages the radio has heard
    given,      \* history: messages given to UartReceive.receive
    acked,      \* history: messages whose acknowledgement was sent
    entered,    \* history: messages that entered each queue
    left        \* history: ... and those that left it

app == <<uart, radio, starting>>
radioStack == <<radioRx, radioTx, heard>>
receiver == <<rx, recv, hosted>>
sender == <<sendBuffer, sendError, tx>>
hist == <<entered, left>>
vars == <<mem, app, tasks, radioStack, receiver, sender, ackQ, given, acked, hist>>

Tasks == {"uartSend", "radioSend", "receive", "received", "RunTx", "sendDone"}

Queue(len, first) ==
    [buf |-> [i \in 0 .. len - 1 |-> first + i], in |-> 0, out |-> 0,
     busy |-> FALSE, full |-> TRUE]

QueueType(len) ==
    [buf : [0 .. len - 1 -> Buffers], in : 0 .. len - 1, out : 0 .. len - 1,
     busy : BOOLEAN, full : BOOLEAN]

TypeOK ==
    /\ mem \in [Buffers -> {None} \cup FromHost \cup FromRadio]
    /\ uart \in QueueType(UART_QUEUE_LEN) /\ radio \in QueueType(RADIO_QUEUE_LEN)
    /\ tasks \subseteq Tasks
    /\ starting \subseteq {"radio", "serial"}
    /\ radioRx \in Buffers /\ radioTx \in Buffers \cup {None}
    /\ rx \in FromHost \cup {None}
    /\ recv \in [which : 0 .. 1, locked : [0 .. 1 -> BOOLEAN],
                 ptrs : [0 .. 1 -> Buffers], pending : BOOLEAN,
                 taskWhich : 0 .. 1, taskBuf : Buffers \cup {None}]
    /\ sendBuffer \in Buffers \cup {None} /\ sendError \in BOOLEAN
    /\ tx \in [state : {"idle", "sending", "finish", "error"},
               proto : {"ack", "data"}, data : {"available", "filling"}]
    /\ ackQ \in Seq(FromHost) /\ Len(ackQ) <= ACK_QUEUE_SIZE
    /\ hosted \in 0 .. HostMessages /\ heard \in 0 .. RadioMessages
    /\ given \subseteq FromHost /\ acked \subseteq FromHost
    /\ entered \in [uart : Seq(FromRadio), radio : Seq(FromHost)]
    /\ left \in [uart : Seq(FromRadio), radio : Seq(FromHost)]

Init ==
    /\ mem = [b \in Buffers |-> None]
    /\ uart = Queue(UART_QUEUE_LEN, 1)
    /\ radio = Queue(RADIO_QUEUE_LEN, UART_QUEUE_LEN + 1)
    /\ tasks = {} /\ starting = {"radio", "serial"}
    /\ radioRx = UART_QUEUE_LEN + RADIO_QUEUE_LEN + 1 /\ radioTx = None
    /\ rx = None
    /\ recv = [which |-> 0, locked |-> [i \in 0 .. 1 |-> FALSE],
               ptrs |-> [i \in 0 .. 1 |->
                            UART_QUEUE_LEN + RADIO_QUEUE_LEN + 2 + i],
               pending |-> FALSE, taskWhich |-> 0, taskBuf |-> None]
    /\ sendBuffer = None /\ sendError = FALSE
    /\ tx = [state |-> "idle", proto |-> "ack", data |-> "available"]
    /\ ackQ = <<>>
    /\ hosted = 0 /\ heard = 0
    /\ given = {} /\ acked = {}
    /\ entered = [uart |-> <<>>, radio |-> <<>>]
    /\ left = entered

-----------------------------------------------------------------------------
(* The queues of BaseStationP *)

IsEmpty(q) == q.in = q.out /\ ~q.full
Length(q) == Cardinality(DOMAIN q.buf)
AfterUnwrapped(q, i) == i + 1
After(q, i) == (i + 1) % Length(q)

\* A buffer enters, and the free one of its place is given back (Swapped).
Swapped(q) == q.buf[q.in]
Enqueued(q, b) ==
    [q EXCEPT !.buf[q.in] = b, !.in = After(q, @), !.busy = TRUE,
              !.full = After(q, q.in) = q.out]

Dequeued(q) == [q EXCEPT !.out = After(q, @), !.full = FALSE]

Post(busy, task) == IF busy THEN {} ELSE {task}

\* startDone lets messages in; a radio that does not start keeps its queue
\* closed.  The serial line always starts.
RadioStartDone ==
    /\ "radio" \in starting
    /\ starting' = starting \ {"radio"}
    /\ \/ radio' = [radio EXCEPT !.full = FALSE]
       \/ "start" \in Faults /\ UNCHANGED radio
    /\ UNCHANGED <<mem, uart, tasks, radioStack, receiver, sender, ackQ, given,
                   acked, hist>>

SerialStartDone ==
    /\ "serial" \in starting
    /\ starting' = starting \ {"serial"}
    /\ uart' = [uart EXCEPT !.full = FALSE]
    /\ UNCHANGED <<mem, radio, tasks, radioStack, receiver, sender, ackQ, given,
                   acked, hist>>

\* receive, of RadioReceive and RadioSnoop.
RadioReceive ==
    /\ "radio" \notin starting /\ heard < RadioMessages
    /\ heard' = heard + 1
    /\ LET m == HostMessages + heard + 1
       IN  IF uart.full
           THEN UNCHANGED <<mem, uart, tasks, radioRx, entered>>
           ELSE /\ mem' = [mem EXCEPT ![radioRx] = m]
                /\ uart' = Enqueued(uart, radioRx)
                /\ radioRx' = Swapped(uart)
                /\ tasks' = tasks \cup Post(uart.busy, "uartSend")
                /\ entered' = [entered EXCEPT !.uart = Append(@, m)]
    /\ UNCHANGED <<radio, starting, radioTx, receiver, sender, ackQ, given,
                   acked, left>>

\* SerialDispatcherP.Send.send is free whenever this task calls it: there is
\* one send at a time, and the data buffer is free again before sendDone.
UartSendTask ==
    /\ "uartSend" \in tasks
    /\ IF IsEmpty(uart)
       THEN /\ uart' = [uart EXCEPT !.busy = FALSE]
            /\ tasks' = tasks \ {"uartSend"}
            /\ UNCHANGED sender
       ELSE IF sendBuffer = None /\ tx.data = "available"
       THEN /\ sendBuffer' = uart.buf[uart.out] /\ sendError' = FALSE
            /\ tx' = [tx EXCEPT !.data = "filling"]
            /\ tasks' = (tasks \ {"uartSend"}) \cup {"RunTx"}
            /\ UNCHANGED uart
       ELSE UNCHANGED <<uart, tasks, sender>>
    /\ UNCHANGED <<mem, radio, starting, radioStack, receiver, ackQ, given,
                   acked, hist>>

\* signalSendDone and UartSend.sendDone: after an error the message stays.
UartSendDone ==
    /\ "sendDone" \in tasks
    /\ sendBuffer' = None
    /\ tasks' = (tasks \ {"sendDone"}) \cup {"uartSend"}
    /\ IF sendError \/ sendBuffer # uart.buf[uart.out]
       THEN UNCHANGED <<mem, uart, left>>
       ELSE /\ uart' = Dequeued(uart)
            /\ left' = [left EXCEPT !.uart = Append(@, mem[sendBuffer])]
            /\ mem' = [mem EXCEPT ![sendBuffer] = None]
    /\ UNCHANGED <<radio, starting, radioStack, receiver, sendError, tx, ackQ,
                   given, acked, entered>>

RadioSendTask ==
    /\ "radioSend" \in tasks
    /\ IF IsEmpty(radio)
       THEN /\ radio' = [radio EXCEPT !.busy = FALSE]
            /\ tasks' = tasks \ {"radioSend"}
            /\ UNCHANGED radioTx
       ELSE /\ \/ /\ radioTx' = radio.buf[radio.out]
                  /\ tasks' = tasks \ {"radioSend"}
               \/ "send" \in Faults /\ UNCHANGED <<radioTx, tasks>>
            /\ UNCHANGED radio
    /\ UNCHANGED <<mem, uart, starting, radioRx, heard, receiver, sender, ackQ,
                   given, acked, hist>>

RadioSendDoneAnyway(error) ==
    /\ radioTx # None
    /\ radioTx' = None
    /\ tasks' = tasks \cup {"radioSend"}
    /\ radio' = Dequeued(radio)
    /\ left' = IF error THEN left
               ELSE [left EXCEPT !.radio = Append(@, mem[radioTx])]
    /\ mem' = [mem EXCEPT ![radioTx] = None]
    /\ UNCHANGED <<uart, starting, radioRx, heard, receiver, sender, ackQ,
                   given, acked, entered>>

RadioSendDoneIdle(error) ==
    /\ radioTx # None
    /\ radioTx' = None
    /\ IF error \/ radioTx # radio.buf[radio.out]
       THEN UNCHANGED <<mem, radio, left, tasks>>
       ELSE /\ radio' = Dequeued(radio)
            /\ tasks' = tasks \cup {"radioSend"}
            /\ left' = [left EXCEPT !.radio = Append(@, mem[radioTx])]
            /\ mem' = [mem EXCEPT ![radioTx] = None]
    /\ UNCHANGED <<uart, starting, radioRx, heard, receiver, sender, ackQ,
                   given, acked, entered>>

RadioSendDone(error) ==
    /\ radioTx # None
    /\ radioTx' = None
    /\ tasks' = tasks \cup {"radioSend"}
    /\ IF error \/ radioTx # radio.buf[radio.out]
       THEN UNCHANGED <<mem, radio, left>>
       ELSE /\ radio' = Dequeued(radio)
            /\ left' = [left EXCEPT !.radio = Append(@, mem[radioTx])]
            /\ mem' = [mem EXCEPT ![radioTx] = None]
    /\ UNCHANGED <<uart, starting, radioRx, heard, receiver, sender, ackQ,
                   given, acked, entered>>

-----------------------------------------------------------------------------
(* Receiving a frame: rx_state_machine of SerialP, SerialDispatcherP *)

isThisBufferLocked(r) == r.locked[r.which]

\* It is the lock of the other buffer that is looked at, so a frame is
\* refused as long as the one before it has not been taken.
isCurrentBufferLocked(r) == r.locked[1 - r.which]

\* startPacket: a frame that is refused is skipped up to the next delimiter.
FrameStarts ==
    /\ "serial" \notin starting /\ rx = None /\ hosted < HostMessages
    /\ hosted' = hosted + 1
    /\ IF isCurrentBufferLocked(recv)
       THEN UNCHANGED <<rx, recv>>
       ELSE /\ rx' = hosted + 1
            /\ recv' = [recv EXCEPT !.locked[recv.which] = TRUE]
    /\ UNCHANGED <<mem, app, tasks, radioStack, sender, ackQ, given, acked, hist>>

\* endPacket(SUCCESS): the CRC is right.
EndPacket ==
    IF recv.pending
    THEN UNCHANGED <<mem, recv>>
    ELSE /\ recv' = [recv EXCEPT !.pending = TRUE, !.taskWhich = recv.which,
                                 !.taskBuf = recv.ptrs[recv.which],
                                 !.which = 1 - @]
         /\ mem' = [mem EXCEPT ![recv.ptrs[recv.which]] = rx]

\* ... and ack_queue_push, whatever becomes of the message: with its queue
\* full the acknowledgement is dropped.
FrameEnds ==
    /\ rx # None
    /\ EndPacket
    /\ ackQ' = IF Len(ackQ) < ACK_QUEUE_SIZE THEN Append(ackQ, rx) ELSE ackQ
    /\ tasks' = tasks \cup Post(recv.pending, "receive")
                      \cup Post(Len(ackQ) = ACK_QUEUE_SIZE, "RunTx")
    /\ rx' = None
    /\ UNCHANGED <<app, radioStack, hosted, sender, given, acked, hist>>

\* endPacket(FAIL), which unlocks nothing.
FrameFails ==
    /\ "damage" \in Faults
    /\ rx # None
    /\ rx' = None
    /\ UNCHANGED <<mem, app, tasks, radioStack, recv, hosted, sender, ackQ,
                   given, acked, hist>>

\* receiveTask, up to the return of UartReceive.receive: taskBuf is the buffer
\* it gives back.
ReceiveTask ==
    /\ "receive" \in tasks
    /\ LET b == recv.taskBuf
           m == mem[b]
       IN  /\ given' = given \cup {m}
           /\ IF radio.full
              THEN /\ mem' = [mem EXCEPT ![b] = None]
                   /\ tasks' = (tasks \ {"receive"}) \cup {"received"}
                   /\ UNCHANGED <<radio, recv, entered>>
              ELSE /\ radio' = Enqueued(radio, b)
                   /\ recv' = [recv EXCEPT !.taskBuf = Swapped(radio)]
                   /\ tasks' = (tasks \ {"receive"}) \cup {"received"}
                                  \cup Post(radio.busy, "radioSend")
                   /\ entered' = [entered EXCEPT !.radio = Append(@, m)]
                   /\ UNCHANGED mem
    /\ UNCHANGED <<uart, starting, radioStack, rx, hosted, sender, ackQ, acked, left>>

\* The rest of receiveTask, which no other task comes between.
ReceivedNotStored ==
    /\ "received" \in tasks
    /\ recv' = [recv EXCEPT !.locked[recv.taskWhich] = FALSE, !.pending = FALSE,
                            !.taskBuf = None]
    /\ tasks' = tasks \ {"received"}
    /\ UNCHANGED <<mem, app, radioStack, rx, hosted, sender, ackQ, given, acked, hist>>

Received ==
    /\ "received" \in tasks
    /\ recv' = [recv EXCEPT !.ptrs[recv.taskWhich] = recv.taskBuf,
                            !.locked[recv.taskWhich] = FALSE,
                            !.pending = FALSE, !.taskBuf = None]
    /\ tasks' = tasks \ {"received"}
    /\ UNCHANGED <<mem, app, radioStack, rx, hosted, sender, ackQ, given, acked, hist>>

-----------------------------------------------------------------------------
(* Sending a frame: SerialP *)

\* What RunTx sends next, for the acknowledgements q and a transmitter t.
NextFrame(q, t) ==
    IF q # <<>> THEN [t EXCEPT !.state = "sending", !.proto = "ack"]
    ELSE IF t.data = "filling" THEN [t EXCEPT !.state = "sending", !.proto = "data"]
    ELSE [t EXCEPT !.state = "idle"]

\* RunTx first finishes the frame before, sent or failed; an acknowledgement
\* that has failed is not sent again.
RunTx ==
    /\ "RunTx" \in tasks
    /\ LET over == tx.state \in {"finish", "error"}
           q == IF over /\ tx.proto = "ack" THEN Tail(ackQ) ELSE ackQ
           dataOver == over /\ tx.proto = "data"
           t == IF dataOver THEN [tx EXCEPT !.data = "available"] ELSE tx
       IN  /\ ackQ' = q
           /\ tx' = IF tx.state = "sending" THEN tx ELSE NextFrame(q, t)
           /\ sendError' = IF dataOver THEN tx.state = "error" ELSE sendError
           /\ acked' = IF tx.state = "finish" /\ tx.proto = "ack"
                       THEN acked \cup {Head(ackQ)} ELSE acked
           /\ tasks' = (tasks \ {"RunTx"})
                           \cup IF dataOver THEN {"sendDone"} ELSE {}
    /\ UNCHANGED <<mem, app, radioStack, receiver, sendBuffer, given, hist>>

\* The last putDone of a frame, or one after which a byte was not taken.
PutDone(error) ==
    /\ tx.state = "sending"
    /\ tx' = [tx EXCEPT !.state = IF error THEN "error" ELSE "finish"]
    /\ tasks' = tasks \cup {"RunTx"}
    /\ UNCHANGED <<mem, app, radioStack, receiver, sendBuffer, sendError, ackQ,
                   given, acked, hist>>

-----------------------------------------------------------------------------
Task ==
    \/ UartSendTask \/ UartSendDone \/ RadioSendTask \/ ReceiveTask \/ RunTx
    \/ RadioStartDone \/ SerialStartDone \/ RadioReceive
    \/ RadioSendDone(FALSE) \/ ("send" \in Faults /\ RadioSendDone(TRUE))

Interrupt ==
    \/ FrameStarts \/ FrameEnds \/ FrameFails
    \/ PutDone(FALSE) \/ ("tx" \in Faults /\ PutDone(TRUE))

\* While receiveTask is at its end there are only interrupts.
Next ==
    \/ Received
    \/ "received" \notin tasks /\ Task
    \/ Interrupt

Spec == Init /\ [][Next]_vars

-----------------------------------------------------------------------------
(* Safety *)

\* Every buffer has one owner: no step of the exchanges loses or doubles one.
BuffersOwnedOnce ==
    LET held(i) == IF recv.pending /\ recv.taskWhich = i THEN recv.taskBuf
                   ELSE recv.ptrs[i]
        owners == [i \in 1 .. UART_QUEUE_LEN |-> uart.buf[i - 1]]
            \o [i \in 1 .. RADIO_QUEUE_LEN |-> radio.buf[i - 1]]
            \o <<radioRx, held(0), held(1)>>
    IN  "receive" \notin tasks => IsInjective(owners)

Waiting(q) ==
    [i \in 1 .. IF q.in = q.out /\ ~q.full THEN 0
                ELSE IF q.in > q.out THEN q.in - q.out
                ELSE Length(q) + q.in - q.out
        |-> mem[q.buf[(q.out + i - 1) % Length(q)]]]

\* What has entered a queue has left it or is in it, in order and once each,
\* however often a send fails (a queue that is not open has nothing in it).
BridgedInOrder ==
    /\ entered.uart # <<>> => entered.uart = left.uart \o Waiting(uart)
    /\ entered.radio # <<>> => entered.radio = left.radio \o Waiting(radio)

\* What is acknowledged has been given to BaseStationP, or will be: the one
\* message that waits for its task is never overtaken by another.
AckedWasReceived ==
    acked \ given \subseteq IF recv.taskBuf = None THEN {} ELSE {mem[recv.taskBuf]}

\* The locks never shut the line out: a frame is refused only while another
\* waits for its task, although a failed frame leaves its buffer locked.
FrameAccepted == isCurrentBufferLocked(recv) => recv.pending

-----------------------------------------------------------------------------
(***************************************************************************)
(* Liveness.  Tasks run in the order they are posted, the radio answers    *)
(* each send and the line takes each byte, and neither fails for ever.     *)
(***************************************************************************)
Fairness ==
    /\ WF_vars(Received) /\ WF_vars(UartSendTask) /\ WF_vars(UartSendDone)
    /\ WF_vars(ReceiveTask) /\ WF_vars(RunTx)
    /\ WF_vars(RadioSendTask) /\ SF_vars(RadioSendTask /\ radioTx' # None)
    /\ WF_vars(\E error \in BOOLEAN : RadioSendDone(error))
    /\ SF_vars(RadioSendDone(FALSE))
    /\ WF_vars(\E error \in BOOLEAN : PutDone(error))
    /\ SF_vars(PutDone(FALSE) /\ tx.proto = "data")

FairSpec == Spec /\ Fairness

\* The README's guarantee: "once a message enters a queue, it will eventually
\* leave on the other interface".
EnteredLeaves ==
    /\ \A i \in 1 .. RadioMessages :
           Len(entered.uart) >= i ~> Len(left.uart) >= i
    /\ \A i \in 1 .. HostMessages :
           Len(entered.radio) >= i ~> Len(left.radio) >= i
=============================================================================
