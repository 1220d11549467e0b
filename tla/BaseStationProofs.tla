------------------------- MODULE BaseStationProofs -------------------------
(***************************************************************************)
(* The two receive buffers of SerialDispatcherP: its locks never shut the  *)
(* line out, for all lengths of the queues and all failures.               *)
(***************************************************************************)
EXTENDS BaseStation, FiniteSetTheorems, SequenceTheorems, TLAPS

(***************************************************************************)
(* A buffer waits for receiveTask exactly while the task has been posted   *)
(* or is running; it is the one that is not being received into, and no    *)
(* other than these two is locked.                                         *)
(***************************************************************************)
RecvShape ==
    /\ recv = [which |-> recv.which, locked |-> recv.locked,
               ptrs |-> recv.ptrs, pending |-> recv.pending,
               taskWhich |-> recv.taskWhich, taskBuf |-> recv.taskBuf]
    /\ recv.which \in {0, 1}
    /\ recv.locked \in [0 .. 1 -> BOOLEAN]
    /\ recv.pending \in BOOLEAN

TaskInv ==
    /\ recv.pending <=> "receive" \in tasks \/ "received" \in tasks
    /\ ~("receive" \in tasks /\ "received" \in tasks)

LockInv ==
    /\ RecvShape
    /\ TaskInv
    /\ recv.pending => recv.taskWhich = 1 - recv.which
    /\ FrameAccepted

LEMMA LockInit == Init => LockInv
BY DEF Init, LockInv, RecvShape, TaskInv, FrameAccepted, isCurrentBufferLocked

\* Actions that leave the receive buffers and their task alone.
Elsewhere ==
    /\ recv' = recv
    /\ "receive" \in tasks' <=> "receive" \in tasks
    /\ "received" \in tasks' <=> "received" \in tasks

LEMMA ElsewhereStep == LockInv /\ Elsewhere => LockInv'
BY DEF LockInv, Elsewhere, RecvShape, TaskInv, FrameAccepted, isCurrentBufferLocked

LEMMA FrameStartsStep == LockInv /\ FrameStarts => LockInv'
<1> SUFFICES ASSUME LockInv, FrameStarts PROVE LockInv'
  OBVIOUS
<1>1. tasks' = tasks
  BY DEF FrameStarts
<1>2. CASE isCurrentBufferLocked(recv)
  <2>1. Elsewhere
    BY <1>1, <1>2 DEF FrameStarts, Elsewhere
  <2> QED
    BY <2>1, ElsewhereStep
<1>3. CASE ~isCurrentBufferLocked(recv)
  <2>1. recv' = [recv EXCEPT !.locked[recv.which] = TRUE]
    BY <1>3 DEF FrameStarts
  <2>2. /\ recv'.which = recv.which /\ recv'.ptrs = recv.ptrs
        /\ recv'.pending = recv.pending /\ recv'.taskWhich = recv.taskWhich
        /\ recv'.taskBuf = recv.taskBuf
        /\ recv'.locked = [recv.locked EXCEPT ![recv.which] = TRUE]
    BY <2>1 DEF LockInv, RecvShape
  <2>3. RecvShape'
    BY <2>1, <2>2 DEF LockInv, RecvShape
  <2>4. FrameAccepted'
    BY <1>3, <2>2 DEF LockInv, RecvShape, FrameAccepted, isCurrentBufferLocked
  <2> QED
    BY <1>1, <2>2, <2>3, <2>4 DEF LockInv, TaskInv
<1> QED
  BY <1>2, <1>3

LEMMA FrameEndsStep == LockInv /\ FrameEnds => LockInv'
<1> SUFFICES ASSUME LockInv, FrameEnds PROVE LockInv'
  OBVIOUS
<1>1. CASE recv.pending
  <2>1. Elsewhere
    BY <1>1 DEF FrameEnds, EndPacket, Post, Elsewhere
  <2> QED
    BY <2>1, ElsewhereStep
<1>2. CASE ~recv.pending
  <2>1. recv' = [recv EXCEPT !.pending = TRUE, !.taskWhich = recv.which,
                             !.taskBuf = recv.ptrs[recv.which],
                             !.which = 1 - @]
    BY <1>2 DEF FrameEnds, EndPacket
  <2>2. /\ recv'.which = 1 - recv.which /\ recv'.ptrs = recv.ptrs
        /\ recv'.pending = TRUE /\ recv'.taskWhich = recv.which
        /\ recv'.locked = recv.locked
    BY <2>1 DEF LockInv, RecvShape
  <2>3. RecvShape'
    <3>1. recv'.which \in {0, 1}
      BY <2>2 DEF LockInv, RecvShape
    <3>2. recv' = [which |-> recv'.which, locked |-> recv'.locked,
                   ptrs |-> recv'.ptrs, pending |-> recv'.pending,
                   taskWhich |-> recv'.taskWhich, taskBuf |-> recv'.taskBuf]
      BY <2>1 DEF LockInv, RecvShape
    <3> QED
      BY <2>2, <3>1, <3>2 DEF LockInv, RecvShape
  <2>4. "receive" \in tasks' /\ "received" \notin tasks'
    BY <1>2 DEF FrameEnds, Post, LockInv, TaskInv
  <2>5. TaskInv'
    BY <2>2, <2>4 DEF TaskInv
  <2> QED
    BY <2>2, <2>3, <2>5 DEF LockInv, RecvShape, FrameAccepted, isCurrentBufferLocked
<1> QED
  BY <1>1, <1>2

LEMMA ReceiveTaskStep == LockInv /\ ReceiveTask => LockInv'
<1> SUFFICES ASSUME LockInv, ReceiveTask PROVE LockInv'
  OBVIOUS
<1>1. "received" \in tasks' /\ "receive" \notin tasks'
  BY DEF ReceiveTask, Post
<1>2. recv.pending
  BY DEF ReceiveTask, LockInv, TaskInv
<1>3. \/ recv' = recv
      \/ recv' = [recv EXCEPT !.taskBuf = Swapped(radio)]
  BY DEF ReceiveTask
<1>4. /\ recv'.which = recv.which /\ recv'.ptrs = recv.ptrs
      /\ recv'.pending = recv.pending /\ recv'.taskWhich = recv.taskWhich
      /\ recv'.locked = recv.locked /\ RecvShape'
  BY <1>3 DEF LockInv, RecvShape
<1> QED
  BY <1>1, <1>2, <1>4 DEF LockInv, TaskInv, FrameAccepted, isCurrentBufferLocked

LEMMA ReceivedStep == LockInv /\ Received => LockInv'
<1> SUFFICES ASSUME LockInv, Received PROVE LockInv'
  OBVIOUS
<1>1. /\ recv.pending /\ recv.taskWhich = 1 - recv.which
      /\ "receive" \notin tasks
  BY DEF Received, LockInv, TaskInv
<1>2. recv' = [recv EXCEPT !.ptrs[recv.taskWhich] = recv.taskBuf,
                           !.locked[recv.taskWhich] = FALSE,
                           !.pending = FALSE, !.taskBuf = None]
  BY DEF Received
<1>3. /\ recv'.which = recv.which /\ recv'.pending = FALSE
      /\ recv'.taskWhich = recv.taskWhich
      /\ recv'.locked = [recv.locked EXCEPT ![recv.taskWhich] = FALSE]
  BY <1>2 DEF LockInv, RecvShape
<1>4. RecvShape'
  BY <1>1, <1>2, <1>3 DEF LockInv, RecvShape
<1>5. TaskInv'
  BY <1>1, <1>3 DEF Received, TaskInv
<1>6. FrameAccepted'
  BY <1>1, <1>3 DEF LockInv, RecvShape, FrameAccepted, isCurrentBufferLocked
<1> QED
  BY <1>3, <1>4, <1>5, <1>6 DEF LockInv

LEMMA OtherTasks ==
    ASSUME UartSendTask \/ UartSendDone \/ RadioSendTask \/ RunTx
              \/ RadioStartDone \/ SerialStartDone \/ RadioReceive
              \/ (\E error \in BOOLEAN : RadioSendDone(error))
    PROVE  Elsewhere
<1>1. CASE UartSendTask
  BY <1>1 DEF UartSendTask, Elsewhere, receiver
<1>2. CASE UartSendDone
  BY <1>2 DEF UartSendDone, Elsewhere, receiver
<1>3. CASE RadioSendTask
  BY <1>3 DEF RadioSendTask, Elsewhere, receiver
<1>4. CASE RunTx
  BY <1>4 DEF RunTx, Elsewhere, receiver
<1>5. CASE RadioStartDone \/ SerialStartDone
  BY <1>5 DEF RadioStartDone, SerialStartDone, Elsewhere, receiver
<1>6. CASE RadioReceive
  BY <1>6 DEF RadioReceive, Post, Elsewhere, receiver
<1>7. CASE \E error \in BOOLEAN : RadioSendDone(error)
  BY <1>7 DEF RadioSendDone, Elsewhere, receiver
<1> QED
  BY <1>1, <1>2, <1>3, <1>4, <1>5, <1>6, <1>7

LEMMA OtherInterrupts ==
    ASSUME FrameFails \/ (\E error \in BOOLEAN : PutDone(error)) \/ UNCHANGED vars
    PROVE  Elsewhere
BY DEF FrameFails, PutDone, vars, Elsewhere, receiver

LEMMA LockStep == LockInv /\ [Next]_vars => LockInv'
<1> SUFFICES ASSUME LockInv, [Next]_vars PROVE LockInv'
  OBVIOUS
<1>1. CASE Received
  BY <1>1, ReceivedStep
<1>2. CASE Task
  BY <1>2, ReceiveTaskStep, OtherTasks, ElsewhereStep DEF Task
<1>3. CASE Interrupt
  BY <1>3, FrameStartsStep, FrameEndsStep, OtherInterrupts, ElsewhereStep
  DEF Interrupt
<1>4. CASE UNCHANGED vars
  BY <1>4, OtherInterrupts, ElsewhereStep
<1> QED
  BY <1>1, <1>2, <1>3, <1>4 DEF Next

(***************************************************************************)
(* isCurrentBufferLocked (SerialDispatcherP.nc:188) looks at the lock of   *)
(* the other buffer.  Still a frame is refused only while a message waits  *)
(* for receiveTask, even after a failed frame that unlocks nothing.        *)
(***************************************************************************)
THEOREM FrameAcceptedCorrect == Spec => []FrameAccepted
<1>1. LockInv => FrameAccepted
  BY DEF LockInv
<1> QED
  BY <1>1, LockInit, LockStep, PTL DEF Spec

(***************************************************************************)
(* The queues of BaseStationP                                              *)
(***************************************************************************)

LEMMA Wrap ==
    ASSUME NEW len \in Nat \ {0}, NEW k \in 0 .. 2 * len - 1
    PROVE  k % len = IF k < len THEN k ELSE k - len
OBVIOUS

LEMMA QueueLength ==
    ASSUME NEW len \in Nat \ {0}, NEW q \in QueueType(len)
    PROVE  Length(q) = len
<1>1. DOMAIN q.buf = 0 .. len - 1
  BY DEF QueueType
<1>2. Cardinality(0 .. len - 1) = len
  BY FS_Interval
<1> QED
  BY <1>1, <1>2 DEF Length

LEMMA AfterWraps ==
    ASSUME NEW len \in Nat \ {0}, NEW q \in QueueType(len), NEW i \in 0 .. len - 1
    PROVE  /\ After(q, i) = IF i + 1 = len THEN 0 ELSE i + 1
           /\ After(q, i) \in 0 .. len - 1
<1>1. After(q, i) = (i + 1) % len
  BY QueueLength DEF After
<1>2. PICK k \in 0 .. 2 * len - 1 : k = i + 1
  OBVIOUS
<1>3. k % len = IF k < len THEN k ELSE k - len
  BY Wrap
<1>4. After(q, i) = IF i + 1 = len THEN 0 ELSE i + 1
  <2>1. After(q, i) = k % len
    BY <1>1, <1>2
  <2>2. (k < len <=> i + 1 # len) /\ (i + 1 = len => k - len = 0)
    BY <1>2
  <2> QED
    BY <1>2, <1>3, <2>1, <2>2
<1> QED
  BY <1>4

\* A buffer that enters takes the place of the free one at in.
LEMMA EnqueuedFields ==
    ASSUME NEW len \in Nat \ {0}, NEW q \in QueueType(len), NEW b \in Buffers
    PROVE  /\ Enqueued(q, b) \in QueueType(len)
           /\ Enqueued(q, b).buf = [q.buf EXCEPT ![q.in] = b]
           /\ Enqueued(q, b).in = IF q.in + 1 = len THEN 0 ELSE q.in + 1
           /\ Enqueued(q, b).out = q.out
           /\ Enqueued(q, b).full = (Enqueued(q, b).in = q.out)
           /\ Swapped(q) = q.buf[q.in] /\ Swapped(q) \in Buffers
           /\ q.in \in 0 .. len - 1 /\ q.out \in 0 .. len - 1
<1>1. /\ q.in \in 0 .. len - 1 /\ q.out \in 0 .. len - 1
      /\ q.buf \in [0 .. len - 1 -> Buffers]
  BY DEF QueueType
<1>2. PICK n : n = After(q, q.in)
  OBVIOUS
<1>3. n \in 0 .. len - 1 /\ n = IF q.in + 1 = len THEN 0 ELSE q.in + 1
  BY <1>1, <1>2, AfterWraps
<1>4. Enqueued(q, b) = [q EXCEPT !.buf[q.in] = b, !.in = n, !.busy = TRUE,
                                 !.full = n = q.out]
  BY <1>2 DEF Enqueued, QueueType
<1>5. [q.buf EXCEPT ![q.in] = b] \in [0 .. len - 1 -> Buffers]
  BY <1>1
<1>6. /\ Enqueued(q, b).buf = [q.buf EXCEPT ![q.in] = b]
      /\ Enqueued(q, b).in = n /\ Enqueued(q, b).out = q.out
      /\ Enqueued(q, b).full = (n = q.out)
  BY <1>4 DEF QueueType
<1>7. Enqueued(q, b) \in QueueType(len)
  BY <1>1, <1>3, <1>4, <1>5 DEF QueueType
<1>8. Swapped(q) = q.buf[q.in] /\ q.buf[q.in] \in Buffers
  BY <1>1 DEF Swapped
<1> QED
  BY <1>1, <1>3, <1>6, <1>7, <1>8

LEMMA DequeuedFields ==
    ASSUME NEW len \in Nat \ {0}, NEW q \in QueueType(len)
    PROVE  /\ Dequeued(q) \in QueueType(len)
           /\ Dequeued(q).buf = q.buf /\ Dequeued(q).in = q.in
           /\ Dequeued(q).out = IF q.out + 1 = len THEN 0 ELSE q.out + 1
           /\ Dequeued(q).full = FALSE
           /\ q.in \in 0 .. len - 1 /\ q.out \in 0 .. len - 1
<1>1. q.in \in 0 .. len - 1 /\ q.out \in 0 .. len - 1
  BY DEF QueueType
<1>2. PICK n : n = After(q, q.out)
  OBVIOUS
<1>3. n \in 0 .. len - 1 /\ n = IF q.out + 1 = len THEN 0 ELSE q.out + 1
  BY <1>1, <1>2, AfterWraps
<1>4. Dequeued(q) = [q EXCEPT !.out = n, !.full = FALSE]
  BY <1>2 DEF Dequeued, QueueType
<1> QED
  BY <1>1, <1>3, <1>4 DEF QueueType

\* Opening a queue or telling that it is idle leaves what is in it.
LEMMA FlagFields ==
    ASSUME NEW len, NEW q \in QueueType(len), NEW r,
           r = [q EXCEPT !.full = FALSE] \/ r = [q EXCEPT !.busy = FALSE]
    PROVE  /\ r \in QueueType(len)
           /\ r.buf = q.buf /\ r.in = q.in /\ r.out = q.out
           /\ r.full \in {q.full, FALSE}
BY DEF QueueType

(***************************************************************************)
(* The types of what is on the board                                       *)
(***************************************************************************)

\* TypeOK without given, entered and left, whose types depend on who owns the
\* buffers.
BoardType ==
    /\ mem \in [Buffers -> {None} \cup FromHost \cup FromRadio]
    /\ uart \in QueueType(UART_QUEUE_LEN) /\ radio \in QueueType(RADIO_QUEUE_LEN)
    /\ tasks \subseteq Tasks
    /\ starting \subseteq {"radio", "serial"}
    /\ radioRx \in Buffers /\ radioTx \in Buffers \cup {None}
    /\ rx \in FromHost \cup {None}
    /\ recv \in [which : 0 .. 1, locked : [0 .. 1 -> BOOLEAN],
                 ptrs : [0 .. 1 -> Buffers], pending : BOOLEAN,
                 taskWhich : 0 .. 1, taskBuf : Buffers \cup {None}]
    /\ sendBuffer \in Buffers \cup {None} /\ sendError \in BOOLEAN
    /\ tx \in [state : {"idle", "sending", "finish", "error"},
               proto : {"ack", "data"}, data : {"available", "filling"}]
    /\ ackQ \in Seq(FromHost) /\ Len(ackQ) <= ACK_QUEUE_SIZE
    /\ hosted \in 0 .. HostMessages /\ heard \in 0 .. RadioMessages
    /\ acked \subseteq FromHost

\* A frame comes in only while no message waits for receiveTask: the lock of
\* the buffer that waits refuses it.  What is being acknowledged is in ackQ.
BoardInv ==
    /\ BoardType
    /\ tx.state # "idle" /\ tx.proto = "ack" => ackQ # <<>>
    /\ recv.pending <=> recv.taskBuf # None
    /\ recv.pending <=> "receive" \in tasks \/ "received" \in tasks
    /\ ~("receive" \in tasks /\ "received" \in tasks)
    /\ recv.pending => /\ rx = None
                       /\ recv.locked[1 - recv.which]
                       /\ recv.taskWhich = 1 - recv.which
    /\ rx # None => recv.locked[recv.which]

LEMMA Lengths ==
    /\ UART_QUEUE_LEN \in Nat \ {0} /\ RADIO_QUEUE_LEN \in Nat \ {0}
    /\ UART_QUEUE_LEN + RADIO_QUEUE_LEN \in Nat
    /\ None \notin Buffers /\ None \notin FromHost
    /\ Buffers \subseteq Nat
BY LengthsAssumption, MessagesAssumption DEF None, Buffers, FromHost

LEMMA QueueOfType ==
    ASSUME NEW len \in Nat \ {0}, NEW first,
           \A i \in 0 .. len - 1 : first + i \in Buffers
    PROVE  Queue(len, first) \in QueueType(len)
<1>1. 0 \in 0 .. len - 1
  OBVIOUS
<1>2. [i \in 0 .. len - 1 |-> first + i] \in [0 .. len - 1 -> Buffers]
  OBVIOUS
<1> QED
  BY <1>1, <1>2 DEF Queue, QueueType

LEMMA InitBoard == Init => BoardInv
<1> SUFFICES ASSUME Init PROVE BoardInv
  OBVIOUS
<1>1. mem \in [Buffers -> {None} \cup FromHost \cup FromRadio]
  BY DEF Init
<1>2. uart \in QueueType(UART_QUEUE_LEN)
  <2>1. \A i \in 0 .. UART_QUEUE_LEN - 1 : 1 + i \in Buffers
    BY Lengths DEF Buffers
  <2> QED
    BY <2>1, Lengths, QueueOfType DEF Init
<1>3. radio \in QueueType(RADIO_QUEUE_LEN)
  <2>1. \A i \in 0 .. RADIO_QUEUE_LEN - 1 : UART_QUEUE_LEN + 1 + i \in Buffers
    BY Lengths DEF Buffers
  <2> QED
    BY <2>1, Lengths, QueueOfType DEF Init
<1>4. radioRx \in Buffers
  BY Lengths DEF Init, Buffers
<1>5. recv \in [which : 0 .. 1, locked : [0 .. 1 -> BOOLEAN],
                ptrs : [0 .. 1 -> Buffers], pending : BOOLEAN,
                taskWhich : 0 .. 1, taskBuf : Buffers \cup {None}]
  <2>1. \A i \in 0 .. 1 : UART_QUEUE_LEN + RADIO_QUEUE_LEN + 2 + i \in Buffers
    BY Lengths DEF Buffers
  <2> QED
    BY <2>1 DEF Init
<1>6. tx \in [state : {"idle", "sending", "finish", "error"},
              proto : {"ack", "data"}, data : {"available", "filling"}]
  BY DEF Init
<1>7. ackQ \in Seq(FromHost) /\ Len(ackQ) <= ACK_QUEUE_SIZE
  BY LengthsAssumption DEF Init
<1>8. hosted \in 0 .. HostMessages /\ heard \in 0 .. RadioMessages
  BY MessagesAssumption DEF Init
<1>9. BoardType
  BY <1>1, <1>2, <1>3, <1>4, <1>5, <1>6, <1>7, <1>8 DEF Init, BoardType
<1> QED
  BY <1>9 DEF Init, BoardInv

\* Steps that leave the receive buffers and the line alone.
LEMMA BoardElsewhere ==
    ASSUME BoardInv, BoardType', Elsewhere, UNCHANGED rx,
           tx'.state # "idle" /\ tx'.proto = "ack" => ackQ' # <<>>
    PROVE  BoardInv'
BY DEF BoardInv, Elsewhere

LEMMA StartDoneBoard ==
    ASSUME BoardInv, RadioStartDone \/ SerialStartDone
    PROVE  BoardInv'
<1> USE DEF BoardInv
<1>1. Elsewhere
  BY OtherTasks
<1>2. /\ UNCHANGED <<mem, tasks, radioStack, receiver, sender, ackQ, acked>>
      /\ starting' \subseteq starting
      /\ uart' = uart \/ uart' = [uart EXCEPT !.full = FALSE]
      /\ radio' = radio \/ radio' = [radio EXCEPT !.full = FALSE]
  BY DEF RadioStartDone, SerialStartDone
<1>3. uart' \in QueueType(UART_QUEUE_LEN) /\ radio' \in QueueType(RADIO_QUEUE_LEN)
  <2>1. uart' = uart \/ uart' \in QueueType(UART_QUEUE_LEN)
    BY <1>2, FlagFields, Lengths DEF BoardType
  <2>2. radio' = radio \/ radio' \in QueueType(RADIO_QUEUE_LEN)
    BY <1>2, FlagFields, Lengths DEF BoardType
  <2> QED
    BY <2>1, <2>2 DEF BoardType
<1>4. BoardType'
  BY <1>2, <1>3 DEF BoardType, radioStack, receiver, sender
<1> QED
  BY <1>1, <1>2, <1>4, BoardElsewhere DEF receiver, sender

LEMMA RadioReceiveBoard ==
    ASSUME BoardInv, RadioReceive
    PROVE  BoardInv'
<1> USE DEF BoardInv
<1>1. Elsewhere
  BY OtherTasks
<1>2. /\ UNCHANGED <<radio, starting, radioTx, receiver, sender, ackQ, acked>>
      /\ heard < RadioMessages /\ heard' = heard + 1
  BY DEF RadioReceive
<1>3. heard' \in 0 .. RadioMessages /\ HostMessages + heard + 1 \in FromRadio
  BY <1>2, MessagesAssumption DEF BoardType, FromRadio
<1>4. CASE uart.full
  <2>1. UNCHANGED <<mem, uart, tasks, radioRx>>
    BY <1>4 DEF RadioReceive
  <2>2. BoardType'
    BY <1>2, <1>3, <2>1 DEF BoardType, receiver, sender
  <2> QED
    BY <1>1, <1>2, <2>2, BoardElsewhere DEF receiver, sender
<1>5. CASE ~ uart.full
  <2>1. /\ mem' = [mem EXCEPT ![radioRx] = HostMessages + heard + 1]
        /\ uart' = Enqueued(uart, radioRx) /\ radioRx' = Swapped(uart)
        /\ tasks' = tasks \cup Post(uart.busy, "uartSend")
    BY <1>5 DEF RadioReceive
  <2>2. uart' \in QueueType(UART_QUEUE_LEN) /\ radioRx' \in Buffers
    BY <2>1, EnqueuedFields, Lengths DEF BoardType
  <2>3. mem' \in [Buffers -> {None} \cup FromHost \cup FromRadio]
    BY <1>3, <2>1 DEF BoardType
  <2>4. tasks' \subseteq Tasks
    BY <2>1 DEF BoardType, Tasks, Post
  <2>5. BoardType'
    BY <1>2, <1>3, <2>2, <2>3, <2>4 DEF BoardType, receiver, sender
  <2> QED
    BY <1>1, <1>2, <2>5, BoardElsewhere DEF receiver, sender
<1> QED
  BY <1>4, <1>5

LEMMA UartSendTaskBoard ==
    ASSUME BoardInv, UartSendTask
    PROVE  BoardInv'
<1> USE DEF BoardInv
<1>1. Elsewhere
  BY OtherTasks
<1>2. /\ UNCHANGED <<mem, radio, starting, radioStack, receiver, ackQ, acked>>
      /\ tasks' \subseteq tasks \cup {"RunTx"}
      /\ uart' = uart \/ uart' = [uart EXCEPT !.busy = FALSE]
  BY DEF UartSendTask
<1>3. uart' \in QueueType(UART_QUEUE_LEN) /\ uart.buf[uart.out] \in Buffers
  <2>1. uart' = uart \/ uart' \in QueueType(UART_QUEUE_LEN)
    BY <1>2, FlagFields, Lengths DEF BoardType
  <2> QED
    BY <2>1 DEF BoardType, QueueType
<1>4. \/ UNCHANGED sender
      \/ /\ sendBuffer' = uart.buf[uart.out] /\ sendError' = FALSE
         /\ tx' = [tx EXCEPT !.data = "filling"]
  BY DEF UartSendTask
<1>5. /\ sendBuffer' \in Buffers \cup {None} /\ sendError' \in BOOLEAN
      /\ tx' \in [state : {"idle", "sending", "finish", "error"},
                  proto : {"ack", "data"}, data : {"available", "filling"}]
      /\ tx'.state = tx.state /\ tx'.proto = tx.proto
  BY <1>3, <1>4 DEF BoardType, sender
<1>6. tasks' \subseteq Tasks
  BY <1>2 DEF BoardType, Tasks
<1>7. BoardType'
  BY <1>2, <1>3, <1>5, <1>6 DEF BoardType, radioStack, receiver
<1> QED
  BY <1>1, <1>2, <1>5, <1>7, BoardElsewhere DEF receiver

LEMMA UartSendDoneBoard ==
    ASSUME BoardInv, UartSendDone
    PROVE  BoardInv'
<1> USE DEF BoardInv
<1>1. Elsewhere
  BY OtherTasks
<1>2. /\ UNCHANGED <<radio, starting, radioStack, receiver, sendError, tx, ackQ, acked>>
      /\ sendBuffer' = None
      /\ tasks' = (tasks \ {"sendDone"}) \cup {"uartSend"}
      /\ \/ UNCHANGED <<mem, uart>>
         \/ uart' = Dequeued(uart) /\ mem' = [mem EXCEPT ![sendBuffer] = None]
  BY DEF UartSendDone
<1>3. Dequeued(uart) \in QueueType(UART_QUEUE_LEN)
  BY DequeuedFields, Lengths DEF BoardType
<1>4. /\ uart' \in QueueType(UART_QUEUE_LEN)
      /\ mem' \in [Buffers -> {None} \cup FromHost \cup FromRadio]
  BY <1>2, <1>3 DEF BoardType
<1>5. tasks' \subseteq Tasks
  BY <1>2 DEF BoardType, Tasks
<1>6. BoardType'
  BY <1>2, <1>4, <1>5 DEF BoardType, radioStack, receiver
<1> QED
  BY <1>1, <1>2, <1>6, BoardElsewhere DEF receiver

LEMMA RadioSendTaskBoard ==
    ASSUME BoardInv, RadioSendTask
    PROVE  BoardInv'
<1> USE DEF BoardInv
<1>1. Elsewhere
  BY OtherTasks
<1>2. /\ UNCHANGED <<mem, uart, starting, radioRx, heard, receiver, sender, ackQ, acked>>
      /\ tasks' \subseteq tasks
      /\ radio' = radio \/ radio' = [radio EXCEPT !.busy = FALSE]
      /\ radioTx' = radioTx \/ radioTx' = radio.buf[radio.out]
  BY DEF RadioSendTask
<1>3. radio' \in QueueType(RADIO_QUEUE_LEN) /\ radio.buf[radio.out] \in Buffers
  <2>1. radio' = radio \/ radio' \in QueueType(RADIO_QUEUE_LEN)
    BY <1>2, FlagFields, Lengths DEF BoardType
  <2> QED
    BY <2>1 DEF BoardType, QueueType
<1>4. radioTx' \in Buffers \cup {None}
  BY <1>2, <1>3 DEF BoardType
<1>5. BoardType'
  BY <1>2, <1>3, <1>4 DEF BoardType, receiver, sender
<1> QED
  BY <1>1, <1>2, <1>5, BoardElsewhere DEF receiver, sender

LEMMA RadioSendDoneBoard ==
    ASSUME BoardInv, NEW error \in BOOLEAN, RadioSendDone(error)
    PROVE  BoardInv'
<1> USE DEF BoardInv
<1>1. Elsewhere
  BY OtherTasks
<1>2. /\ UNCHANGED <<uart, starting, radioRx, heard, receiver, sender, ackQ, acked>>
      /\ radioTx' = None
      /\ tasks' = tasks \cup {"radioSend"}
      /\ \/ UNCHANGED <<mem, radio>>
         \/ radio' = Dequeued(radio) /\ mem' = [mem EXCEPT ![radioTx] = None]
  BY DEF RadioSendDone
<1>3. Dequeued(radio) \in QueueType(RADIO_QUEUE_LEN)
  BY DequeuedFields, Lengths DEF BoardType
<1>4. /\ radio' \in QueueType(RADIO_QUEUE_LEN)
      /\ mem' \in [Buffers -> {None} \cup FromHost \cup FromRadio]
  BY <1>2, <1>3 DEF BoardType
<1>5. tasks' \subseteq Tasks
  BY <1>2 DEF BoardType, Tasks
<1>6. BoardType'
  BY <1>2, <1>4, <1>5 DEF BoardType, receiver, sender
<1> QED
  BY <1>1, <1>2, <1>6, BoardElsewhere DEF receiver, sender

LEMMA FrameStartsBoard ==
    ASSUME BoardInv, FrameStarts
    PROVE  BoardInv'
<1> USE DEF BoardInv
<1>1. /\ UNCHANGED <<mem, app, tasks, radioStack, sender, ackQ, acked>>
      /\ hosted < HostMessages /\ hosted' = hosted + 1 /\ rx = None
  BY DEF FrameStarts
<1>2. hosted' \in 0 .. HostMessages /\ hosted + 1 \in FromHost
  BY <1>1, MessagesAssumption DEF BoardType, FromHost
<1>3. CASE UNCHANGED <<rx, recv>>
  <2>1. BoardType'
    BY <1>1, <1>2, <1>3 DEF BoardType, app, radioStack, sender
  <2> QED
    BY <1>1, <1>3, <2>1 DEF sender
<1>4. CASE /\ ~ isCurrentBufferLocked(recv) /\ rx' = hosted + 1
           /\ recv' = [recv EXCEPT !.locked[recv.which] = TRUE]
  <2>1. recv.which \in 0 .. 1 /\ recv.locked \in [0 .. 1 -> BOOLEAN]
    BY DEF BoardType
  <2>2. /\ recv' \in [which : 0 .. 1, locked : [0 .. 1 -> BOOLEAN],
                      ptrs : [0 .. 1 -> Buffers], pending : BOOLEAN,
                      taskWhich : 0 .. 1, taskBuf : Buffers \cup {None}]
        /\ recv'.locked = [recv.locked EXCEPT ![recv.which] = TRUE]
        /\ recv'.which = recv.which /\ recv'.pending = recv.pending
        /\ recv'.taskBuf = recv.taskBuf /\ recv'.taskWhich = recv.taskWhich
    BY <1>4, <2>1 DEF BoardType
  <2>3. ~ recv.pending
    BY <1>4 DEF isCurrentBufferLocked
  <2>4. BoardType'
    BY <1>1, <1>2, <1>4, <2>2 DEF BoardType, app, radioStack, sender
  <2> QED
    BY <1>1, <2>1, <2>2, <2>3, <2>4 DEF sender
<1> QED
  BY <1>3, <1>4 DEF FrameStarts

\* The frame that ends is the one buffer's for which no task is posted.
LEMMA FrameEndsFields ==
    ASSUME BoardInv, FrameEnds
    PROVE  /\ ~ recv.pending /\ recv.taskBuf = None
           /\ "receive" \notin tasks /\ "received" \notin tasks
           /\ rx \in FromHost /\ rx' = None
           /\ recv.which \in 0 .. 1 /\ recv.ptrs[recv.which] \in Buffers
           /\ recv' \in [which : 0 .. 1, locked : [0 .. 1 -> BOOLEAN],
                         ptrs : [0 .. 1 -> Buffers], pending : BOOLEAN,
                         taskWhich : 0 .. 1, taskBuf : Buffers \cup {None}]
           /\ recv'.pending = TRUE /\ recv'.taskWhich = recv.which
           /\ recv'.taskBuf = recv.ptrs[recv.which]
           /\ recv'.which = 1 - recv.which
           /\ recv'.ptrs = recv.ptrs /\ recv'.locked = recv.locked
           /\ mem' = [mem EXCEPT ![recv.ptrs[recv.which]] = rx]
           /\ "receive" \in tasks' /\ "received" \notin tasks'
           /\ tasks' \subseteq tasks \cup {"receive", "RunTx"}
<1> USE DEF BoardInv
<1>1. rx # None /\ rx' = None /\ rx \in FromHost
  BY DEF FrameEnds, BoardType
<1>2. ~ recv.pending
  BY <1>1
<1>3. recv' = [recv EXCEPT !.pending = TRUE, !.taskWhich = recv.which,
                           !.taskBuf = recv.ptrs[recv.which], !.which = 1 - @]
      /\ mem' = [mem EXCEPT ![recv.ptrs[recv.which]] = rx]
  BY <1>2 DEF FrameEnds, EndPacket
<1>4. /\ recv.which \in 0 .. 1 /\ recv.ptrs[recv.which] \in Buffers
      /\ 1 - recv.which \in 0 .. 1
  BY DEF BoardType
<1>5. /\ recv' \in [which : 0 .. 1, locked : [0 .. 1 -> BOOLEAN],
                    ptrs : [0 .. 1 -> Buffers], pending : BOOLEAN,
                    taskWhich : 0 .. 1, taskBuf : Buffers \cup {None}]
      /\ recv'.pending = TRUE /\ recv'.taskWhich = recv.which
      /\ recv'.taskBuf = recv.ptrs[recv.which]
      /\ recv'.which = 1 - recv.which
      /\ recv'.ptrs = recv.ptrs /\ recv'.locked = recv.locked
  <2>1. PICK i \in 0 .. 1, b \in Buffers : i = recv.which /\ b = recv.ptrs[recv.which]
    BY <1>4
  <2>2. recv' = [recv EXCEPT !.pending = TRUE, !.taskWhich = i, !.taskBuf = b,
                             !.which = 1 - i]
    BY <1>3, <2>1 DEF BoardType
  <2>3. 1 - i \in 0 .. 1
    BY <1>4, <2>1
  <2> QED
    BY <2>1, <2>2, <2>3 DEF BoardType
<1>6. /\ "receive" \in tasks' /\ "received" \notin tasks'
      /\ tasks' \subseteq tasks \cup {"receive", "RunTx"}
  BY <1>2 DEF FrameEnds, Post
<1> QED
  BY <1>1, <1>2, <1>3, <1>4, <1>5, <1>6

LEMMA FrameEndsBoard ==
    ASSUME BoardInv, FrameEnds
    PROVE  BoardInv'
<1> USE DEF BoardInv
<1>1. UNCHANGED <<app, radioStack, hosted, sender, acked>>
  BY DEF FrameEnds
<1>2. mem' \in [Buffers -> {None} \cup FromHost \cup FromRadio]
  <2>1. rx \in FromHost /\ mem' = [mem EXCEPT ![recv.ptrs[recv.which]] = rx]
    BY FrameEndsFields
  <2> QED
    BY <2>1 DEF BoardType
<1>3. ackQ' \in Seq(FromHost) /\ Len(ackQ') <= ACK_QUEUE_SIZE
      /\ (ackQ # <<>> => ackQ' # <<>>)
  <2>1. CASE Len(ackQ) < ACK_QUEUE_SIZE
    <3>1. ackQ' = Append(ackQ, rx) /\ rx \in FromHost
      BY <2>1, FrameEndsFields DEF FrameEnds
    <3>2. Len(ackQ') = Len(ackQ) + 1 /\ Len(ackQ) \in Nat /\ ackQ' \in Seq(FromHost)
      BY <3>1, AppendProperties, LenProperties DEF BoardType
    <3>3. ackQ' # <<>>
      BY <3>1, AppendProperties DEF BoardType
    <3> QED
      BY <2>1, <3>2, <3>3, LengthsAssumption
  <2>2. CASE ~ (Len(ackQ) < ACK_QUEUE_SIZE)
    BY <2>2 DEF FrameEnds, BoardType
  <2> QED
    BY <2>1, <2>2
<1>4. tasks' \subseteq Tasks
  BY FrameEndsFields DEF BoardType, Tasks
<1>5. BoardType'
  BY <1>1, <1>2, <1>3, <1>4, FrameEndsFields DEF BoardType, app, radioStack, sender
<1>6. recv'.taskBuf # None
  BY FrameEndsFields, Lengths
<1>7. recv'.locked[1 - recv'.which] /\ recv'.taskWhich = 1 - recv'.which
  <2>1. rx # None /\ recv.which \in 0 .. 1
    BY FrameEndsFields, Lengths
  <2>2. 1 - (1 - recv.which) = recv.which
    BY <2>1
  <2> QED
    BY <2>1, <2>2, FrameEndsFields
<1> QED
  BY <1>1, <1>3, <1>5, <1>6, <1>7, FrameEndsFields DEF sender

LEMMA FrameFailsBoard ==
    ASSUME BoardInv, FrameFails
    PROVE  BoardInv'
BY DEF FrameFails, BoardInv, BoardType, app, radioStack, sender

\* The task finds the message that it was posted for, and keeps a buffer.
LEMMA ReceiveTaskFields ==
    ASSUME BoardInv, ReceiveTask
    PROVE  /\ recv.pending /\ recv.taskBuf \in Buffers
           /\ recv.taskWhich = 1 - recv.which /\ recv.which \in 0 .. 1
           /\ given' = given \cup {mem[recv.taskBuf]}
           /\ "receive" \notin tasks' /\ "received" \in tasks'
           /\ tasks' \subseteq tasks \cup {"received", "radioSend"}
           /\ recv'.pending = recv.pending /\ recv'.taskWhich = recv.taskWhich
           /\ recv'.which = recv.which /\ recv'.ptrs = recv.ptrs
           /\ recv'.locked = recv.locked /\ recv'.taskBuf \in Buffers
           /\ \/ /\ radio.full /\ mem' = [mem EXCEPT ![recv.taskBuf] = None]
                 /\ UNCHANGED <<radio, recv, entered>>
              \/ /\ ~ radio.full /\ radio' = Enqueued(radio, recv.taskBuf)
                 /\ recv'.taskBuf = Swapped(radio)
                 /\ entered' = [entered EXCEPT !.radio = Append(@, mem[recv.taskBuf])]
                 /\ UNCHANGED mem
<1> USE DEF BoardInv
<1>1. /\ recv.pending /\ recv.taskBuf \in Buffers
      /\ recv.taskWhich = 1 - recv.which /\ recv.which \in 0 .. 1
  BY DEF ReceiveTask, BoardType
<1>2. given' = given \cup {mem[recv.taskBuf]}
  BY DEF ReceiveTask
<1>3. /\ "receive" \notin tasks' /\ "received" \in tasks'
      /\ tasks' \subseteq tasks \cup {"received", "radioSend"}
  BY DEF ReceiveTask, Post
<1>4. CASE radio.full
  BY <1>1, <1>2, <1>3, <1>4 DEF ReceiveTask
<1>5. CASE ~ radio.full
  <2>1. /\ radio' = Enqueued(radio, recv.taskBuf)
        /\ recv' = [recv EXCEPT !.taskBuf = Swapped(radio)]
        /\ entered' = [entered EXCEPT !.radio = Append(@, mem[recv.taskBuf])]
        /\ UNCHANGED mem
    BY <1>5 DEF ReceiveTask
  <2>2. Swapped(radio) \in Buffers
    BY <1>1, EnqueuedFields, Lengths DEF BoardType
  <2>3. /\ recv'.pending = recv.pending /\ recv'.taskWhich = recv.taskWhich
        /\ recv'.which = recv.which /\ recv'.ptrs = recv.ptrs
        /\ recv'.locked = recv.locked /\ recv'.taskBuf = Swapped(radio)
    BY <2>1 DEF BoardType
  <2> QED
    BY <1>1, <1>2, <1>3, <1>5, <2>1, <2>2, <2>3
<1> QED
  BY <1>4, <1>5

LEMMA ReceiveTaskBoard ==
    ASSUME BoardInv, ReceiveTask
    PROVE  BoardInv'
<1> USE DEF BoardInv
<1>1. UNCHANGED <<uart, starting, radioStack, rx, hosted, sender, ackQ, acked>>
  BY DEF ReceiveTask
<1>2. radio' \in QueueType(RADIO_QUEUE_LEN)
  <2>1. Enqueued(radio, recv.taskBuf) \in QueueType(RADIO_QUEUE_LEN)
    BY ReceiveTaskFields, EnqueuedFields, Lengths DEF BoardType
  <2>2. radio' = radio \/ radio' = Enqueued(radio, recv.taskBuf)
    BY ReceiveTaskFields
  <2> QED
    BY <2>1, <2>2 DEF BoardType
<1>3. mem' \in [Buffers -> {None} \cup FromHost \cup FromRadio]
  BY ReceiveTaskFields DEF BoardType
<1>4. recv' \in [which : 0 .. 1, locked : [0 .. 1 -> BOOLEAN],
                 ptrs : [0 .. 1 -> Buffers], pending : BOOLEAN,
                 taskWhich : 0 .. 1, taskBuf : Buffers \cup {None}]
  <2>1. recv' = recv \/ recv' = [recv EXCEPT !.taskBuf = Swapped(radio)]
    BY DEF ReceiveTask
  <2>2. Swapped(radio) \in Buffers
    BY ReceiveTaskFields, EnqueuedFields, Lengths DEF BoardType
  <2> QED
    BY <2>1, <2>2 DEF BoardType
<1>5. tasks' \subseteq Tasks
  BY ReceiveTaskFields DEF BoardType, Tasks
<1>6. BoardType'
  BY <1>1, <1>2, <1>3, <1>4, <1>5 DEF BoardType, radioStack, sender
<1>7. recv'.taskBuf # None
  BY ReceiveTaskFields, Lengths
<1> QED
  BY <1>1, <1>6, <1>7, ReceiveTaskFields DEF sender

LEMMA ReceivedFields ==
    ASSUME BoardInv, Received
    PROVE  /\ recv.pending /\ recv.taskBuf \in Buffers
           /\ recv.taskWhich = 1 - recv.which /\ recv.which \in 0 .. 1
           /\ "receive" \notin tasks /\ "receive" \notin tasks'
           /\ "received" \notin tasks'
           /\ recv' \in [which : 0 .. 1, locked : [0 .. 1 -> BOOLEAN],
                         ptrs : [0 .. 1 -> Buffers], pending : BOOLEAN,
                         taskWhich : 0 .. 1, taskBuf : Buffers \cup {None}]
           /\ recv'.pending = FALSE /\ recv'.taskBuf = None
           /\ recv'.taskWhich = recv.taskWhich /\ recv'.which = recv.which
           /\ recv'.locked = [recv.locked EXCEPT ![recv.taskWhich] = FALSE]
           /\ recv'.ptrs = [recv.ptrs EXCEPT ![recv.taskWhich] = recv.taskBuf]
<1> USE DEF BoardInv
<1>1. /\ recv.pending /\ recv.taskBuf \in Buffers
      /\ recv.taskWhich = 1 - recv.which /\ recv.which \in 0 .. 1
  BY DEF Received, BoardType
<1>2. "receive" \notin tasks /\ "receive" \notin tasks' /\ "received" \notin tasks'
  BY DEF Received
<1>3. recv' = [recv EXCEPT !.ptrs[recv.taskWhich] = recv.taskBuf,
                           !.locked[recv.taskWhich] = FALSE,
                           !.pending = FALSE, !.taskBuf = None]
  BY DEF Received
<1>4. /\ recv'.pending = FALSE /\ recv'.taskBuf = None
      /\ recv'.taskWhich = recv.taskWhich /\ recv'.which = recv.which
      /\ recv'.locked = [recv.locked EXCEPT ![recv.taskWhich] = FALSE]
      /\ recv'.ptrs = [recv.ptrs EXCEPT ![recv.taskWhich] = recv.taskBuf]
  BY <1>3 DEF BoardType
<1>5. /\ [recv.locked EXCEPT ![recv.taskWhich] = FALSE] \in [0 .. 1 -> BOOLEAN]
      /\ [recv.ptrs EXCEPT ![recv.taskWhich] = recv.taskBuf] \in [0 .. 1 -> Buffers]
  BY <1>1 DEF BoardType
<1>6. recv' \in [which : 0 .. 1, locked : [0 .. 1 -> BOOLEAN],
                 ptrs : [0 .. 1 -> Buffers], pending : BOOLEAN,
                 taskWhich : 0 .. 1, taskBuf : Buffers \cup {None}]
  BY <1>3, <1>5 DEF BoardType
<1> QED
  BY <1>1, <1>2, <1>4, <1>6

LEMMA ReceivedBoard ==
    ASSUME BoardInv, Received
    PROVE  BoardInv'
<1> USE DEF BoardInv
<1>1. /\ UNCHANGED <<mem, app, radioStack, rx, hosted, sender, ackQ, acked>>
      /\ tasks' = tasks \ {"received"}
  BY DEF Received
<1>2. rx = None
  BY ReceivedFields
<1>3. BoardType'
  BY <1>1, ReceivedFields DEF BoardType, app, radioStack, sender
<1> QED
  BY <1>1, <1>2, <1>3, ReceivedFields DEF sender

LEMMA RunTxBoard ==
    ASSUME BoardInv, RunTx
    PROVE  BoardInv'
<1> USE DEF BoardInv
<1>1. Elsewhere
  BY OtherTasks
<1>2. UNCHANGED <<mem, app, radioStack, receiver, sendBuffer>>
  BY DEF RunTx
<1> DEFINE over == tx.state \in {"finish", "error"}
<1>3. over /\ tx.proto = "ack" => /\ ackQ # <<>>
                                  /\ Head(ackQ) \in FromHost
                                  /\ Tail(ackQ) \in Seq(FromHost)
                                  /\ Len(Tail(ackQ)) <= ACK_QUEUE_SIZE
  <2> SUFFICES ASSUME over /\ tx.proto = "ack"
               PROVE  /\ ackQ # <<>>
                      /\ Head(ackQ) \in FromHost
                      /\ Tail(ackQ) \in Seq(FromHost)
                      /\ Len(Tail(ackQ)) <= ACK_QUEUE_SIZE
    OBVIOUS
  <2>1. ackQ # <<>> /\ ackQ \in Seq(FromHost) /\ Len(ackQ) <= ACK_QUEUE_SIZE
    BY DEF BoardType
  <2>2. /\ Head(ackQ) \in FromHost /\ Tail(ackQ) \in Seq(FromHost)
        /\ Len(Tail(ackQ)) = Len(ackQ) - 1 /\ Len(ackQ) \in Nat
    BY <2>1, HeadTailProperties, LenProperties
  <2> QED
    BY <2>1, <2>2, LengthsAssumption
<1>4. /\ ackQ' = IF over /\ tx.proto = "ack" THEN Tail(ackQ) ELSE ackQ
      /\ acked' \subseteq acked \cup (IF over /\ tx.proto = "ack" THEN {Head(ackQ)} ELSE {})
  BY DEF RunTx
<1>5. ackQ' \in Seq(FromHost) /\ Len(ackQ') <= ACK_QUEUE_SIZE /\ acked' \subseteq FromHost
  BY <1>3, <1>4 DEF BoardType
<1>6. sendError' \in BOOLEAN /\ tasks' \subseteq Tasks
  BY DEF RunTx, BoardType, Tasks
<1>7. PICK t : /\ t = tx \/ t = [tx EXCEPT !.data = "available"]
               /\ tx' = IF tx.state = "sending" THEN tx ELSE NextFrame(ackQ', t)
  BY DEF RunTx
<1>8. /\ tx' \in [state : {"idle", "sending", "finish", "error"},
                  proto : {"ack", "data"}, data : {"available", "filling"}]
      /\ tx'.state # "idle" /\ tx'.proto = "ack" => ackQ' # <<>>
  <2>1. t \in [state : {"idle", "sending", "finish", "error"},
               proto : {"ack", "data"}, data : {"available", "filling"}]
    BY <1>7 DEF BoardType
  <2>2. CASE tx.state = "sending"
    <3>1. ackQ' = ackQ /\ tx' = tx
      BY <1>4, <1>7, <2>2
    <3> QED
      BY <3>1 DEF BoardType
  <2>3. CASE tx.state # "sending"
    BY <1>7, <2>1, <2>3 DEF NextFrame
  <2> QED
    BY <2>2, <2>3
<1>9. BoardType'
  BY <1>2, <1>5, <1>6, <1>8 DEF BoardType, app, radioStack, receiver
<1> QED
  BY <1>1, <1>2, <1>8, <1>9, BoardElsewhere DEF receiver

LEMMA PutDoneBoard ==
    ASSUME BoardInv, NEW error \in BOOLEAN, PutDone(error)
    PROVE  BoardInv'
<1> USE DEF BoardInv
<1>1. Elsewhere
  BY OtherInterrupts
<1>2. /\ UNCHANGED <<mem, app, radioStack, receiver, sendBuffer, sendError, ackQ, acked>>
      /\ tasks' = tasks \cup {"RunTx"} /\ tx.state = "sending"
      /\ tx' = [tx EXCEPT !.state = IF error THEN "error" ELSE "finish"]
  BY DEF PutDone
<1>3. /\ tx' \in [state : {"idle", "sending", "finish", "error"},
                  proto : {"ack", "data"}, data : {"available", "filling"}]
      /\ tx'.proto = tx.proto
  BY <1>2 DEF BoardType
<1>4. tasks' \subseteq Tasks
  BY <1>2 DEF BoardType, Tasks
<1>5. BoardType'
  BY <1>2, <1>3, <1>4 DEF BoardType, app, radioStack, receiver
<1> QED
  BY <1>1, <1>2, <1>3, <1>5, BoardElsewhere DEF receiver

LEMMA StepBoard ==
    ASSUME BoardInv, [Next]_vars
    PROVE  BoardInv'
<1>1. CASE Received
  BY <1>1, ReceivedBoard
<1>2. CASE UartSendTask \/ UartSendDone \/ RadioSendTask \/ ReceiveTask \/ RunTx
  BY <1>2, UartSendTaskBoard, UartSendDoneBoard, RadioSendTaskBoard,
     ReceiveTaskBoard, RunTxBoard
<1>3. CASE \/ RadioStartDone \/ SerialStartDone \/ RadioReceive
           \/ \E error \in BOOLEAN : RadioSendDone(error)
  BY <1>3, StartDoneBoard, RadioReceiveBoard, RadioSendDoneBoard
<1>4. CASE FrameStarts \/ FrameEnds \/ FrameFails \/ \E error \in BOOLEAN : PutDone(error)
  BY <1>4, FrameStartsBoard, FrameEndsBoard, FrameFailsBoard, PutDoneBoard
<1>5. CASE UNCHANGED vars
  BY <1>5 DEF vars, BoardInv, BoardType, app, radioStack, receiver, sender
<1> QED
  BY <1>1, <1>2, <1>3, <1>4, <1>5 DEF Next, Task, Interrupt

(***************************************************************************)
(* Who owns which buffer                                                   *)
(***************************************************************************)

\* The receive buffer i of SerialDispatcherP, be it with its task.
Held(i) ==
    IF recv.pending /\ recv.taskWhich = i THEN recv.taskBuf ELSE recv.ptrs[i]

\* There are as many buffers as places for one: those of the two queues, the
\* one of the radio stack and the two of SerialDispatcherP.
OwnedAt(p) ==
    IF p <= UART_QUEUE_LEN THEN uart.buf[p - 1]
    ELSE IF p <= UART_QUEUE_LEN + RADIO_QUEUE_LEN
         THEN radio.buf[p - UART_QUEUE_LEN - 1]
    ELSE IF p = UART_QUEUE_LEN + RADIO_QUEUE_LEN + 1 THEN radioRx
    ELSE Held(p - (UART_QUEUE_LEN + RADIO_QUEUE_LEN + 2))

OwnInv == \A p, q \in Buffers : OwnedAt(p) = OwnedAt(q) => p = q

UartPlace(i) == i + 1
RadioPlace(i) == UART_QUEUE_LEN + i + 1
RxPlace == UART_QUEUE_LEN + RADIO_QUEUE_LEN + 1
HeldPlace(i) == UART_QUEUE_LEN + RADIO_QUEUE_LEN + 2 + i

PlacesAre ==
    /\ \A i \in 0 .. UART_QUEUE_LEN - 1 :
           UartPlace(i) \in Buffers /\ OwnedAt(UartPlace(i)) = uart.buf[i]
    /\ \A i \in 0 .. RADIO_QUEUE_LEN - 1 :
           RadioPlace(i) \in Buffers /\ OwnedAt(RadioPlace(i)) = radio.buf[i]
    /\ RxPlace \in Buffers /\ OwnedAt(RxPlace) = radioRx
    /\ \A i \in 0 .. 1 : HeldPlace(i) \in Buffers /\ OwnedAt(HeldPlace(i)) = Held(i)

LEMMA Places == PlacesAre
<1> USE Lengths
<1>1. ASSUME NEW i \in 0 .. UART_QUEUE_LEN - 1
      PROVE  UartPlace(i) \in Buffers /\ OwnedAt(UartPlace(i)) = uart.buf[i]
  BY DEF UartPlace, Buffers, OwnedAt
<1>2. ASSUME NEW i \in 0 .. RADIO_QUEUE_LEN - 1
      PROVE  RadioPlace(i) \in Buffers /\ OwnedAt(RadioPlace(i)) = radio.buf[i]
  <2>1. /\ RadioPlace(i) \in Buffers
        /\ ~ (RadioPlace(i) <= UART_QUEUE_LEN)
        /\ RadioPlace(i) <= UART_QUEUE_LEN + RADIO_QUEUE_LEN
        /\ RadioPlace(i) - UART_QUEUE_LEN - 1 = i
    BY DEF RadioPlace, Buffers
  <2> QED
    BY <2>1 DEF OwnedAt
<1>3. RxPlace \in Buffers /\ OwnedAt(RxPlace) = radioRx
  BY DEF RxPlace, Buffers, OwnedAt
<1>4. ASSUME NEW i \in 0 .. 1
      PROVE  HeldPlace(i) \in Buffers /\ OwnedAt(HeldPlace(i)) = Held(i)
  <2>1. /\ HeldPlace(i) \in Buffers
        /\ ~ (HeldPlace(i) <= UART_QUEUE_LEN)
        /\ ~ (HeldPlace(i) <= UART_QUEUE_LEN + RADIO_QUEUE_LEN)
        /\ HeldPlace(i) # UART_QUEUE_LEN + RADIO_QUEUE_LEN + 1
        /\ HeldPlace(i) - (UART_QUEUE_LEN + RADIO_QUEUE_LEN + 2) = i
    BY DEF HeldPlace, Buffers
  <2> QED
    BY <2>1 DEF OwnedAt
<1> QED
  BY <1>1, <1>2, <1>3, <1>4 DEF PlacesAre

LEMMA PlacesAfter == PlacesAre'
BY Places, PTL

\* There are no other places, and they differ.
LEMMA PlaceKinds ==
    ASSUME NEW p \in Buffers
    PROVE  \/ \E i \in 0 .. UART_QUEUE_LEN - 1 : p = UartPlace(i)
           \/ \E i \in 0 .. RADIO_QUEUE_LEN - 1 : p = RadioPlace(i)
           \/ p = RxPlace
           \/ \E i \in 0 .. 1 : p = HeldPlace(i)
<1> USE Lengths DEF Buffers, UartPlace, RadioPlace, RxPlace, HeldPlace
<1>1. CASE p <= UART_QUEUE_LEN
  <2>1. p - 1 \in 0 .. UART_QUEUE_LEN - 1 /\ p = UartPlace(p - 1)
    BY <1>1
  <2> QED
    BY <2>1
<1>2. CASE p > UART_QUEUE_LEN /\ p <= UART_QUEUE_LEN + RADIO_QUEUE_LEN
  <2>1. /\ p - UART_QUEUE_LEN - 1 \in 0 .. RADIO_QUEUE_LEN - 1
        /\ p = RadioPlace(p - UART_QUEUE_LEN - 1)
    BY <1>2
  <2> QED
    BY <2>1
<1>3. CASE p = UART_QUEUE_LEN + RADIO_QUEUE_LEN + 1
  BY <1>3
<1>4. CASE p = UART_QUEUE_LEN + RADIO_QUEUE_LEN + 2
  BY <1>4
<1>5. CASE p = UART_QUEUE_LEN + RADIO_QUEUE_LEN + 3
  BY <1>5
<1> QED
  BY <1>1, <1>2, <1>3, <1>4, <1>5

LEMMA PlacesDiffer ==
    /\ \A i, j \in 0 .. UART_QUEUE_LEN - 1 : UartPlace(i) = UartPlace(j) => i = j
    /\ \A i, j \in 0 .. RADIO_QUEUE_LEN - 1 : RadioPlace(i) = RadioPlace(j) => i = j
    /\ \A i, j \in 0 .. 1 : HeldPlace(i) = HeldPlace(j) => i = j
    /\ \A i \in 0 .. UART_QUEUE_LEN - 1 : \A j \in 0 .. RADIO_QUEUE_LEN - 1 :
           UartPlace(i) # RadioPlace(j)
    /\ \A i \in 0 .. UART_QUEUE_LEN - 1 : UartPlace(i) # RxPlace
    /\ \A i \in 0 .. RADIO_QUEUE_LEN - 1 : RadioPlace(i) # RxPlace
    /\ \A k \in 0 .. 1 : HeldPlace(k) # RxPlace
    /\ \A i \in 0 .. UART_QUEUE_LEN - 1 : \A k \in 0 .. 1 : UartPlace(i) # HeldPlace(k)
    /\ \A i \in 0 .. RADIO_QUEUE_LEN - 1 : \A k \in 0 .. 1 : RadioPlace(i) # HeldPlace(k)
BY Lengths DEF UartPlace, RadioPlace, RxPlace, HeldPlace

\* No two owners have the same buffer.
LEMMA Apart ==
    ASSUME OwnInv
    PROVE
    /\ \A i, j \in 0 .. UART_QUEUE_LEN - 1 : uart.buf[i] = uart.buf[j] => i = j
    /\ \A i, j \in 0 .. RADIO_QUEUE_LEN - 1 : radio.buf[i] = radio.buf[j] => i = j
    /\ \A i \in 0 .. UART_QUEUE_LEN - 1 : \A j \in 0 .. RADIO_QUEUE_LEN - 1 :
           uart.buf[i] # radio.buf[j]
    /\ \A i \in 0 .. UART_QUEUE_LEN - 1 : uart.buf[i] # radioRx
    /\ \A i \in 0 .. RADIO_QUEUE_LEN - 1 : radio.buf[i] # radioRx
    /\ \A k \in 0 .. 1 : Held(k) # radioRx
    /\ \A i \in 0 .. UART_QUEUE_LEN - 1 : \A k \in 0 .. 1 : uart.buf[i] # Held(k)
    /\ \A i \in 0 .. RADIO_QUEUE_LEN - 1 : \A k \in 0 .. 1 : radio.buf[i] # Held(k)
BY Places, PlacesDiffer DEF OwnInv, PlacesAre

LEMMA OwnersStay ==
    ASSUME OwnInv, \A p \in Buffers : OwnedAt(p)' = OwnedAt(p)
    PROVE  OwnInv'
BY DEF OwnInv

\* An exchange of two buffers.
LEMMA OwnersSwap ==
    ASSUME OwnInv, NEW a \in Buffers, NEW b \in Buffers,
           \A p \in Buffers : OwnedAt(p)' = IF p = a THEN OwnedAt(b)
                                            ELSE IF p = b THEN OwnedAt(a)
                                            ELSE OwnedAt(p)
    PROVE  OwnInv'
BY DEF OwnInv

LEMMA InitOwn == Init => OwnInv
<1> SUFFICES ASSUME Init PROVE OwnInv
  OBVIOUS
<1>1. ASSUME NEW p \in Buffers
      PROVE  OwnedAt(p) = p
  <2>1. ASSUME NEW i \in 0 .. UART_QUEUE_LEN - 1, p = UartPlace(i)
        PROVE  OwnedAt(p) = p
    <3>1. uart.buf[i] = i + 1
      BY Lengths DEF Init, Queue
    <3> QED
      BY <2>1, <3>1, Places DEF UartPlace, PlacesAre
  <2>2. ASSUME NEW i \in 0 .. RADIO_QUEUE_LEN - 1, p = RadioPlace(i)
        PROVE  OwnedAt(p) = p
    <3>1. radio.buf[i] = UART_QUEUE_LEN + 1 + i
      BY Lengths DEF Init, Queue
    <3>2. UART_QUEUE_LEN + 1 + i = RadioPlace(i)
      BY Lengths DEF RadioPlace
    <3> QED
      BY <2>2, <3>1, <3>2, Places DEF PlacesAre
  <2>3. CASE p = RxPlace
    BY <2>3, Places DEF Init, RxPlace, PlacesAre
  <2>4. ASSUME NEW i \in 0 .. 1, p = HeldPlace(i)
        PROVE  OwnedAt(p) = p
    <3>1. Held(i) = UART_QUEUE_LEN + RADIO_QUEUE_LEN + 2 + i
      BY DEF Init, Held
    <3> QED
      BY <2>4, <3>1, Places DEF HeldPlace, PlacesAre
  <2> QED
    BY <2>1, <2>2, <2>3, <2>4, PlaceKinds
<1> QED
  BY <1>1 DEF OwnInv

\* Nothing is exchanged.
LEMMA SameOwners ==
    ASSUME OwnInv, uart'.buf = uart.buf, radio'.buf = radio.buf, radioRx' = radioRx,
           \A i \in 0 .. 1 : Held(i)' = Held(i)
    PROVE  OwnInv'
<1>1. \A p \in Buffers : OwnedAt(p)' = OwnedAt(p)
  BY Places, PlacesAfter, PlaceKinds
     DEF PlacesAre, UartPlace, RadioPlace, RxPlace, HeldPlace
<1> QED
  BY <1>1, OwnersStay

LEMMA RadioReceiveOwn ==
    ASSUME BoardInv, OwnInv, RadioReceive
    PROVE  OwnInv'
<1>1. recv' = recv /\ radio' = radio
  BY DEF RadioReceive, receiver
<1>2. \A i \in 0 .. 1 : Held(i)' = Held(i)
  BY <1>1 DEF Held
<1>3. CASE uart.full
  <2>1. uart' = uart /\ radioRx' = radioRx
    BY <1>3 DEF RadioReceive
  <2> QED
    BY <1>1, <1>2, <2>1, SameOwners
<1>4. CASE ~ uart.full
  <2>1. uart' = Enqueued(uart, radioRx) /\ radioRx' = Swapped(uart)
    BY <1>4 DEF RadioReceive
  <2>2. /\ uart.in \in 0 .. UART_QUEUE_LEN - 1
        /\ uart'.buf = [uart.buf EXCEPT ![uart.in] = radioRx]
        /\ radioRx' = uart.buf[uart.in]
        /\ uart.buf \in [0 .. UART_QUEUE_LEN - 1 -> Buffers]
    <3>1. uart \in QueueType(UART_QUEUE_LEN) /\ radioRx \in Buffers
      BY DEF BoardInv, BoardType
    <3>2. /\ uart.in \in 0 .. UART_QUEUE_LEN - 1
          /\ Enqueued(uart, radioRx).buf = [uart.buf EXCEPT ![uart.in] = radioRx]
          /\ Swapped(uart) = uart.buf[uart.in]
      BY <3>1, EnqueuedFields, Lengths
    <3>3. uart.buf \in [0 .. UART_QUEUE_LEN - 1 -> Buffers]
      BY <3>1 DEF QueueType
    <3> QED
      BY <2>1, <3>2, <3>3
  <2>3. \A i \in 0 .. UART_QUEUE_LEN - 1 :
            uart'.buf[i] = IF i = uart.in THEN radioRx ELSE uart.buf[i]
    BY <2>2
  <2>a. PICK a : a = UartPlace(uart.in)
    OBVIOUS
  <2>4. ASSUME NEW p \in Buffers
        PROVE  OwnedAt(p)' = IF p = a THEN OwnedAt(RxPlace)
                             ELSE IF p = RxPlace THEN OwnedAt(a) ELSE OwnedAt(p)
    <3>1. ASSUME NEW i \in 0 .. UART_QUEUE_LEN - 1, p = UartPlace(i)
          PROVE  OwnedAt(p)' = IF p = a THEN OwnedAt(RxPlace) ELSE OwnedAt(p)
      <4>1. OwnedAt(p)' = uart'.buf[i] /\ OwnedAt(p) = uart.buf[i]
        BY <3>1, Places, PlacesAfter DEF PlacesAre, UartPlace
      <4>2. p = a <=> i = uart.in
        BY <2>2, <2>a, <3>1, PlacesDiffer
      <4> QED
        BY <2>3, <4>1, <4>2, Places DEF PlacesAre
    <3>2. ASSUME NEW i \in 0 .. RADIO_QUEUE_LEN - 1, p = RadioPlace(i)
          PROVE  OwnedAt(p)' = OwnedAt(p)
      BY <1>1, <3>2, Places, PlacesAfter DEF PlacesAre, RadioPlace
    <3>3. p = RxPlace => OwnedAt(p)' = OwnedAt(a)
      BY <2>2, <2>a, Places, PlacesAfter DEF PlacesAre, RxPlace
    <3>4. ASSUME NEW i \in 0 .. 1, p = HeldPlace(i)
          PROVE  OwnedAt(p)' = OwnedAt(p)
      BY <1>2, <3>4, Places, PlacesAfter DEF PlacesAre, HeldPlace
    <3> QED
      BY <2>2, <2>a, <3>1, <3>2, <3>3, <3>4, PlaceKinds, PlacesDiffer
  <2>5. a \in Buffers /\ RxPlace \in Buffers
    BY <2>2, <2>a, Places DEF PlacesAre
  <2> QED
    BY <2>4, <2>5, OwnersSwap
<1> QED
  BY <1>3, <1>4

LEMMA ReceiveTaskOwn ==
    ASSUME BoardInv, OwnInv, ReceiveTask
    PROVE  OwnInv'
<1>1. uart' = uart /\ radioRx' = radioRx
  BY DEF ReceiveTask, radioStack
<1>2. CASE UNCHANGED <<radio, recv>>
  BY <1>1, <1>2, SameOwners DEF Held
<1>3. CASE radio' = Enqueued(radio, recv.taskBuf) /\ recv'.taskBuf = Swapped(radio)
  <2>0. PICK w \in 0 .. 1 : w = recv.taskWhich
    BY DEF BoardInv, BoardType
  <2>1. /\ radio.in \in 0 .. RADIO_QUEUE_LEN - 1
        /\ radio'.buf = [radio.buf EXCEPT ![radio.in] = recv.taskBuf]
        /\ recv'.taskBuf = radio.buf[radio.in]
        /\ radio.buf \in [0 .. RADIO_QUEUE_LEN - 1 -> Buffers]
    <3>1. radio \in QueueType(RADIO_QUEUE_LEN) /\ recv.taskBuf \in Buffers
      BY ReceiveTaskFields DEF BoardInv, BoardType
    <3>2. /\ radio.in \in 0 .. RADIO_QUEUE_LEN - 1
          /\ Enqueued(radio, recv.taskBuf).buf
                = [radio.buf EXCEPT ![radio.in] = recv.taskBuf]
          /\ Swapped(radio) = radio.buf[radio.in]
      <4>1. PICK b \in Buffers : b = recv.taskBuf
        BY <3>1
      <4>2. RADIO_QUEUE_LEN \in Nat \ {0}
        BY Lengths
      <4> QED
        BY <3>1, <4>1, <4>2, EnqueuedFields
    <3>3. radio.buf \in [0 .. RADIO_QUEUE_LEN - 1 -> Buffers]
      BY <3>1 DEF QueueType
    <3> QED
      BY <1>3, <3>2, <3>3
  <2>2. \A i \in 0 .. RADIO_QUEUE_LEN - 1 :
            radio'.buf[i] = IF i = radio.in THEN recv.taskBuf ELSE radio.buf[i]
    BY <2>1
  <2>3. w \in 0 .. 1 /\ Held(w) = recv.taskBuf /\ Held(w)' = radio.buf[radio.in]
    BY <2>0, <2>1, ReceiveTaskFields DEF Held
  <2>4. \A i \in 0 .. 1 : i # w => Held(i)' = Held(i)
    BY <2>0, ReceiveTaskFields DEF Held
  <2>a. PICK a : a = RadioPlace(radio.in)
    OBVIOUS
  <2>b. PICK b : b = HeldPlace(w)
    OBVIOUS
  <2>5. ASSUME NEW p \in Buffers
        PROVE  OwnedAt(p)' = IF p = a THEN OwnedAt(b)
                             ELSE IF p = b THEN OwnedAt(a) ELSE OwnedAt(p)
    <3>1. ASSUME NEW i \in 0 .. UART_QUEUE_LEN - 1, p = UartPlace(i)
          PROVE  OwnedAt(p)' = OwnedAt(p)
      BY <1>1, <3>1, Places, PlacesAfter DEF PlacesAre, UartPlace
    <3>2. ASSUME NEW i \in 0 .. RADIO_QUEUE_LEN - 1, p = RadioPlace(i)
          PROVE  OwnedAt(p)' = IF p = a THEN OwnedAt(b) ELSE OwnedAt(p)
      <4>1. OwnedAt(p)' = radio'.buf[i] /\ OwnedAt(p) = radio.buf[i]
        BY <3>2, Places, PlacesAfter DEF PlacesAre, RadioPlace
      <4>2. p = a <=> i = radio.in
        BY <2>1, <2>a, <3>2, PlacesDiffer
      <4>3. OwnedAt(b) = recv.taskBuf
        BY <2>3, <2>b, Places DEF PlacesAre
      <4> QED
        BY <2>2, <4>1, <4>2, <4>3
    <3>3. p = RxPlace => OwnedAt(p)' = OwnedAt(p)
      BY <1>1, Places, PlacesAfter DEF PlacesAre, RxPlace
    <3>4. ASSUME NEW i \in 0 .. 1, p = HeldPlace(i)
          PROVE  OwnedAt(p)' = IF p = b THEN OwnedAt(a) ELSE OwnedAt(p)
      <4>1. OwnedAt(p)' = Held(i)' /\ OwnedAt(p) = Held(i)
        BY <3>4, Places, PlacesAfter DEF PlacesAre, HeldPlace
      <4>2. p = b <=> i = w
        BY <2>3, <2>b, <3>4, PlacesDiffer
      <4>3. OwnedAt(a) = radio.buf[radio.in]
        BY <2>1, <2>a, Places DEF PlacesAre
      <4> QED
        BY <2>3, <2>4, <4>1, <4>2, <4>3
    <3>5. a # b /\ (\A i \in 0 .. UART_QUEUE_LEN - 1 : UartPlace(i) # a /\ UartPlace(i) # b)
          /\ RxPlace # a /\ RxPlace # b
          /\ (\A i \in 0 .. RADIO_QUEUE_LEN - 1 : RadioPlace(i) # b)
          /\ (\A i \in 0 .. 1 : HeldPlace(i) # a)
      BY <2>1, <2>3, <2>a, <2>b, PlacesDiffer
    <3> QED
      BY <3>1, <3>2, <3>3, <3>4, <3>5, PlaceKinds
  <2>6. a \in Buffers /\ b \in Buffers
    BY <2>1, <2>3, <2>a, <2>b, Places DEF PlacesAre
  <2> QED
    BY <2>5, <2>6, OwnersSwap
<1> QED
  BY <1>2, <1>3, ReceiveTaskFields

LEMMA StepOwn ==
    ASSUME BoardInv, OwnInv, [Next]_vars
    PROVE  OwnInv'
<1>1. CASE Received
  <2>0. recv.ptrs \in [0 .. 1 -> Buffers] /\ recv.taskWhich \in 0 .. 1
    BY DEF BoardInv, BoardType
  <2>1. \A i \in 0 .. 1 : Held(i)' = Held(i)
    <3>1. /\ recv.pending /\ recv'.pending = FALSE
          /\ recv'.ptrs = [recv.ptrs EXCEPT ![recv.taskWhich] = recv.taskBuf]
      BY <1>1, ReceivedFields
    <3> QED
      BY <2>0, <3>1 DEF Held
  <2> QED
    BY <1>1, <2>1, SameOwners DEF Received, app, radioStack
<1>2. CASE ReceiveTask \/ RadioReceive
  BY <1>2, ReceiveTaskOwn, RadioReceiveOwn
<1>3. CASE FrameStarts
  <2>1. \/ recv' = recv
        \/ recv' = [recv EXCEPT !.locked[recv.which] = TRUE]
    BY <1>3 DEF FrameStarts
  <2>2. /\ recv'.pending = recv.pending /\ recv'.taskWhich = recv.taskWhich
        /\ recv'.taskBuf = recv.taskBuf /\ recv'.ptrs = recv.ptrs
    BY <2>1 DEF BoardInv, BoardType
  <2>3. \A i \in 0 .. 1 : Held(i)' = Held(i)
    BY <2>2 DEF Held
  <2>4. UNCHANGED <<uart, radio, radioRx>>
    BY <1>3 DEF FrameStarts, app, radioStack
  <2> QED
    BY <2>3, <2>4, SameOwners
<1>4. CASE FrameEnds
  <2>1. \A i \in 0 .. 1 : Held(i)' = Held(i)
    BY <1>4, FrameEndsFields DEF Held
  <2> QED
    BY <1>4, <2>1, SameOwners DEF FrameEnds, app, radioStack
<1>5. CASE \/ UartSendTask \/ UartSendDone \/ RadioSendTask \/ RunTx
           \/ RadioStartDone \/ SerialStartDone
           \/ (\E error \in BOOLEAN : RadioSendDone(error))
  <2>1. recv' = recv
    BY <1>5, OtherTasks DEF Elsewhere
  <2>2. /\ radioRx' = radioRx
        /\ \/ uart' = uart \/ uart' = Dequeued(uart)
           \/ uart' = [uart EXCEPT !.busy = FALSE] \/ uart' = [uart EXCEPT !.full = FALSE]
        /\ \/ radio' = radio \/ radio' = Dequeued(radio)
           \/ radio' = [radio EXCEPT !.busy = FALSE] \/ radio' = [radio EXCEPT !.full = FALSE]
    <3>1. CASE UartSendTask
      BY <3>1 DEF UartSendTask, radioStack
    <3>2. CASE UartSendDone
      BY <3>2 DEF UartSendDone, radioStack
    <3>3. CASE RadioSendTask
      BY <3>3 DEF RadioSendTask
    <3>4. CASE RunTx
      BY <3>4 DEF RunTx, app, radioStack
    <3>5. CASE RadioStartDone \/ SerialStartDone
      BY <3>5 DEF RadioStartDone, SerialStartDone, radioStack
    <3>6. CASE \E error \in BOOLEAN : RadioSendDone(error)
      BY <3>6 DEF RadioSendDone
    <3> QED
      BY <1>5, <3>1, <3>2, <3>3, <3>4, <3>5, <3>6
  <2>3. uart'.buf = uart.buf
    <3>1. uart \in QueueType(UART_QUEUE_LEN)
      BY DEF BoardInv, BoardType
    <3>2. CASE uart' = Dequeued(uart)
      BY <3>1, <3>2, DequeuedFields, Lengths
    <3>3. CASE \/ uart' = [uart EXCEPT !.busy = FALSE] \/ uart' = [uart EXCEPT !.full = FALSE]
      BY <3>1, <3>3 DEF QueueType
    <3> QED
      BY <2>2, <3>2, <3>3
  <2>4. radio'.buf = radio.buf
    <3>1. radio \in QueueType(RADIO_QUEUE_LEN)
      BY DEF BoardInv, BoardType
    <3>2. CASE radio' = Dequeued(radio)
      BY <3>1, <3>2, DequeuedFields, Lengths
    <3>3. CASE \/ radio' = [radio EXCEPT !.busy = FALSE] \/ radio' = [radio EXCEPT !.full = FALSE]
      BY <3>1, <3>3 DEF QueueType
    <3> QED
      BY <2>2, <3>2, <3>3
  <2> QED
    BY <2>1, <2>2, <2>3, <2>4, SameOwners DEF Held
<1>6. CASE FrameFails \/ (\E error \in BOOLEAN : PutDone(error)) \/ UNCHANGED vars
  <2>1. recv' = recv /\ UNCHANGED <<app, radioStack>>
    BY <1>6 DEF FrameFails, PutDone, vars, receiver
  <2> QED
    BY <2>1, SameOwners DEF Held, app, radioStack
<1> QED
  BY <1>1, <1>2, <1>3, <1>4, <1>5, <1>6 DEF Next, Task, Interrupt

LEMMA OwnInvariant == Spec => [](BoardInv /\ OwnInv)
<1>1. Init => BoardInv /\ OwnInv
  BY InitBoard, InitOwn
<1>2. BoardInv /\ OwnInv /\ [Next]_vars => BoardInv' /\ OwnInv'
  BY StepBoard, StepOwn
<1> QED
  BY <1>1, <1>2, PTL DEF Spec

(***************************************************************************)
(* Buffers are exchanged, never copied: each of the five places of a       *)
(* buffer - the slots of the two queues, the radio stack and the two       *)
(* receive buffers - has one of its own after every step, for all lengths  *)
(* of the queues.                                                          *)
(***************************************************************************)
THEOREM BuffersCorrect == Spec => []BuffersOwnedOnce
<1>1. ASSUME BoardInv, OwnInv
      PROVE  BuffersOwnedOnce
  <2> DEFINE held(i) == IF recv.pending /\ recv.taskWhich = i THEN recv.taskBuf
                        ELSE recv.ptrs[i]
             u == [i \in 1 .. UART_QUEUE_LEN |-> uart.buf[i - 1]]
             r == [i \in 1 .. RADIO_QUEUE_LEN |-> radio.buf[i - 1]]
             h == <<radioRx, held(0), held(1)>>
             owners == u \o r \o h
  <2>0. /\ uart.buf \in [0 .. UART_QUEUE_LEN - 1 -> Buffers]
        /\ radio.buf \in [0 .. RADIO_QUEUE_LEN - 1 -> Buffers]
        /\ radioRx \in Buffers
        /\ \A i \in 0 .. 1 : held(i) = Held(i) /\ held(i) \in Buffers
    BY <1>1 DEF BoardInv, BoardType, QueueType, Held
  <2>1. u \in Seq(Buffers) /\ Len(u) = UART_QUEUE_LEN
        /\ \A i \in 1 .. UART_QUEUE_LEN : u[i] = uart.buf[i - 1]
    <3>1. \A i \in 1 .. UART_QUEUE_LEN : uart.buf[i - 1] \in Buffers
      BY <2>0, Lengths
    <3>2. u \in [1 .. UART_QUEUE_LEN -> Buffers]
      BY <3>1
    <3> QED
      BY <3>2, Lengths
  <2>2. r \in Seq(Buffers) /\ Len(r) = RADIO_QUEUE_LEN
        /\ \A i \in 1 .. RADIO_QUEUE_LEN : r[i] = radio.buf[i - 1]
    <3>1. \A i \in 1 .. RADIO_QUEUE_LEN : radio.buf[i - 1] \in Buffers
      BY <2>0, Lengths
    <3>2. r \in [1 .. RADIO_QUEUE_LEN -> Buffers]
      BY <3>1
    <3> QED
      BY <3>2, Lengths
  <2>3. h \in Seq(Buffers) /\ Len(h) = 3
        /\ h[1] = radioRx /\ h[2] = held(0) /\ h[3] = held(1)
    BY <2>0
  <2> HIDE DEF u, r, h
  <2>4. PICK ur \in Seq(Buffers) : ur = u \o r
    BY <2>1, <2>2, ConcatProperties
  <2>5. /\ Len(ur) = UART_QUEUE_LEN + RADIO_QUEUE_LEN
        /\ \A i \in 1 .. UART_QUEUE_LEN + RADIO_QUEUE_LEN :
               ur[i] = IF i <= UART_QUEUE_LEN THEN u[i] ELSE r[i - UART_QUEUE_LEN]
    <3>1. u \in Seq(Buffers) /\ r \in Seq(Buffers)
      BY <2>1, <2>2
    <3>2. /\ Len(u \o r) = Len(u) + Len(r)
          /\ \A i \in 1 .. Len(u) + Len(r) :
                 (u \o r)[i] = IF i <= Len(u) THEN u[i] ELSE r[i - Len(u)]
      BY <3>1, ConcatProperties
    <3> QED
      BY <2>1, <2>2, <2>4, <3>2
  <2>6. owners = ur \o h
    BY <2>4
  <2>7. /\ owners \in Seq(Buffers)
        /\ Len(owners) = UART_QUEUE_LEN + RADIO_QUEUE_LEN + 3
        /\ \A i \in Buffers :
               owners[i] = IF i <= UART_QUEUE_LEN + RADIO_QUEUE_LEN THEN ur[i]
                           ELSE h[i - (UART_QUEUE_LEN + RADIO_QUEUE_LEN)]
    <3>1. /\ owners \in Seq(Buffers)
          /\ Len(owners) = Len(ur) + 3
          /\ \A i \in 1 .. Len(ur) + 3 :
                 owners[i] = IF i <= Len(ur) THEN ur[i] ELSE h[i - Len(ur)]
      <4>1. /\ ur \o h \in Seq(Buffers)
            /\ Len(ur \o h) = Len(ur) + 3
            /\ \A i \in 1 .. Len(ur) + 3 :
                   (ur \o h)[i] = IF i <= Len(ur) THEN ur[i] ELSE h[i - Len(ur)]
        <5>1. ur \in Seq(Buffers) /\ h \in Seq(Buffers) /\ Len(h) = 3
          BY <2>3, <2>4
        <5>2. /\ ur \o h \in Seq(Buffers)
              /\ Len(ur \o h) = Len(ur) + Len(h)
              /\ \A i \in 1 .. Len(ur) + Len(h) :
                     (ur \o h)[i] = IF i <= Len(ur) THEN ur[i] ELSE h[i - Len(ur)]
          BY <5>1, ConcatProperties
        <5> QED
          BY <5>1, <5>2
      <4> HIDE DEF owners
      <4> QED
        BY <2>6, <4>1
    <3> HIDE DEF owners
    <3> QED
      BY <2>5, <3>1 DEF Buffers
  <2>8. DOMAIN owners = Buffers
    BY <2>7, LenProperties DEF Buffers
  <2> HIDE DEF owners
  <2>9. ASSUME NEW p \in Buffers
        PROVE  owners[p] = OwnedAt(p)
    <3>1. p \in 1 .. UART_QUEUE_LEN + RADIO_QUEUE_LEN + 3
      BY DEF Buffers
    <3>2. CASE p <= UART_QUEUE_LEN
      <4>1. /\ p \in 1 .. UART_QUEUE_LEN
            /\ p \in 1 .. UART_QUEUE_LEN + RADIO_QUEUE_LEN
        BY <3>1, <3>2, Lengths
      <4>2. owners[p] = ur[p] /\ ur[p] = u[p]
        BY <2>5, <2>7, <3>2, <4>1
      <4> QED
        BY <2>1, <3>2, <4>1, <4>2 DEF OwnedAt
    <3>3. CASE p > UART_QUEUE_LEN /\ p <= UART_QUEUE_LEN + RADIO_QUEUE_LEN
      <4>1. p - UART_QUEUE_LEN \in 1 .. RADIO_QUEUE_LEN
        BY <3>1, <3>3, Lengths
      <4>2. owners[p] = r[p - UART_QUEUE_LEN]
        <5>1. owners[p] = ur[p]
          BY <2>7, <3>3
        <5>2. p \in 1 .. UART_QUEUE_LEN + RADIO_QUEUE_LEN /\ ~(p <= UART_QUEUE_LEN)
          BY <3>1, <3>3, Lengths
        <5>3. ur[p] = r[p - UART_QUEUE_LEN]
          BY <2>5, <5>2
        <5> QED
          BY <5>1, <5>3
      <4> QED
        BY <2>2, <3>1, <3>3, <4>1, <4>2, Lengths DEF OwnedAt
    <3>4. CASE p > UART_QUEUE_LEN + RADIO_QUEUE_LEN
      <4> DEFINE k == p - (UART_QUEUE_LEN + RADIO_QUEUE_LEN)
      <4>1. owners[p] = h[k] /\ k \in 1 .. 3
        BY <2>7, <3>1, <3>4, Lengths
      <4>2. OwnedAt(p) = IF k = 1 THEN radioRx ELSE Held(k - 2)
        BY <3>1, <3>4, Lengths DEF OwnedAt
      <4> HIDE DEF k
      <4> QED
        BY <2>0, <2>3, <4>1, <4>2
    <3> QED
      BY <3>1, <3>2, <3>3, <3>4, Lengths
  <2>10. IsInjective(owners)
    BY <1>1, <2>8, <2>9 DEF IsInjective, OwnInv
  <2> QED
    BY <2>10 DEF BuffersOwnedOnce, owners, u, r, h
<1> QED
  BY <1>1, OwnInvariant, PTL

(***************************************************************************)
(* What waits in a queue                                                   *)
(***************************************************************************)

Size(q, len) ==
    IF IsEmpty(q) THEN 0
    ELSE IF q.in > q.out THEN q.in - q.out
    ELSE len + q.in - q.out

\* Where the i-th buffer that waits in q is.
Slot(q, len, i) == (q.out + i - 1) % len

\* What has entered is what has left and what the buffers in q hold in m.
Bridges(m, q, len, e, l) ==
    /\ Len(e) = Len(l) + Size(q, len)
    /\ \A i \in 1 .. Len(l) : e[i] = l[i]
    /\ \A i \in 1 .. Size(q, len) : m[q.buf[Slot(q, len, i)]] = e[Len(l) + i]

LEMMA SlotWraps ==
    ASSUME NEW len \in Nat \ {0}, NEW q \in QueueType(len), NEW i \in 1 .. len
    PROVE  /\ Slot(q, len, i) = IF q.out + i - 1 < len THEN q.out + i - 1
                                ELSE q.out + i - 1 - len
           /\ Slot(q, len, i) \in 0 .. len - 1
           /\ q.in \in 0 .. len - 1 /\ q.out \in 0 .. len - 1
<1>1. q.in \in 0 .. len - 1 /\ q.out \in 0 .. len - 1
  BY DEF QueueType
<1>2. PICK k \in 0 .. 2 * len - 1 : k = q.out + i - 1
  BY <1>1
<1>3. k % len = IF k < len THEN k ELSE k - len
  BY Wrap
<1>4. Slot(q, len, i) = IF k < len THEN k ELSE k - len
  BY <1>2, <1>3 DEF Slot
<1>5. (IF k < len THEN k ELSE k - len) \in 0 .. len - 1
  OBVIOUS
<1> QED
  BY <1>1, <1>2, <1>4, <1>5

\* No two of them are in the same place.
LEMMA SlotsDiffer ==
    ASSUME NEW len \in Nat \ {0}, NEW q \in QueueType(len),
           NEW i \in 1 .. len, NEW j \in 1 .. len, i # j
    PROVE  Slot(q, len, i) # Slot(q, len, j)
<1>1. PICK o \in 0 .. len - 1 : o = q.out
  BY DEF QueueType
<1>2. Slot(q, len, i) = IF o + i - 1 < len THEN o + i - 1 ELSE o + i - 1 - len
  BY <1>1, SlotWraps
<1>3. Slot(q, len, j) = IF o + j - 1 < len THEN o + j - 1 ELSE o + j - 1 - len
  BY <1>1, SlotWraps
<1> QED
  BY <1>2, <1>3

LEMMA SizeRange ==
    ASSUME NEW len \in Nat \ {0}, NEW q \in QueueType(len), q.full => q.in = q.out
    PROVE  /\ Size(q, len) \in 0 .. len
           /\ Size(q, len) = 0 <=> IsEmpty(q)
           /\ ~ q.full => Size(q, len) < len
           /\ ~ q.full => q.in = Slot(q, len, Size(q, len) + 1)
<1>1. q.in \in 0 .. len - 1 /\ q.out \in 0 .. len - 1 /\ q.full \in BOOLEAN
  BY DEF QueueType
<1>2. /\ Size(q, len) \in 0 .. len
      /\ Size(q, len) = 0 <=> IsEmpty(q)
      /\ ~ q.full => Size(q, len) < len
  BY <1>1 DEF Size, IsEmpty
<1>3. ASSUME ~ q.full
      PROVE  q.in = Slot(q, len, Size(q, len) + 1)
  <2>1. PICK i \in 1 .. len : i = Size(q, len) + 1
    BY <1>2, <1>3
  <2>2. Slot(q, len, i) = IF q.out + i - 1 < len THEN q.out + i - 1
                          ELSE q.out + i - 1 - len
    BY SlotWraps
  <2>3. PICK s, o \in 0 .. len - 1 : s = q.in /\ o = q.out
    BY <1>1
  <2>4. i = IF s = o THEN 1 ELSE IF s > o THEN s - o + 1 ELSE len + s - o + 1
    BY <1>3, <2>1, <2>3 DEF Size, IsEmpty
  <2>5. Slot(q, len, i) = s
    BY <2>2, <2>3, <2>4
  <2> QED
    BY <2>1, <2>3, <2>5
<1> QED
  BY <1>2, <1>3

LEMMA EnqueuedSize ==
    ASSUME NEW len \in Nat \ {0}, NEW q \in QueueType(len), ~ q.full,
           NEW b \in Buffers
    PROVE  /\ Size(Enqueued(q, b), len) = Size(q, len) + 1
           /\ Enqueued(q, b).full => Enqueued(q, b).in = Enqueued(q, b).out
           /\ ~ IsEmpty(Enqueued(q, b))
           /\ \A i \in 1 .. len : Slot(Enqueued(q, b), len, i) = Slot(q, len, i)
<1>1. PICK r : r = Enqueued(q, b)
  OBVIOUS
<1>2. /\ r.in = IF q.in + 1 = len THEN 0 ELSE q.in + 1
      /\ r.out = q.out /\ r.full = (r.in = q.out)
      /\ q.in \in 0 .. len - 1 /\ q.out \in 0 .. len - 1
  <2>1. /\ Enqueued(q, b).in = IF q.in + 1 = len THEN 0 ELSE q.in + 1
        /\ Enqueued(q, b).out = q.out
        /\ q.in \in 0 .. len - 1 /\ q.out \in 0 .. len - 1
    BY EnqueuedFields
  <2>2. Enqueued(q, b).full = (Enqueued(q, b).in = q.out)
    BY EnqueuedFields, Zenon
  <2> QED
    BY <1>1, <2>1, <2>2
<1>3. Size(r, len) = Size(q, len) + 1 /\ ~ IsEmpty(r)
  <2>1. PICK s, o \in 0 .. len - 1 : s = q.in /\ o = q.out
    BY <1>2
  <2>2. PICK t \in 0 .. len - 1 : t = r.in /\ t = IF s + 1 = len THEN 0 ELSE s + 1
    BY <1>2, <2>1
  <2>3. Size(q, len) = IF s = o THEN 0 ELSE IF s > o THEN s - o ELSE len + s - o
    BY <2>1 DEF Size, IsEmpty
  <2>4. Size(r, len) = IF t = o THEN len ELSE IF t > o THEN t - o ELSE len + t - o
    <3>1. r.full <=> t = o
      BY <1>2, <2>1, <2>2, Zenon
    <3>2. r.in = t /\ r.out = o
      BY <1>2, <2>1, <2>2
    <3> QED
      BY <3>1, <3>2 DEF Size, IsEmpty
  <2>5. Size(r, len) = Size(q, len) + 1
    BY <2>1, <2>2, <2>3, <2>4
  <2> QED
    BY <1>2, <2>5 DEF IsEmpty
<1> QED
  BY <1>1, <1>2, <1>3 DEF Slot

LEMMA DequeuedSize ==
    ASSUME NEW len \in Nat \ {0}, NEW q \in QueueType(len), q.full => q.in = q.out,
           ~ IsEmpty(q)
    PROVE  /\ Size(Dequeued(q), len) = Size(q, len) - 1
           /\ q.out = Slot(q, len, 1)
           /\ \A i \in 1 .. len - 1 : Slot(Dequeued(q), len, i) = Slot(q, len, i + 1)
<1>1. PICK r : r = Dequeued(q)
  OBVIOUS
<1>2. /\ r.out = IF q.out + 1 = len THEN 0 ELSE q.out + 1
      /\ r.in = q.in /\ r.full = FALSE /\ r \in QueueType(len)
      /\ q.in \in 0 .. len - 1 /\ q.out \in 0 .. len - 1
  BY <1>1, DequeuedFields
<1>3. Size(r, len) = Size(q, len) - 1
  <2>1. PICK i, o \in 0 .. len - 1 : i = q.in /\ o = q.out
    BY <1>2
  <2>2. PICK p \in 0 .. len - 1 : p = r.out /\ p = IF o + 1 = len THEN 0 ELSE o + 1
    BY <1>2, <2>1
  <2>3. Size(q, len) = IF i = o THEN len ELSE IF i > o THEN i - o ELSE len + i - o
    BY <2>1 DEF Size, IsEmpty
  <2>4. Size(r, len) = IF i = p THEN 0 ELSE IF i > p THEN i - p ELSE len + i - p
    BY <1>2, <2>1, <2>2 DEF Size, IsEmpty
  <2> QED
    BY <2>2, <2>3, <2>4
<1>4. ASSUME NEW i \in 1 .. len - 1
      PROVE  Slot(r, len, i) = Slot(q, len, i + 1)
  <2>1. i \in 1 .. len /\ i + 1 \in 1 .. len
    OBVIOUS
  <2> QED
    BY <1>2, <2>1, SlotWraps
<1>5. q.out = Slot(q, len, 1)
  <2>1. 1 \in 1 .. len
    OBVIOUS
  <2> QED
    BY <1>2, <2>1, SlotWraps
<1> QED
  BY <1>1, <1>3, <1>4, <1>5

\* A queue with nothing in it, and nothing that has ever been.
LEMMA BridgeStarts ==
    ASSUME NEW m, NEW len, NEW q, IsEmpty(q)
    PROVE  Bridges(m, q, len, <<>>, <<>>)
<1>1. Size(q, len) = 0
  BY DEF Size
<1> QED
  BY <1>1 DEF Bridges

LEMMA BridgeStays ==
    ASSUME NEW len \in Nat \ {0}, NEW q \in QueueType(len), q.full => q.in = q.out,
           NEW m, NEW n, NEW e, NEW l, Bridges(m, q, len, e, l),
           \A j \in 0 .. len - 1 : n[q.buf[j]] = m[q.buf[j]]
    PROVE  Bridges(n, q, len, e, l)
<1>1. \A i \in 1 .. Size(q, len) : Slot(q, len, i) \in 0 .. len - 1
  BY SizeRange, SlotWraps
<1> QED
  BY <1>1 DEF Bridges

\* Message x enters in buffer b.
LEMMA BridgeEnters ==
    ASSUME NEW len \in Nat \ {0}, NEW q \in QueueType(len), ~ q.full,
           NEW T, NEW e \in Seq(T), NEW l \in Seq(T), NEW x \in T,
           NEW m, NEW n, Bridges(m, q, len, e, l), NEW b \in Buffers, n[b] = x,
           \A j \in 0 .. len - 1 : n[q.buf[j]] = m[q.buf[j]]
    PROVE  Bridges(n, Enqueued(q, b), len, Append(e, x), l)
<1>1. PICK r : r = Enqueued(q, b)
  OBVIOUS
<1>2. PICK k \in 0 .. len : k = Size(q, len) /\ k < len /\ q.in = Slot(q, len, k + 1)
  BY SizeRange
<1>3. /\ Size(r, len) = k + 1
      /\ \A i \in 1 .. len : Slot(r, len, i) = Slot(q, len, i)
  BY <1>1, <1>2, EnqueuedSize
<1>4. /\ r.buf = [q.buf EXCEPT ![q.in] = b] /\ q.in \in 0 .. len - 1
      /\ q.buf \in [0 .. len - 1 -> Buffers]
  <2>1. q.buf \in [0 .. len - 1 -> Buffers]
    BY DEF QueueType
  <2> QED
    BY <1>1, <2>1, EnqueuedFields
<1>5. /\ Len(l) \in Nat /\ Len(e) = Len(l) + k
      /\ Len(Append(e, x)) = Len(e) + 1
      /\ \A i \in 1 .. Len(e) : Append(e, x)[i] = e[i]
      /\ Append(e, x)[Len(e) + 1] = x
  BY <1>2, LenProperties, AppendProperties DEF Bridges
<1>6. \A i \in 1 .. Len(l) : Append(e, x)[i] = l[i]
  BY <1>2, <1>5 DEF Bridges
<1>7. ASSUME NEW i \in 1 .. k + 1
      PROVE  n[r.buf[Slot(r, len, i)]] = Append(e, x)[Len(l) + i]
  <2>1. i \in 1 .. len /\ Slot(r, len, i) = Slot(q, len, i)
    BY <1>2, <1>3
  <2>2. CASE i = k + 1
    <3>1. r.buf[Slot(r, len, i)] = b
      BY <1>2, <1>4, <2>1, <2>2
    <3>2. Len(l) + i = Len(e) + 1
      BY <1>5, <2>2
    <3> QED
      BY <1>5, <3>1, <3>2
  <2>3. CASE i \in 1 .. k
    <3>1. Slot(q, len, i) \in 0 .. len - 1 /\ Slot(q, len, i) # q.in
      <4>1. PICK j \in 1 .. len : j = k + 1
        BY <1>2
      <4>2. i # j
        BY <2>3, <4>1
      <4>3. Slot(q, len, i) # Slot(q, len, j)
        BY <2>1, <4>2, SlotsDiffer
      <4> QED
        BY <1>2, <2>1, <4>1, <4>3, SlotWraps
    <3>2. n[r.buf[Slot(r, len, i)]] = m[q.buf[Slot(q, len, i)]]
      BY <1>4, <2>1, <3>1
    <3>3. m[q.buf[Slot(q, len, i)]] = e[Len(l) + i]
      BY <1>2, <2>3 DEF Bridges
    <3>4. Len(l) + i \in 1 .. Len(e)
      BY <1>2, <1>5, <2>3
    <3> QED
      BY <1>5, <3>2, <3>3, <3>4
  <2>4. i = k + 1 \/ i \in 1 .. k
    BY <1>2
  <2> QED
    BY <2>2, <2>3, <2>4
<1> QED
  <2>1. Len(Append(e, x)) = Len(l) + (k + 1)
    BY <1>5
  <2> QED
    BY <1>1, <1>3, <1>6, <1>7, <2>1 DEF Bridges

\* The message of the buffer at out leaves.
LEMMA BridgeLeaves ==
    ASSUME NEW len \in Nat \ {0}, NEW q \in QueueType(len), q.full => q.in = q.out,
           ~ IsEmpty(q), NEW T, NEW e \in Seq(T), NEW l \in Seq(T),
           NEW m, NEW n, Bridges(m, q, len, e, l),
           \A j \in 0 .. len - 1 : j # q.out => n[q.buf[j]] = m[q.buf[j]]
    PROVE  /\ m[q.buf[q.out]] \in T
           /\ Bridges(n, Dequeued(q), len, e, Append(l, m[q.buf[q.out]]))
<1>1. PICK r : r = Dequeued(q)
  OBVIOUS
<1>2. PICK k \in 1 .. len : k = Size(q, len)
  BY SizeRange
<1>3. /\ Size(r, len) = k - 1 /\ q.out = Slot(q, len, 1)
      /\ \A i \in 1 .. len - 1 : Slot(r, len, i) = Slot(q, len, i + 1)
      /\ r.buf = q.buf
  BY <1>1, <1>2, DequeuedSize, DequeuedFields
<1>4. PICK x : x = m[q.buf[q.out]]
  OBVIOUS
<1>5. /\ Len(l) \in Nat /\ Len(e) = Len(l) + k
      /\ \A i \in 1 .. k : m[q.buf[Slot(q, len, i)]] = e[Len(l) + i]
      /\ \A i \in 1 .. Len(l) : e[i] = l[i]
  BY <1>2, LenProperties DEF Bridges
<1>6. x = e[Len(l) + 1] /\ x \in T
  <2>1. 1 \in 1 .. k /\ Len(l) + 1 \in 1 .. Len(e)
    BY <1>2, <1>5
  <2>2. x = e[Len(l) + 1]
    BY <1>3, <1>4, <1>5, <2>1
  <2> QED
    BY <2>1, <2>2, ElementOfSeq
<1>7. /\ Len(Append(l, x)) = Len(l) + 1
      /\ \A i \in 1 .. Len(l) : Append(l, x)[i] = l[i]
      /\ Append(l, x)[Len(l) + 1] = x
  BY <1>6, AppendProperties
<1>8. \A i \in 1 .. Len(l) + 1 : e[i] = Append(l, x)[i]
  BY <1>5, <1>6, <1>7
<1>9. ASSUME NEW i \in 1 .. k - 1
      PROVE  n[r.buf[Slot(r, len, i)]] = e[(Len(l) + 1) + i]
  <2>1. i \in 1 .. len - 1 /\ i + 1 \in 1 .. k /\ i + 1 \in 1 .. len /\ 1 \in 1 .. len
    BY <1>2
  <2>2. Slot(r, len, i) = Slot(q, len, i + 1)
    BY <1>3, <2>1
  <2>3. Slot(q, len, i + 1) \in 0 .. len - 1 /\ Slot(q, len, i + 1) # q.out
    <3>1. PICK j \in 1 .. len : j = i + 1 /\ j # 1
      BY <2>1
    <3>2. Slot(q, len, j) # Slot(q, len, 1)
      BY <2>1, <3>1, SlotsDiffer
    <3> QED
      BY <1>3, <3>1, <3>2, SlotWraps
  <2>4. n[r.buf[Slot(r, len, i)]] = m[q.buf[Slot(q, len, i + 1)]]
    BY <1>3, <2>2, <2>3
  <2>5. m[q.buf[Slot(q, len, i + 1)]] = e[Len(l) + (i + 1)]
    BY <1>5, <2>1
  <2> QED
    BY <1>5, <2>4, <2>5
<1>10. Len(e) = (Len(l) + 1) + (k - 1)
  BY <1>2, <1>5
<1> QED
  <2>1. /\ Len(e) = Len(Append(l, x)) + Size(r, len)
        /\ \A i \in 1 .. Len(Append(l, x)) : e[i] = Append(l, x)[i]
    BY <1>3, <1>7, <1>8, <1>10
  <2>2. \A i \in 1 .. Size(r, len) :
            n[r.buf[Slot(r, len, i)]] = e[Len(Append(l, x)) + i]
    BY <1>3, <1>7, <1>9
  <2>3. Bridges(n, r, len, e, Append(l, x))
    BY <2>1, <2>2 DEF Bridges
  <2> QED
    BY <1>1, <1>4, <1>6, <2>3

\* One direction: the messages of T that entered queue q and those that left it,
\* in the memory m.  A queue into which nothing ever came may be closed.
Side(m, q, len, T, e, l) ==
    /\ e \in Seq(T) /\ l \in Seq(T)
    /\ q.full => q.in = q.out
    /\ e = <<>> => q.in = q.out /\ l = <<>>
    /\ e # <<>> => Bridges(m, q, len, e, l)

LEMMA OpenSide ==
    ASSUME NEW m, NEW q, NEW len, NEW T, NEW e, NEW l, Side(m, q, len, T, e, l), ~ q.full
    PROVE  Bridges(m, q, len, e, l)
BY BridgeStarts DEF Side, IsEmpty

LEMMA SideStays ==
    ASSUME NEW len \in Nat \ {0}, NEW q \in QueueType(len), NEW m, NEW n, NEW T,
           NEW e, NEW l, Side(m, q, len, T, e, l),
           \A j \in 0 .. len - 1 : n[q.buf[j]] = m[q.buf[j]]
    PROVE  Side(n, q, len, T, e, l)
BY BridgeStays DEF Side

\* The fields that matter stay what they are.
LEMMA SideSame ==
    ASSUME NEW len, NEW q, NEW r, NEW m, NEW T, NEW e, NEW l, Side(m, q, len, T, e, l),
           r.buf = q.buf, r.in = q.in, r.out = q.out, r.full = q.full
    PROVE  Side(m, r, len, T, e, l) /\ (IsEmpty(r) <=> IsEmpty(q))
BY DEF Side, Bridges, Size, Slot, IsEmpty

LEMMA SideOpens ==
    ASSUME NEW len, NEW q, NEW r, NEW m, NEW T, NEW l, Side(m, q, len, T, <<>>, l),
           r.in = q.in, r.out = q.out, r.full = FALSE
    PROVE  Side(m, r, len, T, <<>>, l)
BY DEF Side

\* The buffer b brings the message x, and what waits in the queue is left alone.
Brings(m, n, q, len, b, x) ==
    /\ b \in Buffers /\ n[b] = x
    /\ \A j \in 0 .. len - 1 : n[q.buf[j]] = m[q.buf[j]]

LEMMA SideEnters ==
    ASSUME NEW len \in Nat \ {0}, NEW q \in QueueType(len), ~ q.full,
           NEW T, NEW e, NEW l, NEW x \in T, NEW m, NEW n, NEW b,
           Side(m, q, len, T, e, l), Brings(m, n, q, len, b, x)
    PROVE  /\ Side(n, Enqueued(q, b), len, T, Append(e, x), l)
           /\ Append(e, x) # <<>> /\ ~ IsEmpty(Enqueued(q, b))
<1>1. e \in Seq(T) /\ l \in Seq(T)
  BY DEF Side
<1>2. Bridges(m, q, len, e, l)
  BY OpenSide
<1>3. /\ b \in Buffers /\ n[b] = x
      /\ \A j \in 0 .. len - 1 : n[q.buf[j]] = m[q.buf[j]]
  BY DEF Brings
<1>4. Bridges(n, Enqueued(q, b), len, Append(e, x), l)
  BY <1>1, <1>2, <1>3, BridgeEnters
<1>6. /\ Enqueued(q, b).full => Enqueued(q, b).in = Enqueued(q, b).out
      /\ ~ IsEmpty(Enqueued(q, b))
  BY <1>3, EnqueuedSize
<1>5. Append(e, x) \in Seq(T) /\ Append(e, x) # <<>>
  BY <1>1, AppendProperties
<1> QED
  BY <1>1, <1>4, <1>5, <1>6 DEF Side

LEMMA SideLeaves ==
    ASSUME NEW len \in Nat \ {0}, NEW q \in QueueType(len), ~ IsEmpty(q),
           NEW T, NEW e, NEW l, NEW m, NEW n, e # <<>>, Side(m, q, len, T, e, l),
           \A j \in 0 .. len - 1 : j # q.out => n[q.buf[j]] = m[q.buf[j]]
    PROVE  /\ m[q.buf[q.out]] \in T
           /\ Side(n, Dequeued(q), len, T, e, Append(l, m[q.buf[q.out]]))
<1>1. /\ e \in Seq(T) /\ l \in Seq(T) /\ Bridges(m, q, len, e, l)
      /\ q.full => q.in = q.out
  BY DEF Side
<1>2. /\ m[q.buf[q.out]] \in T
      /\ Bridges(n, Dequeued(q), len, e, Append(l, m[q.buf[q.out]]))
  BY <1>1, BridgeLeaves
<1>3. Dequeued(q).full = FALSE
  BY DequeuedFields
<1>4. Append(l, m[q.buf[q.out]]) \in Seq(T)
  BY <1>1, <1>2, AppendProperties
<1> QED
  BY <1>1, <1>2, <1>3, <1>4 DEF Side

-----------------------------------------------------------------------------
(***************************************************************************)
(* The two directions.  Before the first message of one, its tasks are not *)
(* posted and nothing of it is being sent; it is opened before the first   *)
(* message; what is being sent waits in the queue.                         *)
(***************************************************************************)
UartInv ==
    /\ Side(mem, uart, UART_QUEUE_LEN, FromRadio, entered.uart, left.uart)
    /\ entered.uart = <<>> => /\ "uartSend" \notin tasks /\ "sendDone" \notin tasks
                              /\ sendBuffer = None
                              /\ tx.data = "available" /\ tx.proto = "ack"
    /\ "serial" \in starting => entered.uart = <<>> /\ uart.full
    /\ sendBuffer # None => ~ IsEmpty(uart)

RadioInv ==
    /\ Side(mem, radio, RADIO_QUEUE_LEN, FromHost, entered.radio, left.radio)
    /\ entered.radio = <<>> => "radioSend" \notin tasks /\ radioTx = None
    /\ "radio" \in starting => entered.radio = <<>> /\ radio.full
    /\ radioTx # None => ~ IsEmpty(radio)

\* What receiveTask will give is a message of the host.
GivenInv ==
    /\ given \subseteq FromHost
    /\ "receive" \in tasks => mem[recv.taskBuf] \in FromHost

Histories ==
    /\ entered \in [uart : Seq(FromRadio), radio : Seq(FromHost)]
    /\ left \in [uart : Seq(FromRadio), radio : Seq(FromHost)]

BridgeInv == UartInv /\ RadioInv /\ GivenInv /\ Histories

LEMMA InitBridge == Init => BridgeInv
<1> SUFFICES ASSUME Init PROVE BridgeInv
  OBVIOUS
<1>1. /\ uart.in = uart.out /\ radio.in = radio.out /\ uart.full /\ radio.full
  BY DEF Init, Queue
<1>2. /\ entered = [uart |-> <<>>, radio |-> <<>>] /\ left = entered
      /\ entered.uart = <<>> /\ entered.radio = <<>>
      /\ left.uart = <<>> /\ left.radio = <<>>
  BY DEF Init
<1>3. <<>> \in Seq(FromRadio) /\ <<>> \in Seq(FromHost)
  BY EmptySeq
<1>4. UartInv /\ RadioInv
  BY <1>1, <1>2, <1>3 DEF Init, UartInv, RadioInv, Side
<1>5. Histories
  BY <1>2, <1>3 DEF Histories
<1> QED
  BY <1>4, <1>5 DEF Init, BridgeInv, GivenInv

\* A step of the other direction, or of the line.
LEMMA UartKept ==
    ASSUME BoardInv, UartInv, uart' = uart, entered'.uart = entered.uart,
           left'.uart = left.uart, sendBuffer' = sendBuffer,
           tx'.data = tx.data, tx'.proto = tx.proto, starting' \subseteq starting,
           "uartSend" \in tasks' => "uartSend" \in tasks,
           "sendDone" \in tasks' => "sendDone" \in tasks,
           \A j \in 0 .. UART_QUEUE_LEN - 1 : mem'[uart.buf[j]] = mem[uart.buf[j]]
    PROVE  UartInv'
<1>1. uart \in QueueType(UART_QUEUE_LEN) /\ UART_QUEUE_LEN \in Nat \ {0}
  BY Lengths DEF BoardInv, BoardType
<1>2. Side(mem', uart, UART_QUEUE_LEN, FromRadio, entered.uart, left.uart)
  BY <1>1, SideStays DEF UartInv
<1>3. Side(mem', uart', UART_QUEUE_LEN, FromRadio, entered'.uart, left'.uart)
  BY <1>2
<1> QED
  BY <1>3 DEF UartInv

LEMMA RadioKept ==
    ASSUME BoardInv, RadioInv, radio' = radio, entered'.radio = entered.radio,
           left'.radio = left.radio, radioTx' = radioTx, starting' \subseteq starting,
           "radioSend" \in tasks' => "radioSend" \in tasks,
           \A j \in 0 .. RADIO_QUEUE_LEN - 1 : mem'[radio.buf[j]] = mem[radio.buf[j]]
    PROVE  RadioInv'
<1>1. radio \in QueueType(RADIO_QUEUE_LEN) /\ RADIO_QUEUE_LEN \in Nat \ {0}
  BY Lengths DEF BoardInv, BoardType
<1>2. Side(mem', radio, RADIO_QUEUE_LEN, FromHost, entered.radio, left.radio)
  BY <1>1, SideStays DEF RadioInv
<1>3. Side(mem', radio', RADIO_QUEUE_LEN, FromHost, entered'.radio, left'.radio)
  BY <1>2
<1> QED
  BY <1>3 DEF RadioInv

LEMMA GivenKept ==
    ASSUME GivenInv, given' = given, recv'.taskBuf = recv.taskBuf,
           "receive" \in tasks' => /\ "receive" \in tasks
                                   /\ mem'[recv.taskBuf] = mem[recv.taskBuf]
    PROVE  GivenInv'
BY DEF GivenInv

\* The buffer of a pending message is not in a queue, nor the radio's.
LEMMA PendingApart ==
    ASSUME BoardInv, OwnInv, "receive" \in tasks
    PROVE  /\ recv.pending /\ recv.taskBuf \in Buffers /\ recv.taskBuf # radioRx
           /\ \A i \in 0 .. UART_QUEUE_LEN - 1 : uart.buf[i] # recv.taskBuf
           /\ \A i \in 0 .. RADIO_QUEUE_LEN - 1 : radio.buf[i] # recv.taskBuf
<1>1. /\ recv.pending /\ recv.taskBuf \in Buffers /\ recv.taskWhich \in 0 .. 1
  BY DEF BoardInv, BoardType
<1>2. Held(recv.taskWhich) = recv.taskBuf
  BY <1>1 DEF Held
<1> QED
  BY <1>1, <1>2, Apart

\* No more is the buffer into which a frame is coming.
LEMMA CurrentApart ==
    ASSUME BoardInv, OwnInv, ~ recv.pending
    PROVE  /\ \A i \in 0 .. UART_QUEUE_LEN - 1 : uart.buf[i] # recv.ptrs[recv.which]
           /\ \A i \in 0 .. RADIO_QUEUE_LEN - 1 : radio.buf[i] # recv.ptrs[recv.which]
<1>1. recv.which \in 0 .. 1
  BY DEF BoardInv, BoardType
<1>2. Held(recv.which) = recv.ptrs[recv.which]
  BY DEF Held
<1> QED
  BY <1>1, <1>2, Apart

LEMMA StartDoneBridge ==
    ASSUME BoardInv, BridgeInv, RadioStartDone \/ SerialStartDone
    PROVE  BridgeInv'
<1> USE DEF BridgeInv
<1>1. /\ UNCHANGED <<mem, tasks, radioTx, recv, sendBuffer, tx, given, entered, left>>
      /\ starting' \subseteq starting
  BY DEF RadioStartDone, SerialStartDone, radioStack, receiver, sender, hist
<1>2. uart \in QueueType(UART_QUEUE_LEN) /\ radio \in QueueType(RADIO_QUEUE_LEN)
  BY DEF BoardInv, BoardType
<1>3. UartInv'
  <2>1. CASE uart' = uart
    BY <1>1, <2>1, UartKept
  <2>2. CASE uart' # uart
    <3>1. /\ uart' = [uart EXCEPT !.full = FALSE] /\ "serial" \notin starting'
          /\ "serial" \in starting
      BY <2>2 DEF RadioStartDone, SerialStartDone
    <3>2. /\ uart'.in = uart.in /\ uart'.out = uart.out /\ uart'.full = FALSE
      BY <1>2, <3>1 DEF QueueType
    <3>3. entered.uart = <<>> /\ sendBuffer = None
      BY <3>1 DEF UartInv
    <3>4. Side(mem, uart, UART_QUEUE_LEN, FromRadio, <<>>, left.uart)
      BY <3>3 DEF UartInv
    <3>5. Side(mem, uart', UART_QUEUE_LEN, FromRadio, <<>>, left.uart)
      BY <3>2, <3>4, SideOpens
    <3> QED
      BY <1>1, <3>1, <3>3, <3>5 DEF UartInv
  <2> QED
    BY <2>1, <2>2
<1>4. RadioInv'
  <2>1. CASE radio' = radio
    BY <1>1, <2>1, RadioKept
  <2>2. CASE radio' # radio
    <3>1. /\ radio' = [radio EXCEPT !.full = FALSE] /\ "radio" \notin starting'
          /\ "radio" \in starting
      BY <2>2 DEF RadioStartDone, SerialStartDone
    <3>2. /\ radio'.in = radio.in /\ radio'.out = radio.out /\ radio'.full = FALSE
      BY <1>2, <3>1 DEF QueueType
    <3>3. entered.radio = <<>> /\ radioTx = None
      BY <3>1 DEF RadioInv
    <3>4. Side(mem, radio, RADIO_QUEUE_LEN, FromHost, <<>>, left.radio)
      BY <3>3 DEF RadioInv
    <3>5. Side(mem, radio', RADIO_QUEUE_LEN, FromHost, <<>>, left.radio)
      BY <3>2, <3>4, SideOpens
    <3> QED
      BY <1>1, <3>1, <3>3, <3>5 DEF RadioInv
  <2> QED
    BY <2>1, <2>2
<1>5. GivenInv' /\ Histories'
  BY <1>1, GivenKept DEF Histories
<1> QED
  BY <1>3, <1>4, <1>5

LEMMA RadioReceiveBridge ==
    ASSUME BoardInv, OwnInv, BridgeInv, RadioReceive
    PROVE  BridgeInv'
<1> USE DEF BridgeInv
<1>1. UNCHANGED <<radio, starting, radioTx, recv, sendBuffer, tx, given, left>>
  BY DEF RadioReceive, receiver, sender
<1>2. CASE uart.full
  <2>1. UNCHANGED <<mem, uart, tasks, entered>>
    BY <1>2 DEF RadioReceive
  <2> QED
    BY <1>1, <2>1, UartKept, RadioKept, GivenKept DEF Histories
<1>3. CASE ~ uart.full
  <2>1. PICK m : m = HostMessages + heard + 1
    OBVIOUS
  <2>2. m \in FromRadio
    BY <2>1, MessagesAssumption DEF RadioReceive, BoardInv, BoardType, FromRadio
  <2>3. /\ mem' = [mem EXCEPT ![radioRx] = m]
        /\ uart' = Enqueued(uart, radioRx)
        /\ tasks' = tasks \cup Post(uart.busy, "uartSend")
        /\ entered' = [entered EXCEPT !.uart = Append(@, m)]
    BY <1>3, <2>1 DEF RadioReceive
  <2>4. /\ entered'.uart = Append(entered.uart, m) /\ entered'.radio = entered.radio
    BY <2>3 DEF Histories
  <2>5. /\ radioRx \in Buffers /\ mem'[radioRx] = m
        /\ \A b \in Buffers : b # radioRx => mem'[b] = mem[b]
    BY <2>3 DEF BoardInv, BoardType
  <2>6. /\ uart \in QueueType(UART_QUEUE_LEN) /\ UART_QUEUE_LEN \in Nat \ {0}
        /\ \A j \in 0 .. UART_QUEUE_LEN - 1 : uart.buf[j] \in Buffers
        /\ \A j \in 0 .. RADIO_QUEUE_LEN - 1 : radio.buf[j] \in Buffers
    BY Lengths DEF BoardInv, BoardType, QueueType
  <2>7. /\ \A j \in 0 .. UART_QUEUE_LEN - 1 : mem'[uart.buf[j]] = mem[uart.buf[j]]
        /\ \A j \in 0 .. RADIO_QUEUE_LEN - 1 : mem'[radio.buf[j]] = mem[radio.buf[j]]
    BY <2>5, <2>6, Apart
  <2>8. UartInv'
    <3>1. /\ Side(mem', Enqueued(uart, radioRx), UART_QUEUE_LEN, FromRadio,
                  Append(entered.uart, m), left.uart)
          /\ Append(entered.uart, m) # <<>> /\ ~ IsEmpty(Enqueued(uart, radioRx))
      <4>1. PICK len, q, n, e, l, b :
                /\ len = UART_QUEUE_LEN /\ q = uart /\ n = mem' /\ b = radioRx
                /\ e = entered.uart /\ l = left.uart
        OBVIOUS
      <4>2. len \in Nat \ {0} /\ q \in QueueType(len) /\ b \in Buffers
        BY <2>5, <2>6, <4>1
      <4>3. /\ Side(mem, q, len, FromRadio, e, l) /\ n[b] = m /\ ~ q.full
            /\ \A j \in 0 .. len - 1 : n[q.buf[j]] = mem[q.buf[j]]
        BY <1>3, <2>5, <2>7, <4>1 DEF UartInv
      <4>4. /\ Side(n, Enqueued(q, b), len, FromRadio, Append(e, m), l)
            /\ Append(e, m) # <<>> /\ ~ IsEmpty(Enqueued(q, b))
        <5>1. m \in FromRadio /\ Brings(mem, n, q, len, b, m)
          BY <2>2, <4>2, <4>3 DEF Brings
        <5>2. Side(mem, q, len, FromRadio, e, l) /\ ~ q.full
          BY <4>3
        <5> QED
          BY <4>2, <5>1, <5>2, SideEnters
      <4> QED
        BY <4>1, <4>4
    <3>2. /\ Side(mem', uart', UART_QUEUE_LEN, FromRadio, entered'.uart, left'.uart)
          /\ entered'.uart # <<>> /\ ~ IsEmpty(uart')
      BY <1>1, <2>3, <2>4, <3>1
    <3>3. "serial" \notin starting'
      BY <1>1, <1>3 DEF UartInv
    <3> QED
      BY <3>2, <3>3 DEF UartInv
  <2>9. RadioInv'
    BY <1>1, <2>3, <2>4, <2>7, RadioKept DEF Post
  <2>10. GivenInv'
    <3>1. "receive" \in tasks' => "receive" \in tasks
      BY <2>3 DEF Post
    <3> QED
      BY <1>1, <2>5, <3>1, GivenKept, PendingApart
  <2>11. Histories'
    <3>1. Append(entered.uart, m) \in Seq(FromRadio)
      BY <2>2, AppendProperties DEF Histories
    <3> QED
      BY <1>1, <2>3, <3>1 DEF Histories
  <2> QED
    BY <2>8, <2>9, <2>10, <2>11
<1> QED
  BY <1>2, <1>3

LEMMA UartSendTaskBridge ==
    ASSUME BoardInv, BridgeInv, UartSendTask
    PROVE  BridgeInv'
<1> USE DEF BridgeInv
<1>1. /\ UNCHANGED <<mem, radio, starting, radioTx, recv, given, entered, left>>
      /\ "uartSend" \in tasks
  BY DEF UartSendTask, radioStack, receiver, hist
<1>2. "radioSend" \in tasks' => "radioSend" \in tasks
  BY DEF UartSendTask
<1>3. "receive" \in tasks' => "receive" \in tasks
  BY DEF UartSendTask
<1>4. entered.uart # <<>>
  BY <1>1 DEF UartInv
<1>5. \/ uart' = uart \/ uart' = [uart EXCEPT !.busy = FALSE]
  BY DEF UartSendTask
<1>6. /\ uart'.buf = uart.buf /\ uart'.in = uart.in /\ uart'.out = uart.out
      /\ uart'.full = uart.full
  <2>1. uart \in QueueType(UART_QUEUE_LEN)
    BY DEF BoardInv, BoardType
  <2> QED
    BY <1>5, <2>1 DEF QueueType
<1>7. /\ Side(mem', uart', UART_QUEUE_LEN, FromRadio, entered'.uart, left'.uart)
      /\ IsEmpty(uart') <=> IsEmpty(uart)
  BY <1>1, <1>6, SideSame DEF UartInv
<1>8. sendBuffer' # None => ~ IsEmpty(uart)
  BY DEF UartSendTask, UartInv, sender
<1>9. UartInv'
  BY <1>1, <1>4, <1>6, <1>7, <1>8 DEF UartInv
<1>10. RadioInv'
  BY <1>1, <1>2, RadioKept
<1>11. GivenInv' /\ Histories'
  BY <1>1, <1>3, GivenKept DEF Histories
<1> QED
  BY <1>9, <1>10, <1>11

LEMMA UartSendDoneBridge ==
    ASSUME BoardInv, OwnInv, BridgeInv, UartSendDone
    PROVE  BridgeInv'
<1> USE DEF BridgeInv
<1>1. /\ UNCHANGED <<radio, starting, radioTx, recv, tx, given, entered>>
      /\ "sendDone" \in tasks /\ sendBuffer' = None
      /\ "radioSend" \in tasks' => "radioSend" \in tasks
      /\ "receive" \in tasks' => "receive" \in tasks
  BY DEF UartSendDone, radioStack, receiver
<1>2. entered.uart # <<>> /\ entered.uart = entered'.uart /\ "serial" \notin starting'
  BY <1>1 DEF UartInv
<1>3. CASE sendError \/ sendBuffer # uart.buf[uart.out]
  <2>1. UNCHANGED <<mem, uart, left>>
    BY <1>3 DEF UartSendDone
  <2>2. UartInv'
    BY <1>1, <1>2, <2>1 DEF UartInv
  <2> QED
    BY <1>1, <2>1, <2>2, RadioKept, GivenKept DEF Histories
<1>4. CASE ~ (sendError \/ sendBuffer # uart.buf[uart.out])
  <2>1. /\ uart' = Dequeued(uart)
        /\ left' = [left EXCEPT !.uart = Append(@, mem[sendBuffer])]
        /\ mem' = [mem EXCEPT ![sendBuffer] = None]
        /\ sendBuffer = uart.buf[uart.out]
    BY <1>4 DEF UartSendDone
  <2>2. /\ uart \in QueueType(UART_QUEUE_LEN) /\ UART_QUEUE_LEN \in Nat \ {0}
        /\ \A j \in 0 .. UART_QUEUE_LEN - 1 : uart.buf[j] \in Buffers
        /\ \A j \in 0 .. RADIO_QUEUE_LEN - 1 : radio.buf[j] \in Buffers
        /\ uart.out \in 0 .. UART_QUEUE_LEN - 1
    BY Lengths DEF BoardInv, BoardType, QueueType
  <2>3. sendBuffer \in Buffers /\ sendBuffer # None /\ ~ IsEmpty(uart)
    BY <2>1, <2>2, Lengths DEF UartInv
  <2>4. \A b \in Buffers : b # sendBuffer => mem'[b] = mem[b]
    BY <2>1 DEF BoardInv, BoardType
  <2>5. /\ \A j \in 0 .. UART_QUEUE_LEN - 1 :
               j # uart.out => mem'[uart.buf[j]] = mem[uart.buf[j]]
        /\ \A j \in 0 .. RADIO_QUEUE_LEN - 1 : mem'[radio.buf[j]] = mem[radio.buf[j]]
    BY <2>1, <2>2, <2>4, Apart
  <2>6. PICK m : m = mem[sendBuffer]
    OBVIOUS
  <2>7. left'.uart = Append(left.uart, m) /\ left'.radio = left.radio
    BY <2>1, <2>6 DEF Histories
  <2>8. /\ m \in FromRadio
        /\ Side(mem', uart', UART_QUEUE_LEN, FromRadio, entered'.uart, left'.uart)
    <3>1. PICK len, q, n, e, l : /\ len = UART_QUEUE_LEN /\ q = uart /\ n = mem'
                                 /\ e = entered.uart /\ l = left.uart
      OBVIOUS
    <3>2. len \in Nat \ {0} /\ q \in QueueType(len) /\ ~ IsEmpty(q) /\ e # <<>>
      BY <1>2, <2>2, <2>3, <3>1
    <3>3. /\ Side(mem, q, len, FromRadio, e, l)
          /\ \A j \in 0 .. len - 1 : j # q.out => n[q.buf[j]] = mem[q.buf[j]]
      BY <2>5, <3>1 DEF UartInv
    <3>4. /\ mem[q.buf[q.out]] \in FromRadio
          /\ Side(n, Dequeued(q), len, FromRadio, e, Append(l, mem[q.buf[q.out]]))
      BY <3>2, <3>3, SideLeaves
    <3>5. mem[q.buf[q.out]] = m
      BY <2>1, <2>6, <3>1
    <3> QED
      BY <1>1, <2>1, <2>7, <3>1, <3>4, <3>5
  <2>9. UartInv'
    BY <1>1, <1>2, <2>8 DEF UartInv
  <2>10. RadioInv'
    BY <1>1, <2>5, <2>7, RadioKept
  <2>11. GivenInv'
    BY <1>1, <2>1, <2>2, <2>4, GivenKept, PendingApart
  <2>12. Histories'
    <3>1. Append(left.uart, m) \in Seq(FromRadio)
      BY <2>8, AppendProperties DEF Histories
    <3> QED
      BY <1>1, <2>1, <2>6, <3>1 DEF Histories
  <2> QED
    BY <2>9, <2>10, <2>11, <2>12
<1> QED
  BY <1>3, <1>4

LEMMA RadioSendTaskBridge ==
    ASSUME BoardInv, BridgeInv, RadioSendTask
    PROVE  BridgeInv'
<1> USE DEF BridgeInv
<1>1. /\ UNCHANGED <<mem, uart, starting, recv, sendBuffer, tx, given, entered, left>>
      /\ "radioSend" \in tasks /\ tasks' \subseteq tasks
  BY DEF RadioSendTask, receiver, sender, hist
<1>2. entered.radio # <<>>
  BY <1>1 DEF RadioInv
<1>3. \/ radio' = radio \/ radio' = [radio EXCEPT !.busy = FALSE]
  BY DEF RadioSendTask
<1>4. /\ radio'.buf = radio.buf /\ radio'.in = radio.in /\ radio'.out = radio.out
      /\ radio'.full = radio.full
  <2>1. radio \in QueueType(RADIO_QUEUE_LEN)
    BY DEF BoardInv, BoardType
  <2> QED
    BY <1>3, <2>1 DEF QueueType
<1>5. /\ Side(mem', radio', RADIO_QUEUE_LEN, FromHost, entered'.radio, left'.radio)
      /\ IsEmpty(radio') <=> IsEmpty(radio)
  BY <1>1, <1>4, SideSame DEF RadioInv
<1>6. radioTx' # None => ~ IsEmpty(radio)
  BY DEF RadioSendTask, RadioInv
<1>7. RadioInv'
  BY <1>1, <1>2, <1>4, <1>5, <1>6 DEF RadioInv
<1>8. UartInv'
  BY <1>1, UartKept
<1>9. GivenInv' /\ Histories'
  BY <1>1, GivenKept DEF Histories
<1> QED
  BY <1>7, <1>8, <1>9

LEMMA RadioSendDoneBridge ==
    ASSUME BoardInv, OwnInv, BridgeInv, NEW error \in BOOLEAN, RadioSendDone(error)
    PROVE  BridgeInv'
<1> USE DEF BridgeInv
<1>1. /\ UNCHANGED <<uart, starting, recv, sendBuffer, tx, given, entered>>
      /\ radioTx # None /\ radioTx' = None
      /\ "uartSend" \in tasks' => "uartSend" \in tasks
      /\ "sendDone" \in tasks' => "sendDone" \in tasks
      /\ "receive" \in tasks' => "receive" \in tasks
  BY DEF RadioSendDone, receiver, sender
<1>2. /\ entered.radio # <<>> /\ entered.radio = entered'.radio
      /\ "radio" \notin starting' /\ ~ IsEmpty(radio)
  BY <1>1 DEF RadioInv
<1>3. CASE error \/ radioTx # radio.buf[radio.out]
  <2>1. UNCHANGED <<mem, radio, left>>
    BY <1>3 DEF RadioSendDone
  <2>2. RadioInv'
    BY <1>1, <1>2, <2>1 DEF RadioInv
  <2> QED
    BY <1>1, <2>1, <2>2, UartKept, GivenKept DEF Histories
<1>4. CASE ~ (error \/ radioTx # radio.buf[radio.out])
  <2>1. /\ radio' = Dequeued(radio)
        /\ left' = [left EXCEPT !.radio = Append(@, mem[radioTx])]
        /\ mem' = [mem EXCEPT ![radioTx] = None]
        /\ radioTx = radio.buf[radio.out]
    BY <1>4 DEF RadioSendDone
  <2>2. /\ radio \in QueueType(RADIO_QUEUE_LEN) /\ RADIO_QUEUE_LEN \in Nat \ {0}
        /\ \A j \in 0 .. UART_QUEUE_LEN - 1 : uart.buf[j] \in Buffers
        /\ \A j \in 0 .. RADIO_QUEUE_LEN - 1 : radio.buf[j] \in Buffers
        /\ radio.out \in 0 .. RADIO_QUEUE_LEN - 1
    BY Lengths DEF BoardInv, BoardType, QueueType
  <2>3. \A b \in Buffers : b # radioTx => mem'[b] = mem[b]
    BY <2>1 DEF BoardInv, BoardType
  <2>4. /\ \A j \in 0 .. RADIO_QUEUE_LEN - 1 :
               j # radio.out => mem'[radio.buf[j]] = mem[radio.buf[j]]
        /\ \A j \in 0 .. UART_QUEUE_LEN - 1 : mem'[uart.buf[j]] = mem[uart.buf[j]]
    BY <2>1, <2>2, <2>3, Apart
  <2>5. PICK m : m = mem[radioTx]
    OBVIOUS
  <2>6. left'.radio = Append(left.radio, m) /\ left'.uart = left.uart
    BY <2>1, <2>5 DEF Histories
  <2>7. /\ m \in FromHost
        /\ Side(mem', radio', RADIO_QUEUE_LEN, FromHost, entered'.radio, left'.radio)
    <3>1. PICK len, q, n, e, l : /\ len = RADIO_QUEUE_LEN /\ q = radio /\ n = mem'
                                 /\ e = entered.radio /\ l = left.radio
      OBVIOUS
    <3>2. len \in Nat \ {0} /\ q \in QueueType(len) /\ ~ IsEmpty(q) /\ e # <<>>
      BY <1>2, <2>2, <3>1
    <3>3. /\ Side(mem, q, len, FromHost, e, l)
          /\ \A j \in 0 .. len - 1 : j # q.out => n[q.buf[j]] = mem[q.buf[j]]
      BY <2>4, <3>1 DEF RadioInv
    <3>4. /\ mem[q.buf[q.out]] \in FromHost
          /\ Side(n, Dequeued(q), len, FromHost, e, Append(l, mem[q.buf[q.out]]))
      BY <3>2, <3>3, SideLeaves
    <3>5. mem[q.buf[q.out]] = m
      BY <2>1, <2>5, <3>1
    <3> QED
      BY <1>1, <2>1, <2>6, <3>1, <3>4, <3>5
  <2>8. RadioInv'
    BY <1>1, <1>2, <2>7 DEF RadioInv
  <2>9. UartInv'
    BY <1>1, <2>4, <2>6, UartKept
  <2>10. GivenInv'
    BY <1>1, <2>1, <2>2, <2>3, GivenKept, PendingApart
  <2>11. Histories'
    <3>1. Append(left.radio, m) \in Seq(FromHost)
      BY <2>7, AppendProperties DEF Histories
    <3> QED
      BY <1>1, <2>1, <2>5, <3>1 DEF Histories
  <2> QED
    BY <2>8, <2>9, <2>10, <2>11
<1> QED
  BY <1>3, <1>4

LEMMA ReceiveTaskBridge ==
    ASSUME BoardInv, OwnInv, BridgeInv, ReceiveTask
    PROVE  BridgeInv'
<1> USE DEF BridgeInv
<1>1. /\ UNCHANGED <<uart, starting, radioTx, sendBuffer, tx, left>>
      /\ "receive" \in tasks /\ "receive" \notin tasks'
      /\ "uartSend" \in tasks' => "uartSend" \in tasks
      /\ "sendDone" \in tasks' => "sendDone" \in tasks
  BY DEF ReceiveTask, radioStack, sender, Post
<1>2. PICK b, m : b = recv.taskBuf /\ m = mem[recv.taskBuf]
  OBVIOUS
<1>3. /\ m \in FromHost /\ b \in Buffers
      /\ \A i \in 0 .. UART_QUEUE_LEN - 1 : uart.buf[i] # b
      /\ \A i \in 0 .. RADIO_QUEUE_LEN - 1 : radio.buf[i] # b
  BY <1>1, <1>2, PendingApart DEF GivenInv
<1>4. GivenInv'
  BY <1>1, <1>2, <1>3, ReceiveTaskFields DEF GivenInv
<1>5. /\ radio \in QueueType(RADIO_QUEUE_LEN) /\ RADIO_QUEUE_LEN \in Nat \ {0}
      /\ \A j \in 0 .. UART_QUEUE_LEN - 1 : uart.buf[j] \in Buffers
      /\ \A j \in 0 .. RADIO_QUEUE_LEN - 1 : radio.buf[j] \in Buffers
  BY Lengths DEF BoardInv, BoardType, QueueType
<1>6. CASE radio.full
  <2>1. /\ UNCHANGED <<radio, entered>> /\ mem' = [mem EXCEPT ![b] = None]
        /\ "radioSend" \in tasks' => "radioSend" \in tasks
    BY <1>2, <1>6 DEF ReceiveTask
  <2>2. /\ \A j \in 0 .. UART_QUEUE_LEN - 1 : mem'[uart.buf[j]] = mem[uart.buf[j]]
        /\ \A j \in 0 .. RADIO_QUEUE_LEN - 1 : mem'[radio.buf[j]] = mem[radio.buf[j]]
    BY <1>3, <1>5, <2>1 DEF BoardInv, BoardType
  <2> QED
    BY <1>1, <1>4, <2>1, <2>2, UartKept, RadioKept DEF Histories
<1>7. CASE ~ radio.full
  <2>1. /\ radio' = Enqueued(radio, b) /\ UNCHANGED mem
        /\ entered' = [entered EXCEPT !.radio = Append(@, m)]
    BY <1>2, <1>7 DEF ReceiveTask
  <2>2. entered'.radio = Append(entered.radio, m) /\ entered'.uart = entered.uart
    BY <2>1 DEF Histories
  <2>3. UartInv'
    BY <1>1, <2>1, <2>2, UartKept
  <2>4. RadioInv'
    <3>1. /\ Side(mem', radio', RADIO_QUEUE_LEN, FromHost, entered'.radio, left'.radio)
          /\ entered'.radio # <<>> /\ ~ IsEmpty(radio')
      <4>1. PICK len, q, n, e, l : /\ len = RADIO_QUEUE_LEN /\ q = radio /\ n = mem
                                   /\ e = entered.radio /\ l = left.radio
        OBVIOUS
      <4>2. len \in Nat \ {0} /\ q \in QueueType(len)
        BY <1>5, <4>1
      <4>3. /\ Side(mem, q, len, FromHost, e, l) /\ n[b] = m /\ ~ q.full
            /\ \A j \in 0 .. len - 1 : n[q.buf[j]] = mem[q.buf[j]]
        BY <1>2, <1>7, <4>1 DEF RadioInv
      <4>4. /\ Side(n, Enqueued(q, b), len, FromHost, Append(e, m), l)
            /\ Append(e, m) # <<>> /\ ~ IsEmpty(Enqueued(q, b))
        <5>1. m \in FromHost /\ Brings(mem, n, q, len, b, m)
          BY <1>3, <4>3 DEF Brings
        <5>2. Side(mem, q, len, FromHost, e, l) /\ ~ q.full
          BY <4>3
        <5> QED
          BY <4>2, <5>1, <5>2, SideEnters
      <4> QED
        BY <1>1, <2>1, <2>2, <4>1, <4>4
    <3>2. "radio" \notin starting'
      BY <1>1, <1>7 DEF RadioInv
    <3> QED
      BY <3>1, <3>2 DEF RadioInv
  <2>5. Histories'
    <3>1. Append(entered.radio, m) \in Seq(FromHost)
      BY <1>3, AppendProperties DEF Histories
    <3> QED
      BY <1>1, <2>1, <3>1 DEF Histories
  <2> QED
    BY <1>4, <2>3, <2>4, <2>5
<1> QED
  BY <1>6, <1>7

\* A data frame is only over when one was sent.
LEMMA RunTxBridge ==
    ASSUME BoardInv, BridgeInv, RunTx
    PROVE  BridgeInv'
<1> USE DEF BridgeInv
<1>1. /\ UNCHANGED <<mem, uart, radio, starting, radioTx, recv, sendBuffer, given,
                     entered, left>>
      /\ "uartSend" \in tasks' => "uartSend" \in tasks
      /\ "radioSend" \in tasks' => "radioSend" \in tasks
      /\ "receive" \in tasks' => "receive" \in tasks
  BY DEF RunTx, app, radioStack, receiver, hist
<1>2. CASE entered.uart = <<>>
  <2>1. tx.data = "available" /\ tx.proto = "ack"
    BY <1>2 DEF UartInv
  <2>2. /\ tx' = IF tx.state = "sending" THEN tx ELSE NextFrame(ackQ', tx)
        /\ "sendDone" \in tasks' => "sendDone" \in tasks
    BY <2>1 DEF RunTx
  <2>3. tx'.data = tx.data /\ tx'.proto = tx.proto
    BY <2>1, <2>2 DEF NextFrame, BoardInv, BoardType
  <2> QED
    BY <1>1, <2>2, <2>3, UartKept, RadioKept, GivenKept DEF Histories
<1>3. CASE entered.uart # <<>>
  <2>1. UartInv'
    BY <1>1, <1>3 DEF UartInv
  <2> QED
    BY <1>1, <2>1, RadioKept, GivenKept DEF Histories
<1> QED
  BY <1>2, <1>3

\* The interrupts of the line, and the end of receiveTask.
LEMMA LineBridge ==
    ASSUME BoardInv, OwnInv, BridgeInv,
           \/ FrameStarts \/ FrameEnds \/ FrameFails \/ Received
           \/ \E error \in BOOLEAN : PutDone(error)
    PROVE  BridgeInv'
<1> USE DEF BridgeInv
<1>1. CASE FrameEnds
  <2>1. /\ UNCHANGED <<uart, radio, starting, radioTx, sendBuffer, tx, given, entered,
                       left>>
        /\ "uartSend" \in tasks' => "uartSend" \in tasks
        /\ "radioSend" \in tasks' => "radioSend" \in tasks
        /\ "sendDone" \in tasks' => "sendDone" \in tasks
    BY <1>1 DEF FrameEnds, Post, app, radioStack, sender, hist
  <2>2. PICK b : b = recv.ptrs[recv.which]
    OBVIOUS
  <2>3. /\ ~ recv.pending /\ b \in Buffers /\ mem' = [mem EXCEPT ![b] = rx]
        /\ rx \in FromHost /\ recv'.taskBuf = b
    BY <1>1, <2>2, FrameEndsFields
  <2>4. /\ mem'[b] = rx
        /\ \A c \in Buffers : c # b => mem'[c] = mem[c]
    BY <2>3 DEF BoardInv, BoardType
  <2>5. /\ \A j \in 0 .. UART_QUEUE_LEN - 1 : uart.buf[j] \in Buffers
        /\ \A j \in 0 .. RADIO_QUEUE_LEN - 1 : radio.buf[j] \in Buffers
    BY DEF BoardInv, BoardType, QueueType
  <2>6. /\ \A j \in 0 .. UART_QUEUE_LEN - 1 : mem'[uart.buf[j]] = mem[uart.buf[j]]
        /\ \A j \in 0 .. RADIO_QUEUE_LEN - 1 : mem'[radio.buf[j]] = mem[radio.buf[j]]
    BY <2>2, <2>3, <2>4, <2>5, CurrentApart
  <2>7. GivenInv'
    BY <2>1, <2>3, <2>4 DEF GivenInv
  <2> QED
    BY <2>1, <2>6, <2>7, UartKept, RadioKept DEF Histories
<1>2. CASE ~ FrameEnds
  <2>1. /\ UNCHANGED <<mem, uart, radio, starting, radioTx, sendBuffer, given, entered,
                       left>>
        /\ "uartSend" \in tasks' => "uartSend" \in tasks
        /\ "radioSend" \in tasks' => "radioSend" \in tasks
        /\ "sendDone" \in tasks' => "sendDone" \in tasks
        /\ "receive" \in tasks' => "receive" \in tasks
    BY <1>2 DEF FrameStarts, FrameFails, Received, PutDone, app, radioStack, sender, hist
  <2>2. tx'.data = tx.data /\ tx'.proto = tx.proto
    <3>1. tx' = tx \/ \E s : tx' = [tx EXCEPT !.state = s]
      BY <1>2 DEF FrameStarts, FrameFails, Received, PutDone, sender
    <3> QED
      BY <3>1 DEF BoardInv, BoardType
  <2>3. "receive" \in tasks' => recv'.taskBuf = recv.taskBuf
    <3>1. CASE Received
      BY <3>1, ReceivedFields
    <3>2. CASE ~ Received
      <4>1. \/ recv' = recv \/ recv' = [recv EXCEPT !.locked[recv.which] = TRUE]
        BY <1>2, <3>2 DEF FrameStarts, FrameFails, PutDone, receiver
      <4> QED
        BY <4>1 DEF BoardInv, BoardType
    <3> QED
      BY <3>1, <3>2
  <2>4. GivenInv'
    BY <2>1, <2>3 DEF GivenInv
  <2> QED
    BY <2>1, <2>2, <2>4, UartKept, RadioKept DEF Histories
<1> QED
  BY <1>1, <1>2

LEMMA StepBridge ==
    ASSUME BoardInv, OwnInv, BridgeInv, [Next]_vars
    PROVE  BridgeInv'
<1>1. CASE UartSendTask \/ UartSendDone \/ RadioSendTask \/ ReceiveTask \/ RunTx
  BY <1>1, UartSendTaskBridge, UartSendDoneBridge, RadioSendTaskBridge,
     ReceiveTaskBridge, RunTxBridge
<1>2. CASE \/ RadioStartDone \/ SerialStartDone \/ RadioReceive
           \/ \E error \in BOOLEAN : RadioSendDone(error)
  BY <1>2, StartDoneBridge, RadioReceiveBridge, RadioSendDoneBridge
<1>3. CASE \/ FrameStarts \/ FrameEnds \/ FrameFails \/ Received
           \/ \E error \in BOOLEAN : PutDone(error)
  BY <1>3, LineBridge
<1>4. CASE UNCHANGED vars
  <2>1. UNCHANGED <<mem, uart, radio, starting, tasks, radioTx, recv, sendBuffer, tx,
                    given, entered, left>>
    BY <1>4 DEF vars, app, radioStack, receiver, sender, hist
  <2> QED
    BY <2>1, UartKept, RadioKept, GivenKept DEF BridgeInv, Histories
<1> QED
  BY <1>1, <1>2, <1>3, <1>4 DEF Next, Task, Interrupt

LEMMA BridgeInvariant == Spec => [](BoardInv /\ OwnInv /\ BridgeInv)
<1>1. Init => BoardInv /\ OwnInv /\ BridgeInv
  BY InitBoard, InitOwn, InitBridge
<1>2. BoardInv /\ OwnInv /\ BridgeInv /\ [Next]_vars => BoardInv' /\ OwnInv' /\ BridgeInv'
  BY StepBoard, StepOwn, StepBridge
<1> QED
  BY <1>1, <1>2, PTL DEF Spec

(***************************************************************************)
(* Type correctness, for all lengths of the queues and all numbers of      *)
(* messages: a place that the sender reads holds a message of its          *)
(* direction, never one of the other side or of nobody.                    *)
(***************************************************************************)
THEOREM TypeCorrect == Spec => []TypeOK
<1>1. BoardInv /\ OwnInv /\ BridgeInv => TypeOK
  BY DEF BoardInv, BoardType, BridgeInv, GivenInv, Histories, TypeOK
<1> QED
  BY <1>1, BridgeInvariant, PTL

\* What the queue holds, as a sequence.
LEMMA WaitingIs ==
    ASSUME NEW T, NEW len \in Nat \ {0}, NEW q \in QueueType(len),
           q.full => q.in = q.out,
           NEW e \in Seq(T), NEW l \in Seq(T), Bridges(mem, q, len, e, l)
    PROVE  e = l \o Waiting(q)
<1>1. PICK k \in 0 .. len : k = Size(q, len)
  BY SizeRange
<1>2. PICK w : w = Waiting(q)
  OBVIOUS
<1>3. w = [i \in 1 .. k |-> mem[q.buf[(q.out + i - 1) % len]]]
  BY <1>1, <1>2, QueueLength DEF Waiting, Size, IsEmpty
<1>4. /\ Len(e) = Len(l) + k /\ Len(l) \in Nat
      /\ \A i \in 1 .. Len(l) : e[i] = l[i]
      /\ \A i \in 1 .. k : w[i] = e[Len(l) + i]
  BY <1>1, <1>3, LenProperties DEF Bridges, Slot
<1>5. w \in Seq(T) /\ Len(w) = k
  <2>1. \A i \in 1 .. k : w[i] \in T
    <3>1. ASSUME NEW i \in 1 .. k PROVE w[i] \in T
      <4>1. Len(l) + i \in 1 .. Len(e)
        BY <1>4
      <4> QED
        BY <1>4, <4>1, ElementOfSeq
    <3> QED
      BY <3>1
  <2>2. w \in [1 .. k -> T]
    BY <1>3, <2>1
  <2> QED
    BY <2>2
<1>6. /\ l \o w \in Seq(T) /\ Len(l \o w) = Len(l) + k
      /\ \A i \in 1 .. Len(l) + k : (l \o w)[i] = IF i <= Len(l) THEN l[i] ELSE w[i - Len(l)]
  BY <1>5, ConcatProperties
<1>7. ASSUME NEW i \in 1 .. Len(e) PROVE e[i] = (l \o w)[i]
  <2>1. CASE i <= Len(l)
    BY <1>4, <1>6, <2>1
  <2>2. CASE i > Len(l)
    <3>1. i - Len(l) \in 1 .. k /\ Len(l) + (i - Len(l)) = i
      BY <1>4, <2>2
    <3>2. w[i - Len(l)] = e[i]
      BY <1>4, <3>1
    <3> QED
      BY <1>4, <1>6, <2>2, <3>2
  <2>3. i <= Len(l) \/ i > Len(l)
    BY <1>4
  <2> QED
    BY <2>1, <2>2, <2>3
<1> QED
  BY <1>2, <1>4, <1>6, <1>7, SeqEqual

(***************************************************************************)
(* The bridge keeps its messages in order and once each: what entered a    *)
(* queue is what left it and what waits in it, for all lengths, whatever   *)
(* sends fail and whichever acknowledgements come between.                 *)
(***************************************************************************)
THEOREM InOrderCorrect == Spec => []BridgedInOrder
<1>1. ASSUME BoardInv, BridgeInv
      PROVE  BridgedInOrder
  <2>1. /\ uart \in QueueType(UART_QUEUE_LEN) /\ radio \in QueueType(RADIO_QUEUE_LEN)
        /\ UART_QUEUE_LEN \in Nat \ {0} /\ RADIO_QUEUE_LEN \in Nat \ {0}
    BY <1>1, Lengths DEF BoardInv, BoardType
  <2>2. ASSUME entered.uart # <<>>
        PROVE  entered.uart = left.uart \o Waiting(uart)
    <3>1. /\ Bridges(mem, uart, UART_QUEUE_LEN, entered.uart, left.uart)
          /\ uart.full => uart.in = uart.out
          /\ entered.uart \in Seq(FromRadio) /\ left.uart \in Seq(FromRadio)
      BY <1>1, <2>2 DEF BridgeInv, UartInv, Side
    <3> QED
      BY <2>1, <3>1, WaitingIs
  <2>3. ASSUME entered.radio # <<>>
        PROVE  entered.radio = left.radio \o Waiting(radio)
    <3>1. /\ Bridges(mem, radio, RADIO_QUEUE_LEN, entered.radio, left.radio)
          /\ radio.full => radio.in = radio.out
          /\ entered.radio \in Seq(FromHost) /\ left.radio \in Seq(FromHost)
      BY <1>1, <2>3 DEF BridgeInv, RadioInv, Side
    <3> QED
      BY <2>1, <3>1, WaitingIs
  <2> QED
    BY <2>2, <2>3 DEF BridgedInOrder
<1>2. BoardInv /\ BridgeInv => BridgedInOrder
  BY <1>1
<1> QED
  BY <1>2, BridgeInvariant, PTL

-----------------------------------------------------------------------------
(***************************************************************************)
(* Acknowledgements.  What is acknowledged, or will be, has been given, or *)
(* is the one message that waits for receiveTask.                          *)
(***************************************************************************)
AckInv ==
    \A m \in acked \cup {ackQ[i] : i \in 1 .. Len(ackQ)} :
        m \in given \/ ("receive" \in tasks /\ m = mem[recv.taskBuf])

\* Only receiveTask takes the message that waits for it.
LEMMA PendingStays ==
    ASSUME BoardInv, OwnInv, BridgeInv, [Next]_vars, ~ ReceiveTask, "receive" \in tasks
    PROVE  /\ "receive" \in tasks' /\ recv'.taskBuf = recv.taskBuf
           /\ mem'[recv.taskBuf] = mem[recv.taskBuf]
<1>1. ~ FrameEnds /\ ~ Received
  BY FrameEndsFields, ReceivedFields
<1>2. CASE \/ UartSendTask \/ UartSendDone \/ RadioSendTask \/ RunTx
           \/ RadioStartDone \/ SerialStartDone \/ RadioReceive
           \/ (\E error \in BOOLEAN : RadioSendDone(error))
  <2>1. recv' = recv /\ "receive" \in tasks'
    BY <1>2, OtherTasks DEF Elsewhere
  <2>2. \/ UNCHANGED mem
        \/ mem' = [mem EXCEPT ![radioRx] = HostMessages + heard + 1]
        \/ sendBuffer = uart.buf[uart.out] /\ mem' = [mem EXCEPT ![sendBuffer] = None]
        \/ radioTx = radio.buf[radio.out] /\ mem' = [mem EXCEPT ![radioTx] = None]
    BY <1>2 DEF UartSendTask, UartSendDone, RadioSendTask, RunTx, RadioStartDone,
                SerialStartDone, RadioReceive, RadioSendDone
  <2>3. /\ uart.out \in 0 .. UART_QUEUE_LEN - 1 /\ radio.out \in 0 .. RADIO_QUEUE_LEN - 1
        /\ mem \in [Buffers -> {None} \cup FromHost \cup FromRadio]
    BY DEF BoardInv, BoardType, QueueType
  <2>4. mem'[recv.taskBuf] = mem[recv.taskBuf]
    BY <2>2, <2>3, PendingApart
  <2> QED
    BY <2>1, <2>4
<1>3. CASE \/ FrameStarts \/ FrameFails \/ (\E error \in BOOLEAN : PutDone(error))
           \/ UNCHANGED vars
  <2>1. /\ UNCHANGED mem /\ "receive" \in tasks'
        /\ recv' = recv \/ recv' = [recv EXCEPT !.locked[recv.which] = TRUE]
    BY <1>3 DEF FrameStarts, FrameFails, PutDone, vars, receiver
  <2> QED
    BY <2>1 DEF BoardInv, BoardType
<1> QED
  BY <1>1, <1>2, <1>3 DEF Next, Task, Interrupt

LEMMA StepAck ==
    ASSUME BoardInv, OwnInv, BridgeInv, AckInv, [Next]_vars
    PROVE  AckInv'
<1> SUFFICES ASSUME NEW m \in acked' \cup {ackQ'[i] : i \in 1 .. Len(ackQ')}
             PROVE  m \in given' \/ ("receive" \in tasks' /\ m = mem'[recv'.taskBuf])
  BY DEF AckInv
<1>1. ackQ \in Seq(FromHost)
  BY DEF BoardInv, BoardType
<1>2. given \subseteq given'
  BY DEF Next, Task, Interrupt, UartSendTask, UartSendDone, RadioSendTask, ReceiveTask,
         RunTx, RadioStartDone, SerialStartDone, RadioReceive, RadioSendDone,
         FrameStarts, FrameEnds, FrameFails, Received, PutDone, vars
<1>3. CASE m \in acked \cup {ackQ[i] : i \in 1 .. Len(ackQ)}
  <2>1. m \in given \/ ("receive" \in tasks /\ m = mem[recv.taskBuf])
    BY <1>3 DEF AckInv
  <2>2. CASE ReceiveTask
    BY <1>2, <2>1, <2>2, ReceiveTaskFields
  <2>3. CASE ~ ReceiveTask
    BY <1>2, <2>1, <2>3, PendingStays
  <2> QED
    BY <2>2, <2>3
<1>4. CASE m \notin acked \cup {ackQ[i] : i \in 1 .. Len(ackQ)}
  <2>1. ASSUME UNCHANGED <<acked, ackQ>>
        PROVE  FALSE
    BY <1>4, <2>1
  <2>2. FrameEnds \/ RunTx
    BY <2>1 DEF Next, Task, Interrupt, UartSendTask, UartSendDone, RadioSendTask,
         ReceiveTask, RadioStartDone, SerialStartDone, RadioReceive, RadioSendDone,
         FrameStarts, FrameFails, Received, PutDone, vars
  <2>3. CASE FrameEnds
    <3>1. acked' = acked /\ (ackQ' = ackQ \/ ackQ' = Append(ackQ, rx))
      BY <2>3 DEF FrameEnds
    <3>2. m = rx
      BY <1>1, <1>4, <3>1, <2>3, FrameEndsFields, AppendProperties, LenProperties
    <3>3. /\ "receive" \in tasks' /\ recv'.taskBuf \in Buffers
          /\ mem' = [mem EXCEPT ![recv'.taskBuf] = rx]
      BY <2>3, FrameEndsFields
    <3> QED
      BY <3>2, <3>3 DEF BoardInv, BoardType
  <2>4. CASE RunTx
    <3>1. /\ ackQ' = ackQ \/ (ackQ # <<>> /\ ackQ' = Tail(ackQ))
          /\ acked' = acked \/ (ackQ # <<>> /\ acked' = acked \cup {Head(ackQ)})
      BY <2>4 DEF RunTx, BoardInv, BoardType
    <3>2. ASSUME ackQ # <<>>
          PROVE  /\ Head(ackQ) = ackQ[1] /\ 1 \in 1 .. Len(ackQ)
                 /\ \A i \in 1 .. Len(Tail(ackQ)) :
                        i + 1 \in 1 .. Len(ackQ) /\ Tail(ackQ)[i] = ackQ[i + 1]
      BY <1>1, <3>2, HeadTailProperties, EmptySeq, LenProperties
    <3> QED
      BY <1>4, <3>1, <3>2
  <2> QED
    BY <2>2, <2>3, <2>4
<1> QED
  BY <1>3, <1>4

(***************************************************************************)
(* An acknowledgement is sent before the message is given to BaseStationP, *)
(* but never for one that is lost before it gets there: what was           *)
(* acknowledged and not given is the message that waits for receiveTask.   *)
(***************************************************************************)
THEOREM AckedCorrect == Spec => []AckedWasReceived
<1>1. Init => AckInv
  BY DEF Init, AckInv
<1>2. BoardInv /\ OwnInv /\ BridgeInv /\ AckInv /\ [Next]_vars => AckInv'
  BY StepAck
<1>3. BoardInv /\ AckInv => AckedWasReceived
  BY DEF BoardInv, AckInv, AckedWasReceived
<1> QED
  BY <1>1, <1>2, <1>3, BridgeInvariant, PTL DEF Spec
=============================================================================
