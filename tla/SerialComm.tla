----------------------------- MODULE SerialComm -----------------------------
(***************************************************************************)
(* The C++ serial forwarder between a mote and TCP clients: SerialComm's   *)
(* reader and writer threads, and the two PacketBuffers they share with    *)
(* TCPComm (module TcpComm).  A PacketBuffer is locked for each call, and  *)
(* nothing is locked from one call to the next: each call is an action.    *)
(*                                                                         *)
(* Packets from clients are numbered in the order they come, and so are    *)
(* the mote's; frames damaged on the line fail their CRC and are dropped.  *)
(***************************************************************************)
EXTENDS Integers, Sequences, SequencesExt, FiniteSetsExt

CONSTANTS
    Packets,         \* how many packets clients send
    MotePackets,     \* how many packets the mote sends
    AckWanted,       \* those of the mote's that are of type SF_PACKET_ACK
    cMaxBufferSize,  \* packets a PacketBuffer holds
    maxRetries,      \* retries from PC to mote
    Line,            \* frames under way in each direction of the line
    Faults           \* "damage": frames are damaged; "leave": the last
                     \* client leaves, and TCPComm clears serial2tcp

Ack == 0             \* a frame of type SF_ACK
None == -1

ASSUME PacketsAssumption == Packets \in Nat /\ MotePackets \in Nat
ASSUME AckWantedAssumption == AckWanted \subseteq 1 .. MotePackets
ASSUME BoundsAssumption ==
    /\ cMaxBufferSize \in Nat \ {0} /\ Line \in Nat \ {0} /\ maxRetries \in Nat
ASSUME FaultsAssumption == Faults \subseteq {"damage", "leave"}

VARIABLES
    tcp2serial,  \* writeBuffer: packets, and acknowledgements, for the mote
    serial2tcp,  \* readBuffer: the mote's packets for the clients
    toMote,      \* the line, in both directions
    fromMote,
    reader,      \* readSerial: pc and packet
    writer,      \* writeSerial: pc, packet and retryCount
    droppedReadPacketCount,
    droppedWritePacketCount,
    sumRetries,
    offered,     \* how many packets the clients have sent
    moteSent,    \* how many packets the mote has sent
    outcome,     \* history: how the writer's wait for each packet ended
    writes,      \* history: how often each packet was written
    delivered,   \* history: what the mote received
    accepted,    \* history: the mote's packets the reader received
    forwarded,   \* history: what TCPComm took
    cleared      \* history: how many packets clear() discarded

lines == <<toMote, fromMote>>
counts == <<droppedReadPacketCount, droppedWritePacketCount, sumRetries>>
sources == <<offered, moteSent>>
writeHist == <<outcome, writes>>
readHist == <<accepted, forwarded, cleared>>
vars == <<tcp2serial, serial2tcp, lines, reader, writer, counts, sources,
          writeHist, delivered, readHist>>

Outcomes == {"pending", "acked", "timedOut", "notWaited"}
FromMote == 0 .. MotePackets
ToMote == 0 .. Packets

TypeOK ==
    /\ tcp2serial \in Seq(ToMote) /\ Len(tcp2serial) <= cMaxBufferSize
    /\ serial2tcp \in Seq(FromMote \ {Ack}) /\ Len(serial2tcp) <= cMaxBufferSize
    /\ toMote \in Seq(ToMote) /\ fromMote \in Seq(FromMote)
    /\ reader \in [pc : {"read", "ack", "check", "full", "drop", "put"},
                   packet : FromMote \cup {None}]
    /\ writer \in [pc : {"dequeue", "write", "lock", "waiting", "woken"},
                   packet : ToMote \cup {None}, retryCount : 0 .. maxRetries]
    /\ droppedReadPacketCount \in Nat /\ droppedWritePacketCount \in Nat
    /\ sumRetries \in Nat
    /\ offered \in 0 .. Packets /\ moteSent \in 0 .. MotePackets
    /\ outcome \in [1 .. Packets -> Outcomes]
    /\ writes \in [1 .. Packets -> Nat]
    /\ delivered \in Seq(1 .. Packets)
    /\ accepted \in 0 .. MotePackets
    /\ forwarded \in Seq(1 .. MotePackets)
    /\ cleared \in Nat

Init ==
    /\ tcp2serial = <<>> /\ serial2tcp = <<>>
    /\ toMote = <<>> /\ fromMote = <<>>
    /\ reader = [pc |-> "read", packet |-> None]
    /\ writer = [pc |-> "dequeue", packet |-> None, retryCount |-> 0]
    /\ droppedReadPacketCount = 0 /\ droppedWritePacketCount = 0
    /\ sumRetries = 0
    /\ offered = 0 /\ moteSent = 0
    /\ outcome = [p \in 1 .. Packets |-> "pending"]
    /\ writes = [p \in 1 .. Packets |-> 0]
    /\ delivered = <<>>
    /\ accepted = 0 /\ forwarded = <<>> /\ cleared = 0

-----------------------------------------------------------------------------
(* PacketBuffer: full and empty buffers make the caller wait *)

isFull(buffer) == Len(buffer) >= cMaxBufferSize

enqueueBackAnyway(buffer, p) == buffer' = Append(buffer, p)
enqueueBack(buffer, p) == ~isFull(buffer) /\ buffer' = Append(buffer, p)
enqueueFront(buffer, p) == ~isFull(buffer) /\ buffer' = <<p>> \o buffer
dequeue(buffer) == buffer # <<>> /\ buffer' = Tail(buffer)

-----------------------------------------------------------------------------
(* readSerial *)

At(pc) == [reader EXCEPT !.pc = pc]

\* pthread_cond_signal without ack.lock: lost unless the writer is waiting,
\* and whichever packet it is waiting for.
SignalAck ==
    writer' = IF writer.pc = "waiting" THEN [writer EXCEPT !.pc = "woken"]
              ELSE writer

\* A frame of which readPacket finds the CRC wrong is skipped.
ReadPacket ==
    /\ reader.pc = "read" /\ fromMote # <<>>
    /\ fromMote' = Tail(fromMote)
    /\ LET p == Head(fromMote)
       IN  \/ p = Ack /\ SignalAck /\ UNCHANGED <<reader, accepted>>
           \/ /\ p # Ack
              /\ reader' = [pc |-> IF p \in AckWanted THEN "ack" ELSE "check",
                            packet |-> p]
              /\ accepted' = accepted + 1
              /\ UNCHANGED writer
           \/ "damage" \in Faults /\ UNCHANGED <<reader, accepted, writer>>
    /\ UNCHANGED <<tcp2serial, serial2tcp, toMote, counts, sources, writeHist,
                   delivered, forwarded, cleared>>

\* The acknowledgement goes ahead of the packets for the mote.
EnqueueAck ==
    /\ reader.pc = "ack"
    /\ enqueueFront(tcp2serial, Ack)
    /\ reader' = At("check")
    /\ UNCHANGED <<serial2tcp, lines, writer, counts, sources, writeHist,
                   delivered, readHist>>

CheckFullDropsNew ==
    /\ reader.pc = "check"
    /\ reader' = IF isFull(serial2tcp) THEN [pc |-> "read", packet |-> None]
                 ELSE At("put")
    /\ UNCHANGED <<tcp2serial, serial2tcp, lines, writer, counts, sources,
                   writeHist, delivered, readHist>>

CheckFull ==
    /\ reader.pc = "check"
    /\ reader' = At(IF isFull(serial2tcp) THEN "full" ELSE "put")
    /\ UNCHANGED <<tcp2serial, serial2tcp, lines, writer, counts, sources,
                   writeHist, delivered, readHist>>

\* The loop's own isFull: TCPComm may have taken a packet since.
WhileFull ==
    /\ reader.pc = "full"
    /\ reader' = At(IF isFull(serial2tcp) THEN "drop" ELSE "put")
    /\ UNCHANGED <<tcp2serial, serial2tcp, lines, writer, counts, sources,
                   writeHist, delivered, readHist>>

\* ... and may have taken them all by now: dequeue then waits for a packet,
\* which only this thread would enqueue.
DropOldest ==
    /\ reader.pc = "drop"
    /\ dequeue(serial2tcp)
    /\ droppedReadPacketCount' = droppedReadPacketCount + 1
    /\ reader' = At("full")
    /\ UNCHANGED <<tcp2serial, lines, writer, droppedWritePacketCount,
                   sumRetries, sources, writeHist, delivered, readHist>>

PutAtFront ==
    /\ reader.pc = "put"
    /\ enqueueFront(serial2tcp, reader.packet)
    /\ reader' = [pc |-> "read", packet |-> None]
    /\ UNCHANGED <<tcp2serial, lines, writer, counts, sources, writeHist,
                   delivered, readHist>>

Put ==
    /\ reader.pc = "put"
    /\ enqueueBack(serial2tcp, reader.packet)
    /\ reader' = [pc |-> "read", packet |-> None]
    /\ UNCHANGED <<tcp2serial, lines, writer, counts, sources, writeHist,
                   delivered, readHist>>

-----------------------------------------------------------------------------
(* writeSerial *)

Dequeue ==
    /\ writer.pc = "dequeue"
    /\ dequeue(tcp2serial)
    /\ writer' = [writer EXCEPT !.pc = "write", !.packet = Head(tcp2serial)]
    /\ UNCHANGED <<serial2tcp, lines, reader, counts, sources, writeHist,
                   delivered, readHist>>

\* The line takes no more than the mote has room for.  An acknowledgement is
\* not waited for.
WritePacket ==
    /\ writer.pc = "write"
    /\ Len(toMote) < Line
    /\ toMote' = Append(toMote, writer.packet)
    /\ IF writer.packet = Ack
       THEN /\ writer' = [writer EXCEPT !.pc = "dequeue", !.packet = None]
            /\ UNCHANGED writes
       ELSE /\ writer' = [writer EXCEPT !.pc = "lock"]
            /\ writes' = [writes EXCEPT ![writer.packet] = @ + 1]
    /\ UNCHANGED <<tcp2serial, serial2tcp, fromMote, reader, counts, sources,
                   outcome, delivered, readHist>>

\* The deadline is tv_usec plus 200 ms for each try, modulo a second, with no
\* carry into tv_sec: in tenths of a second, for a clock that shows now.  A
\* tv_nsec of a second or more is refused with EINVAL.
Invalid(now, tries) == now + ((2 * tries) % 10) >= 10

LeaveAs(how) ==
    /\ outcome' = [outcome EXCEPT ![writer.packet] = how]
    /\ droppedWritePacketCount' =
           droppedWritePacketCount + IF writer.retryCount >= maxRetries THEN 1 ELSE 0
    /\ UNCHANGED sumRetries

\* The packet has left as far as the writer is concerned.
FinishKeepsCount(how) ==
    /\ LeaveAs(how)
    /\ writer' = [writer EXCEPT !.pc = "dequeue", !.packet = None]

Finish(how) ==
    /\ LeaveAs(how)
    /\ writer' = [pc |-> "dequeue", packet |-> None, retryCount |-> 0]

Retry ==
    /\ writer' = [writer EXCEPT !.pc = "write", !.retryCount = @ + 1]
    /\ sumRetries' = sumRetries + 1
    /\ UNCHANGED <<outcome, droppedWritePacketCount>>

WriterWaits ==
    UNCHANGED <<tcp2serial, serial2tcp, lines, reader, droppedReadPacketCount,
                sources, writes, delivered, readHist>>

\* Any error but ETIMEDOUT counts as an acknowledgement.
Wait(now) ==
    /\ writer.pc = "lock"
    /\ IF Invalid(now, writer.retryCount + 1)
       THEN Finish("notWaited")
       ELSE /\ writer' = [writer EXCEPT !.pc = "waiting"]
            /\ UNCHANGED <<outcome, droppedWritePacketCount, sumRetries>>
    /\ WriterWaits

Woken ==
    /\ writer.pc = "woken"
    /\ Finish("acked")
    /\ WriterWaits

TimedOutNoRetry ==
    /\ writer.pc = "waiting"
    /\ Finish("acked")
    /\ WriterWaits

TimedOutButOnLastTry ==
    /\ writer.pc = "waiting" /\ writer.retryCount < maxRetries
    /\ Retry
    /\ WriterWaits

TimedOut ==
    /\ writer.pc = "waiting"
    /\ IF writer.retryCount < maxRetries THEN Retry ELSE Finish("timedOut")
    /\ WriterWaits

-----------------------------------------------------------------------------
(* TCPComm and the mote *)

ClientSends ==
    /\ offered < Packets
    /\ enqueueBack(tcp2serial, offered + 1)
    /\ offered' = offered + 1
    /\ UNCHANGED <<serial2tcp, lines, reader, writer, counts, moteSent,
                   writeHist, delivered, readHist>>

TcpTakes ==
    /\ dequeue(serial2tcp)
    /\ forwarded' = Append(forwarded, Head(serial2tcp))
    /\ UNCHANGED <<tcp2serial, lines, reader, writer, counts, sources,
                   writeHist, delivered, accepted, cleared>>

Clear ==
    /\ "leave" \in Faults
    /\ serial2tcp # <<>>
    /\ serial2tcp' = <<>>
    /\ cleared' = cleared + Len(serial2tcp)
    /\ UNCHANGED <<tcp2serial, lines, reader, writer, counts, sources,
                   writeHist, delivered, accepted, forwarded>>

\* Nothing holds the mote back: a frame for which the line has no room is lost.
MoteWrites(p) ==
    fromMote' = IF Len(fromMote) < Line THEN Append(fromMote, p) ELSE fromMote

\* The mote acknowledges every packet, the ones it has had before included.
MoteReceives ==
    /\ toMote # <<>>
    /\ toMote' = Tail(toMote)
    /\ \/ /\ Head(toMote) # Ack
          /\ delivered' = Append(delivered, Head(toMote))
          /\ MoteWrites(Ack)
       \/ /\ Head(toMote) = Ack \/ "damage" \in Faults
          /\ UNCHANGED <<delivered, fromMote>>
    /\ UNCHANGED <<tcp2serial, serial2tcp, reader, writer, counts, sources,
                   writeHist, readHist>>

MoteSends ==
    /\ moteSent < MotePackets
    /\ moteSent' = moteSent + 1
    /\ MoteWrites(moteSent + 1)
    /\ UNCHANGED <<tcp2serial, serial2tcp, toMote, reader, writer, counts,
                   offered, writeHist, delivered, readHist>>

-----------------------------------------------------------------------------
Reader == ReadPacket \/ EnqueueAck \/ CheckFull \/ WhileFull \/ DropOldest \/ Put
Writer ==
    \/ Dequeue \/ WritePacket \/ Woken \/ TimedOut
    \/ \E now \in 0 .. 9 : Wait(now)

Next ==
    \/ Reader \/ Writer
    \/ ClientSends \/ TcpTakes \/ Clear \/ MoteReceives \/ MoteSends

Spec == Init /\ [][Next]_vars

-----------------------------------------------------------------------------
(* Safety *)

\* A packet is written at most once more than it may be retried, and is given
\* up only after as many writes: no count is left from the packet before.
GivenUpAfterAllRetries ==
    \A p \in 1 .. Packets :
        /\ writes[p] <= maxRetries + 1
        /\ outcome[p] = "timedOut" => writes[p] = maxRetries + 1

\* Frames have no sequence numbers, the signal is sent without the lock and a
\* wait may fail; yet as long as every wait has succeeded at the first try, a
\* packet that counts as acknowledged has reached the mote.
NoSilentLoss ==
    sumRetries = 0 /\ (\A p \in 1 .. Packets : outcome[p] # "notWaited")
        => \A p \in 1 .. Packets :
               outcome[p] = "acked" => Contains(delivered, p)

Ascending(s, leq(_, _)) == \A i \in 1 .. Len(s) - 1 : leq(s[i], s[i + 1])

\* The mote gets its packets in the clients' order, with repetitions, and the
\* clients get the mote's in its order, although acknowledgements and packets
\* dropped or cleared share the buffers with them.
InOrder ==
    /\ Ascending(delivered, LAMBDA p, q : p <= q)
    /\ Ascending(forwarded \o serial2tcp, LAMBDA p, q : p < q)

\* What the reader has received is with the clients, waiting for them, in its
\* hands, cleared because there were none, or counted as dropped.
ReadsAccounted ==
    accepted = Len(forwarded) + Len(serial2tcp) + cleared
        + droppedReadPacketCount + IF reader.packet # None THEN 1 ELSE 0

-----------------------------------------------------------------------------
(***************************************************************************)
(* Liveness.  The threads run, the mote reads its line, and a wait that is *)
(* not signalled times out.  Clients need not take anything.               *)
(***************************************************************************)
Fairness ==
    /\ WF_vars(Reader)
    /\ WF_vars(Writer)
    /\ WF_vars(MoteReceives)

FairSpec == Spec /\ Fairness

\* Whatever is lost on the line, every packet leaves the writer in the end, and
\* the reader gets room for its acknowledgement: it may wait for the writer to
\* take a packet while the writer waits for the ACK only that reader can signal.
ThreadsGetOn ==
    /\ \A p \in 1 .. Packets : offered >= p ~> outcome[p] # "pending"
    /\ reader.pc = "ack" ~> reader.pc # "ack"
=============================================================================
