------------------------------ MODULE TcpComm ------------------------------
(***************************************************************************)
(* TCPComm of the C++ serial forwarder: a thread that accepts clients, one *)
(* that reads from all of them and one that writes the mote's packets to   *)
(* all of them (serial2tcp, which the thread of SerialComm that reads the  *)
(* line fills).  countlock guards count and FDs; the two threads work on   *)
(* copies of FDs.                                                          *)
(*                                                                         *)
(* A section under countlock is an action, with the byte it puts into the  *)
(* pipe afterwards.  Sockets block: a call of readPacket or writePacket is *)
(* a step that takes up the connection and one that returns, which has to  *)
(* wait for the client.  tcp2serial has room: SerialComm empties it.       *)
(***************************************************************************)
EXTENDS Integers, Sequences, SequencesExt, FiniteSetsExt

CONSTANTS
    Clients,
    Descriptors,     \* file descriptors there are
    Packets,         \* how many packets come from the mote
    cMaxBufferSize,  \* packets a PacketBuffer holds
    Stalling,        \* clients that may stop sending in the middle of a packet,
                     \* or stop reading
    Deviating,       \* clients that may send another version or a length there
                     \* is not
    Reuse            \* is the number of a closed descriptor given again?

None == "none"
NoFD == 0
ASSUME ClientsAssumption == None \notin Clients /\ IsFiniteSet(Clients)
ASSUME DescriptorsAssumption == Descriptors \subseteq Nat \ {0}
ASSUME PacketsAssumption == Packets \in Nat
ASSUME BoundAssumption == cMaxBufferSize \in Nat \ {0}
ASSUME FaultsAssumption ==
    Stalling \subseteq Clients /\ Deviating \subseteq Clients /\ Reuse \in BOOLEAN

VARIABLES
    client,      \* each client: "away", "connected" or "left"
    input,       \* what each has sent that has not been read: "none", a "part"
                 \* of a packet (or version), all of it, or an "invalid" one
    full,        \* clients whose connection takes no more until they read
    owner,       \* the client behind each open descriptor, or None
    used,        \* descriptors that have been given
    clientInfo,  \* count and FDs
    pipe,        \* is there something in the pipe?
    server,      \* connectClients: pc and clientFD
    reader,      \* readClients: pc, clientFDs, the ready ones left to serve and
                 \* the client that readPacket reads from
    writer,      \* writeClients: pc, packet, descriptors left to write to and
                 \* the client that writePacket writes to
    running,     \* FALSE after reportError: all threads are cancelled
    serial2tcp,
    serial,      \* the default case of SerialComm's readSerial: its pc
    arrived,     \* how many packets have come from the mote
    owed         \* history: by descriptor in FDs, the packets that came or were
                 \* still to be written when it did, less those since written to
                 \* it and those dropped to make room for others

descriptors == <<owner, used>>
sockets == <<client, input, full>>
mote == <<serial, arrived>>
vars == <<descriptors, sockets, clientInfo, pipe, server, reader, writer, running,
          serial2tcp, mote, owed>>

TypeOK ==
    /\ client \in [Clients -> {"away", "connected", "left"}]
    /\ input \in [Clients -> {"none", "part", "packet", "invalid"}]
    /\ full \subseteq Clients
    /\ owner \in [Descriptors -> Clients \cup {None}]
    /\ used \subseteq Descriptors
    /\ clientInfo \in [count : 0 .. Cardinality(Clients), FDs : SUBSET Descriptors]
    /\ pipe \in BOOLEAN /\ running \in BOOLEAN
    /\ server \in [pc : {"accept", "version", "add"},
                   fd : Descriptors \cup {NoFD}]
    /\ reader \in [pc : {"top", "asleep", "select", "selecting", "serve", "reading"},
                   clientFDs : SUBSET Descriptors, todo : SUBSET Descriptors,
                   peer : Clients \cup {None}]
    /\ writer \in [pc : {"top", "asleep", "dequeue", "copy", "write", "writing"},
                   packet : 0 .. Packets, todo : SUBSET Descriptors,
                   peer : Clients \cup {None}]
    /\ serial2tcp \in Seq(1 .. Packets) /\ Len(serial2tcp) <= cMaxBufferSize
    /\ serial \in {"read", "check", "drop", "put"}
    /\ arrived \in 0 .. Packets
    /\ owed \in [Descriptors -> SUBSET (1 .. Packets)]

Init ==
    /\ client = [c \in Clients |-> "away"]
    /\ input = [c \in Clients |-> "none"] /\ full = {}
    /\ owner = [fd \in Descriptors |-> None] /\ used = {}
    /\ clientInfo = [count |-> 0, FDs |-> {}]
    /\ pipe = FALSE /\ running = TRUE
    /\ server = [pc |-> "accept", fd |-> NoFD]
    /\ reader = [pc |-> "top", clientFDs |-> {}, todo |-> {}, peer |-> None]
    /\ writer = [pc |-> "top", packet |-> 0, todo |-> {}, peer |-> None]
    /\ serial2tcp = <<>>
    /\ serial = "read" /\ arrived = 0
    /\ owed = [fd \in Descriptors |-> {}]

-----------------------------------------------------------------------------
(* Descriptors and clients *)

IsOpen(fd) == owner[fd] # None
HasLeft(c) == c # None => client[c] = "left"

\* read on the connection has what readPacket asks for, or has nothing more to
\* wait for.
Arrived(c) == c # None /\ input[c] = "packet"
GivenUp(c) == c # None =>
    \/ input[c] = "invalid"
    \/ client[c] = "left" /\ input[c] # "packet"

\* What select reports: some input or the end of the connection.
Readable(fd) == IsOpen(fd) => input[owner[fd]] # "none" \/ HasLeft(owner[fd])

\* The kernel gives the lowest number that is free.
Free == {fd \in Descriptors : ~IsOpen(fd) /\ (fd \in used => Reuse)}

Close(fd) == owner' = [owner EXCEPT ![fd] = None] /\ UNCHANGED used

CloseCountsAlways(fd) == TRUE
CloseSucceeds(fd) == IsOpen(fd)

ClearsAlways(count) == TRUE
ClearsBuffer(count) == count = 0

RemoveClientUnguarded(fd) ==
    LET count == clientInfo.count - 1
    IN  /\ Close(fd)
        /\ clientInfo' = [count |-> count, FDs |-> clientInfo.FDs \ {fd}]
        /\ serial2tcp' = IF ClearsBuffer(count) THEN <<>> ELSE serial2tcp
        /\ owed' = [owed EXCEPT ![fd] = {}]
        /\ pipe' = TRUE

\* The descriptor is closed, be it in FDs or not, and counted if close
\* succeeds; the last client leaves an empty buffer behind.
RemoveClient(fd) ==
    LET count == clientInfo.count - IF CloseSucceeds(fd) THEN 1 ELSE 0
    IN  /\ IF clientInfo.count > 0
           THEN /\ Close(fd)
                /\ clientInfo' = [count |-> count, FDs |-> clientInfo.FDs \ {fd}]
                /\ serial2tcp' = IF ClearsBuffer(count) THEN <<>> ELSE serial2tcp
                /\ owed' = [owed EXCEPT ![fd] = {}]
           ELSE serial2tcp' = <<>> /\ UNCHANGED <<descriptors, clientInfo, owed>>
        /\ pipe' = TRUE

-----------------------------------------------------------------------------
(* connectClients *)

Accept(c) ==
    /\ server.pc = "accept" /\ running
    /\ client[c] = "away" /\ Free # {}
    /\ LET fd == Min(Free)
       IN  /\ owner' = [owner EXCEPT ![fd] = c]
           /\ used' = used \cup {fd}
           /\ server' = [pc |-> "version", fd |-> fd]
    /\ client' = [client EXCEPT ![c] = "connected"]
    /\ UNCHANGED <<input, full, clientInfo, pipe, reader, writer, running,
                   serial2tcp, mote, owed>>

\* The version of the client has to arrive; ours goes into an empty connection.
VersionCheck ==
    /\ server.pc = "version" /\ running
    /\ LET c == owner[server.fd]
       IN  \/ /\ Arrived(c)
              /\ input' = [input EXCEPT ![c] = "none"]
              /\ server' = [server EXCEPT !.pc = "add"]
              /\ UNCHANGED descriptors
           \/ /\ GivenUp(c) \/ HasLeft(c)
              /\ Close(server.fd)
              /\ server' = [pc |-> "accept", fd |-> NoFD]
              /\ UNCHANGED input
    /\ UNCHANGED <<client, full, clientInfo, pipe, reader, writer, running,
                   serial2tcp, mote, owed>>

\* Is the packet in the writer's hands still to be written to fd?
Due(fd) == \/ writer.pc = "copy"
           \/ writer.pc \in {"write", "writing"} /\ fd \in writer.todo

\* The packets that are still to be written to fd.
Coming(fd) == ToSet(serial2tcp) \cup (IF Due(fd) THEN {writer.packet} ELSE {})

Wake(thread) == IF thread.pc = "asleep" THEN [thread EXCEPT !.pc = "top"] ELSE thread

\* The first client wakes both threads; any client wakes the reader's select.
AddClientNoPipe ==
    /\ server.pc = "add" /\ running
    /\ clientInfo' = [count |-> clientInfo.count + 1,
                      FDs |-> clientInfo.FDs \cup {server.fd}]
    /\ reader' = IF clientInfo.count = 0 THEN Wake(reader) ELSE reader
    /\ writer' = IF clientInfo.count = 0 THEN Wake(writer) ELSE writer
    /\ server' = [pc |-> "accept", fd |-> NoFD]
    /\ owed' = [owed EXCEPT ![server.fd] = Coming(server.fd)]
    /\ UNCHANGED <<descriptors, sockets, pipe, running, serial2tcp, mote>>

AddClientWakesOne ==
    /\ server.pc = "add" /\ running
    /\ clientInfo' = [count |-> clientInfo.count + 1,
                      FDs |-> clientInfo.FDs \cup {server.fd}]
    /\ reader' = IF clientInfo.count = 0 THEN Wake(reader) ELSE reader
    /\ writer' = IF clientInfo.count = 0 /\ reader.pc # "asleep"
                 THEN Wake(writer) ELSE writer
    /\ pipe' = TRUE
    /\ server' = [pc |-> "accept", fd |-> NoFD]
    /\ owed' = [owed EXCEPT ![server.fd] = Coming(server.fd)]
    /\ UNCHANGED <<descriptors, sockets, running, serial2tcp, mote>>

AddClient ==
    /\ server.pc = "add" /\ running
    /\ clientInfo' = [count |-> clientInfo.count + 1,
                      FDs |-> clientInfo.FDs \cup {server.fd}]
    /\ reader' = IF clientInfo.count = 0 THEN Wake(reader) ELSE reader
    /\ writer' = IF clientInfo.count = 0 THEN Wake(writer) ELSE writer
    /\ pipe' = TRUE
    /\ server' = [pc |-> "accept", fd |-> NoFD]
    /\ owed' = [owed EXCEPT ![server.fd] = Coming(server.fd)]
    /\ UNCHANGED <<descriptors, sockets, running, serial2tcp, mote>>

-----------------------------------------------------------------------------
(* readClients *)

ReaderUnchanged == UNCHANGED <<client, full, server, writer, mote>>

CopyForReading ==
    /\ reader.pc = "top" /\ running
    /\ reader' = IF clientInfo.count = 0
                 THEN [reader EXCEPT !.pc = "asleep", !.clientFDs = {}]
                 ELSE [reader EXCEPT !.pc = "select", !.clientFDs = clientInfo.FDs]
    /\ UNCHANGED <<descriptors, input, clientInfo, pipe, running, serial2tcp, owed>>
    /\ ReaderUnchanged

\* A descriptor that the writer has closed since the copy makes select fail,
\* and reportError cancels every thread: the forwarder has ended.
Select ==
    /\ reader.pc = "select" /\ running
    /\ IF \A fd \in reader.clientFDs : IsOpen(fd)
       THEN reader' = [reader EXCEPT !.pc = "selecting"] /\ UNCHANGED running
       ELSE running' = FALSE /\ UNCHANGED reader
    /\ UNCHANGED <<descriptors, input, clientInfo, pipe, serial2tcp, owed>>
    /\ ReaderUnchanged

SelectReturns ==
    /\ reader.pc = "selecting" /\ running
    /\ LET ready == {fd \in reader.clientFDs : Readable(fd)}
       IN  /\ pipe \/ ready # {}
           /\ reader' = IF ready = {} THEN [reader EXCEPT !.pc = "top"]
                        ELSE [reader EXCEPT !.pc = "serve", !.todo = ready]
    /\ pipe' = FALSE
    /\ UNCHANGED <<descriptors, input, clientInfo, running, serial2tcp, owed>>
    /\ ReaderUnchanged

\* The descriptors are served in their order.  The connection behind one is
\* looked up once: closing it, or giving its number again, does not end a read.
ReadPacket ==
    /\ reader.pc = "serve" /\ running
    /\ reader' = [reader EXCEPT !.pc = "reading", !.peer = owner[Min(reader.todo)]]
    /\ UNCHANGED <<descriptors, input, clientInfo, pipe, running, serial2tcp, owed>>
    /\ ReaderUnchanged

\* Of a client that has stopped in the middle of a packet it is not enabled.
ReadReturns ==
    /\ reader.pc = "reading" /\ running
    /\ LET fd == Min(reader.todo)
           c == reader.peer
           todo == reader.todo \ {fd}
       IN  /\ \/ /\ Arrived(c)
                 /\ input' = [input EXCEPT ![c] = "none"]
                 /\ UNCHANGED <<descriptors, clientInfo, pipe, serial2tcp, owed>>
              \/ GivenUp(c) /\ RemoveClient(fd) /\ UNCHANGED input
           /\ reader' = [reader EXCEPT !.pc = IF todo = {} THEN "top" ELSE "serve",
                                       !.todo = todo, !.peer = None]
    /\ UNCHANGED running
    /\ ReaderUnchanged

-----------------------------------------------------------------------------
(* writeClients *)

WriterUnchanged == UNCHANGED <<client, input, server, reader, running, mote>>

CountForWriting ==
    /\ writer.pc = "top" /\ running
    /\ writer' = [writer EXCEPT !.pc =
                     IF clientInfo.count = 0 THEN "asleep" ELSE "dequeue"]
    /\ UNCHANGED <<descriptors, full, clientInfo, pipe, serial2tcp, owed>>
    /\ WriterUnchanged

Dequeue ==
    /\ writer.pc = "dequeue" /\ running
    /\ serial2tcp # <<>>
    /\ serial2tcp' = Tail(serial2tcp)
    /\ writer' = [writer EXCEPT !.pc = "copy", !.packet = Head(serial2tcp)]
    /\ UNCHANGED <<descriptors, full, clientInfo, pipe, owed>>
    /\ WriterUnchanged

CopyForWriting ==
    /\ writer.pc = "copy" /\ running
    /\ writer' = [writer EXCEPT !.todo = clientInfo.FDs,
                     !.pc = IF clientInfo.FDs = {} THEN "top" ELSE "write"]
    /\ UNCHANGED <<descriptors, full, clientInfo, pipe, serial2tcp, owed>>
    /\ WriterUnchanged

WritePacket ==
    /\ writer.pc = "write" /\ running
    /\ writer' = [writer EXCEPT !.pc = "writing", !.peer = owner[Min(writer.todo)]]
    /\ UNCHANGED <<descriptors, full, clientInfo, pipe, serial2tcp, owed>>
    /\ WriterUnchanged

\* send waits while the connection is full; it fails on a closed descriptor, and
\* may or may not fail yet on one whose client has left.
WriteReturns ==
    /\ writer.pc = "writing" /\ running
    /\ LET fd == Min(writer.todo)
           c == writer.peer
           todo == writer.todo \ {fd}
       IN  /\ \/ /\ c # None /\ c \notin full
                 /\ owed' = [owed EXCEPT ![fd] = @ \ {writer.packet}]
                 /\ \/ UNCHANGED full
                    \/ c \in Stalling /\ full' = full \cup {c}
                 /\ UNCHANGED <<descriptors, clientInfo, pipe, serial2tcp>>
              \/ HasLeft(c) /\ RemoveClient(fd) /\ UNCHANGED full
           /\ writer' = [writer EXCEPT !.pc = IF todo = {} THEN "top" ELSE "write",
                                       !.todo = todo, !.peer = None]
    /\ WriterUnchanged

-----------------------------------------------------------------------------
(* Clients *)

ClientUnchanged ==
    UNCHANGED <<descriptors, clientInfo, pipe, server, reader, writer, running,
                serial2tcp, mote, owed>>

Sends(c, what) == input' = [input EXCEPT ![c] = what]

ClientSends(c) ==
    /\ client[c] = "connected" /\ \E fd \in Descriptors : owner[fd] = c
    /\ \/ input[c] \in {"none", "part"} /\ Sends(c, "packet")
       \/ c \in Stalling /\ input[c] = "none" /\ Sends(c, "part")
       \/ c \in Deviating /\ input[c] = "none" /\ Sends(c, "invalid")
    /\ UNCHANGED <<client, full>>
    /\ ClientUnchanged

ClientReads(c) ==
    /\ client[c] = "connected" /\ c \in full
    /\ full' = full \ {c}
    /\ UNCHANGED <<client, input>>
    /\ ClientUnchanged

ClientLeaves(c) ==
    /\ client[c] = "connected"
    /\ client' = [client EXCEPT ![c] = "left"]
    /\ UNCHANGED <<input, full>>
    /\ ClientUnchanged

-----------------------------------------------------------------------------
(* The thread of SerialComm that fills serial2tcp *)

MoteUnchanged ==
    UNCHANGED <<descriptors, sockets, clientInfo, pipe, server, reader, writer, running>>

IsFull == Len(serial2tcp) >= cMaxBufferSize

PacketArrives ==
    /\ serial = "read" /\ arrived < Packets
    /\ arrived' = arrived + 1
    /\ serial' = IF IsFull THEN "drop" ELSE "put"
    /\ UNCHANGED <<serial2tcp, owed>>
    /\ MoteUnchanged

\* The oldest is taken even if there is room by now, since isFull was a call of
\* its own; dequeue waits if the buffer has been cleared, and then for ever.
DropOldest ==
    /\ serial = "drop" /\ serial2tcp # <<>>
    /\ serial2tcp' = Tail(serial2tcp)
    /\ owed' = [fd \in Descriptors |-> owed[fd] \ {Head(serial2tcp)}]
    /\ serial' = "check"
    /\ UNCHANGED arrived
    /\ MoteUnchanged

CheckFull ==
    /\ serial = "check"
    /\ serial' = IF IsFull THEN "drop" ELSE "put"
    /\ UNCHANGED <<serial2tcp, arrived, owed>>
    /\ MoteUnchanged

Put ==
    /\ serial = "put" /\ ~IsFull
    /\ serial2tcp' = Append(serial2tcp, arrived)
    /\ owed' = [fd \in Descriptors |->
                   owed[fd] \cup (IF fd \in clientInfo.FDs THEN {arrived} ELSE {})]
    /\ serial' = "read"
    /\ UNCHANGED arrived
    /\ MoteUnchanged

-----------------------------------------------------------------------------
Server == (\E c \in Clients : Accept(c)) \/ VersionCheck \/ AddClient
Reader == CopyForReading \/ Select \/ SelectReturns \/ ReadPacket \/ ReadReturns
Writer == CountForWriting \/ Dequeue \/ CopyForWriting \/ WritePacket \/ WriteReturns

Next ==
    \/ Server \/ Reader \/ Writer
    \/ \E c \in Clients : ClientSends(c) \/ ClientReads(c) \/ ClientLeaves(c)
    \/ PacketArrives \/ DropOldest \/ CheckFull \/ Put

Spec == Init /\ [][Next]_vars

-----------------------------------------------------------------------------
(* Safety *)

\* Both threads may find that a client has left, and remove it: it is counted
\* out once, and what is in FDs is open.
CountIsRight ==
    /\ clientInfo.count = Cardinality(clientInfo.FDs)
    /\ \A fd \in clientInfo.FDs : IsOpen(fd)

\* What is still to be written to a client in FDs is what it is owed: of the
\* packets that come while it is there it misses none that was not dropped to make
\* room for another, gets none twice, and gets them in the order in which they came.
OwedIsComing ==
    /\ \A fd \in clientInfo.FDs : owed[fd] = Coming(fd)
    /\ \A i, j \in DOMAIN serial2tcp : i < j => serial2tcp[i] < serial2tcp[j]
    /\ \A p \in ToSet(serial2tcp) : writer.packet < p

\* README.txt:86 calls count "the number of clients ... connected".
CountIsConnected ==
    clientInfo.count = Cardinality({fd \in clientInfo.FDs : IsOpen(fd)})

-----------------------------------------------------------------------------
(* Liveness: the threads run, as far as their calls return; nothing is        *)
(* assumed of clients and mote.                                            *)

FairSpec ==
    Spec /\ WF_vars(VersionCheck \/ AddClient) /\ WF_vars(Reader) /\ WF_vars(Writer)

\* readPacket waits for a client that has stopped in the middle of a packet.
ReaderWaits ==
    /\ reader.pc = "reading" /\ reader.peer # None
    /\ ~Arrived(reader.peer) /\ ~GivenUp(reader.peer)

\* writePacket waits for a client that does not read.
WriterWaits ==
    /\ writer.pc = "writing" /\ ~HasLeft(writer.peer)
    /\ writer.peer \in full

HasDescriptor(c) == \E fd \in Descriptors : owner[fd] = c

\* If the reader does not stay with one client for ever, a packet that has
\* arrived whole is read, and a client that has left or sent what is invalid is
\* removed, unless the forwarder ends.
IsReady(c) == HasDescriptor(c) /\ (Arrived(c) \/ GivenUp(c))
ClientServed ==
    []<>~ReaderWaits => \A c \in Clients : IsReady(c) ~> ~IsReady(c) \/ ~running

\* A packet neither stays in the buffer nor in the writer's hands while there are
\* clients, if the writer does not stay with one that does not read for ever.
PacketsWait == serial2tcp # <<>> \/ writer.pc \in {"copy", "write", "writing"}
PacketsLeave ==
    []<>~WriterWaits =>
        (PacketsWait ~> ~PacketsWait \/ clientInfo.count = 0 \/ ~running)
=============================================================================
