--------------------------- MODULE TcpCommProofs ---------------------------
(***************************************************************************)
(* Theorems about TcpComm, for every value of its constants.               *)
(***************************************************************************)
EXTENDS TcpComm, FiniteSetTheorems, SequenceTheorems, WellFoundedInduction,
        TLAPS

(***************************************************************************)
(* Sets and sequences                                                      *)
(***************************************************************************)

Less == {p \in Nat \X Nat : p[1] < p[2]}

\* A non-empty set of descriptors has its minimum in it.
LEMMA MinIsMember ==
    ASSUME NEW T, T \subseteq Nat, T # {}
    PROVE  Min(T) \in T
<1>1. IsWellFoundedOn(Less, Nat)
    BY NatLessThanWellFounded DEF OpToRel, Less
<1>2. PICK x \in T : \A y \in T : ~ (<<y, x>> \in Less)
    BY <1>1, WFMin
<1>3. \A y \in T : <<y, x>> \in Less <=> y < x
    BY DEF Less
<1>4. \A y \in T : ~ (y < x)
    BY <1>2, <1>3
<1>5. \A y \in T : x <= y
    BY <1>4
<1> QED BY <1>5 DEF Min

LEMMA MinOfDescriptors ==
    ASSUME NEW T, T \subseteq Descriptors, T # {}
    PROVE  Min(T) \in T /\ Min(T) \in Descriptors
BY MinIsMember, DescriptorsAssumption

(***************************************************************************)
(* Type correctness                                                        *)
(***************************************************************************)

Arrivals == {c \in Clients : client[c] # "away"}
Pending == IF server.pc = "accept" THEN 0 ELSE 1

\* A thread that is in a round has a descriptor left, and the writer a packet;
\* every client is counted at most once.
ReaderType ==
    [pc : {"top", "asleep", "select", "selecting", "serve", "reading"},
     clientFDs : SUBSET Descriptors, todo : SUBSET Descriptors,
     peer : Clients \cup {None}]

WriterType ==
    [pc : {"top", "asleep", "dequeue", "copy", "write", "writing"},
     packet : 0 .. Packets, todo : SUBSET Descriptors, peer : Clients \cup {None}]

TypeInv ==
    /\ TypeOK
    /\ server.pc # "accept" => server.fd \in Descriptors
    /\ reader.pc \in {"serve", "reading"} => reader.todo # {}
    /\ writer.pc \in {"write", "writing"} => writer.todo # {}
    /\ writer.pc \in {"copy", "write", "writing"} => writer.packet # 0
    /\ serial # "read" => arrived # 0
    /\ clientInfo.count + Pending <= Cardinality(Arrivals)

LEMMA InitTypeInv == Init => TypeInv
<1> SUFFICES ASSUME Init PROVE TypeInv
    OBVIOUS
<1>1. Cardinality(Clients) \in Nat
    BY ClientsAssumption, FS_CardinalityType
<1>2. Arrivals = {} /\ Cardinality({}) = 0
    BY FS_EmptySet DEF Init, Arrivals
<1>3. <<>> \in Seq(1 .. Packets) /\ Len(<<>>) <= cMaxBufferSize
    BY BoundAssumption
<1>4. 0 \in 0 .. Cardinality(Clients) /\ 0 \in 0 .. Packets
    BY <1>1, PacketsAssumption
<1>5. clientInfo \in [count : 0 .. Cardinality(Clients), FDs : SUBSET Descriptors]
    BY <1>4 DEF Init
<1>6. reader \in ReaderType
    BY DEF Init, ReaderType
<1>7. writer \in WriterType
    BY <1>4 DEF Init, WriterType
<1>8. server \in [pc : {"accept", "version", "add"}, fd : Descriptors \cup {NoFD}]
    BY DEF Init
<1>9. TypeOK
    BY <1>3, <1>4, <1>5, <1>6, <1>7, <1>8 DEF Init, TypeOK, ReaderType, WriterType
<1> QED BY <1>2, <1>9 DEF Init, TypeInv, Pending

\* How many clients have come, and that none of them is forgotten.
LEMMA ArrivalsGrow ==
    ASSUME Arrivals \subseteq Arrivals'
    PROVE  /\ Cardinality(Arrivals) \in Nat /\ Cardinality(Arrivals') \in Nat
           /\ Cardinality(Arrivals) <= Cardinality(Arrivals')
           /\ Cardinality(Arrivals') <= Cardinality(Clients)
<1>1. IsFiniteSet(Clients)
    BY ClientsAssumption
<1>2. Arrivals' \subseteq Clients
    BY DEF Arrivals
<1>3. IsFiniteSet(Arrivals') /\ IsFiniteSet(Arrivals)
    BY <1>1, <1>2, FS_Subset
<1> QED BY <1>1, <1>2, <1>3, FS_Subset, FS_CardinalityType

LEMMA CloseType ==
    ASSUME TypeInv, NEW fd \in Descriptors, Close(fd)
    PROVE  /\ owner' \in [Descriptors -> Clients \cup {None}]
           /\ used' \subseteq Descriptors
BY DEF Close, TypeInv, TypeOK

LEMMA RemoveClientType ==
    ASSUME TypeInv, NEW fd \in Descriptors, RemoveClient(fd)
    PROVE  /\ owner' \in [Descriptors -> Clients \cup {None}]
           /\ used' \subseteq Descriptors
           /\ clientInfo' \in [count : 0 .. Cardinality(Clients),
                               FDs : SUBSET Descriptors]
           /\ clientInfo'.count <= clientInfo.count
           /\ pipe' \in BOOLEAN
           /\ serial2tcp' \in Seq(1 .. Packets) /\ Len(serial2tcp') <= cMaxBufferSize
           /\ owed' \in [Descriptors -> SUBSET (1 .. Packets)]
<1>1. /\ clientInfo.count \in 0 .. Cardinality(Clients)
      /\ clientInfo.FDs \subseteq Descriptors
      /\ Cardinality(Clients) \in Nat
    BY ClientsAssumption, FS_CardinalityType DEF TypeInv, TypeOK
<1>2. /\ <<>> \in Seq(1 .. Packets) /\ Len(<<>>) <= cMaxBufferSize
      /\ serial2tcp \in Seq(1 .. Packets) /\ Len(serial2tcp) <= cMaxBufferSize
    BY BoundAssumption DEF TypeInv, TypeOK
<1>3. pipe' = TRUE
    BY DEF RemoveClient
<1>4. CASE clientInfo.count > 0
    <2> DEFINE count == clientInfo.count - IF CloseSucceeds(fd) THEN 1 ELSE 0
    <2>1. /\ Close(fd)
          /\ clientInfo' = [count |-> count, FDs |-> clientInfo.FDs \ {fd}]
          /\ serial2tcp' = IF ClearsBuffer(count) THEN <<>> ELSE serial2tcp
          /\ owed' = [owed EXCEPT ![fd] = {}]
        BY <1>4 DEF RemoveClient
    <2>2. count \in 0 .. Cardinality(Clients) /\ count <= clientInfo.count
        BY <1>1, <1>4
    <2>3. clientInfo'.count = count
        BY <2>1
    <2>4. clientInfo' \in [count : 0 .. Cardinality(Clients),
                           FDs : SUBSET Descriptors]
        BY <1>1, <2>1, <2>2
    <2>5. serial2tcp' \in Seq(1 .. Packets) /\ Len(serial2tcp') <= cMaxBufferSize
        BY <1>2, <2>1
    <2>6. owed' \in [Descriptors -> SUBSET (1 .. Packets)]
        BY <2>1 DEF TypeInv, TypeOK
    <2> QED BY <1>3, <2>1, <2>2, <2>3, <2>4, <2>5, <2>6, CloseType
<1>5. CASE ~ (clientInfo.count > 0)
    <2>1. serial2tcp' = <<>> /\ UNCHANGED <<descriptors, clientInfo, owed>>
        BY <1>5 DEF RemoveClient
    <2> QED BY <1>1, <1>2, <1>3, <2>1 DEF TypeInv, TypeOK, descriptors
<1> QED BY <1>1, <1>4, <1>5

\* What a step leaves of the types when it changes neither thread.
LEMMA KeepsType ==
    ASSUME TypeInv, UNCHANGED <<server, reader, writer, running>>,
           UNCHANGED <<owner, used, clientInfo>>,
           pipe' \in BOOLEAN,
           client' \in [Clients -> {"away", "connected", "left"}],
           \A c \in Clients : client'[c] = "away" <=> client[c] = "away",
           input' \in [Clients -> {"none", "part", "packet", "invalid"}],
           full' \subseteq Clients,
           serial2tcp' \in Seq(1 .. Packets), Len(serial2tcp') <= cMaxBufferSize,
           serial' \in {"read", "check", "drop", "put"},
           arrived' \in 0 .. Packets, serial' # "read" => arrived' # 0,
           owed' \in [Descriptors -> SUBSET (1 .. Packets)]
    PROVE  TypeInv'
<1>1. Arrivals' = Arrivals /\ Pending' = Pending
    BY DEF Arrivals, Pending
<1>2. TypeOK'
    BY DEF TypeInv, TypeOK
<1> QED BY <1>1, <1>2 DEF TypeInv

LEMMA ComingType ==
    ASSUME TypeInv, NEW fd
    PROVE  Coming(fd) \subseteq 1 .. Packets
<1>1. ToSet(serial2tcp) \subseteq 1 .. Packets
    <2>1. PICK q \in Seq(1 .. Packets) : q = serial2tcp
        BY DEF TypeInv, TypeOK
    <2>2. \A i \in 1 .. Len(q) : q[i] \in 1 .. Packets
        BY ElementOfSeq
    <2>3. DOMAIN q = 1 .. Len(q)
        BY LenProperties
    <2> QED BY <2>1, <2>2, <2>3 DEF ToSet
<1>2. Due(fd) => writer.packet \in 1 .. Packets
    BY PacketsAssumption DEF Due, TypeInv, TypeOK
<1> QED BY <1>1, <1>2 DEF Coming

\* A woken thread is at the top or where it was.
LEMMA AddClientType ==
    ASSUME TypeInv, AddClient
    PROVE  TypeInv'
<1> USE DEF TypeInv
<1>1. /\ server.pc = "add" /\ server.fd \in Descriptors
      /\ clientInfo.count \in 0 .. Cardinality(Clients)
      /\ clientInfo.FDs \subseteq Descriptors
    BY DEF AddClient, TypeOK
<1>2. /\ UNCHANGED <<descriptors, sockets, running, serial2tcp, mote>>
      /\ pipe' = TRUE
      /\ owed' = [owed EXCEPT ![server.fd] = Coming(server.fd)]
      /\ server' = [pc |-> "accept", fd |-> NoFD]
      /\ clientInfo' = [count |-> clientInfo.count + 1,
                        FDs |-> clientInfo.FDs \cup {server.fd}]
    BY DEF AddClient
<1>3. Arrivals' = Arrivals
    BY <1>2 DEF Arrivals, sockets
<1>4. /\ Cardinality(Arrivals) \in Nat /\ Cardinality(Clients) \in Nat
      /\ Cardinality(Arrivals) <= Cardinality(Clients)
    BY <1>3, ArrivalsGrow, ClientsAssumption, FS_CardinalityType
<1>5. clientInfo.count + 1 <= Cardinality(Arrivals)
    BY <1>1 DEF Pending
<1>6. clientInfo.count + 1 \in 0 .. Cardinality(Clients)
    BY <1>1, <1>4, <1>5
<1>7. clientInfo' \in [count : 0 .. Cardinality(Clients), FDs : SUBSET Descriptors]
    BY <1>1, <1>2, <1>6
<1>8. clientInfo'.count + Pending' <= Cardinality(Arrivals')
    BY <1>1, <1>2, <1>3, <1>5 DEF Pending
<1>9. /\ reader' \in ReaderType
      /\ reader'.pc \in {"serve", "reading"} => reader'.todo # {}
    <2>1. reader' = reader \/ reader' = [reader EXCEPT !.pc = "top"]
        BY DEF AddClient, Wake
    <2> QED BY <2>1 DEF TypeOK, ReaderType
<1>10. /\ writer' \in WriterType
       /\ writer'.pc \in {"write", "writing"} => writer'.todo # {}
       /\ writer'.pc \in {"copy", "write", "writing"} => writer'.packet # 0
    <2>1. writer' = writer \/ writer' = [writer EXCEPT !.pc = "top"]
        BY DEF AddClient, Wake
    <2> QED BY <2>1 DEF TypeOK, WriterType
<1>11. server' \in [pc : {"accept", "version", "add"}, fd : Descriptors \cup {NoFD}]
       /\ server'.pc = "accept"
    BY <1>2
<1>12. owed' \in [Descriptors -> SUBSET (1 .. Packets)]
    BY <1>2, ComingType DEF TypeOK
<1>13. TypeOK'
    BY <1>2, <1>7, <1>9, <1>10, <1>11, <1>12
       DEF TypeOK, ReaderType, WriterType, descriptors, sockets, mote
<1> QED BY <1>2, <1>8, <1>9, <1>10, <1>11, <1>13 DEF mote

LEMMA AcceptType ==
    ASSUME TypeInv, NEW c \in Clients, Accept(c)
    PROVE  TypeInv'
<1> USE DEF TypeInv
<1>1. PICK fd : fd = Min(Free)
    OBVIOUS
<1>2. fd \in Descriptors
    BY <1>1, MinOfDescriptors DEF Accept, Free
<1>3. /\ owner' = [owner EXCEPT ![fd] = c]
      /\ used' = used \cup {fd}
      /\ server' = [pc |-> "version", fd |-> fd]
      /\ client' = [client EXCEPT ![c] = "connected"]
      /\ UNCHANGED <<input, full, clientInfo, pipe, reader, writer, running,
                     serial2tcp, mote, owed>>
    BY <1>1 DEF Accept
<1>4. server.pc = "accept" /\ client[c] = "away"
    BY DEF Accept
<1>5. client' \in [Clients -> {"away", "connected", "left"}]
    BY <1>3 DEF TypeOK
<1>6. Arrivals' = Arrivals \cup {c} /\ c \notin Arrivals
    BY <1>3, <1>4 DEF Arrivals, TypeOK
<1>7. IsFiniteSet(Arrivals)
    BY ClientsAssumption, FS_Subset DEF Arrivals
<1>8. Cardinality(Arrivals') = Cardinality(Arrivals) + 1 /\ Cardinality(Arrivals) \in Nat
    BY <1>6, <1>7, FS_AddElement, FS_CardinalityType
<1>9. clientInfo.count \in 0 .. Cardinality(Clients)
    BY DEF TypeOK
<1>10. clientInfo'.count + Pending' <= Cardinality(Arrivals')
    BY <1>3, <1>4, <1>8, <1>9 DEF Pending
<1>11. server' \in [pc : {"accept", "version", "add"}, fd : Descriptors \cup {NoFD}]
       /\ server'.fd \in Descriptors
    BY <1>2, <1>3
<1>12. owner' \in [Descriptors -> Clients \cup {None}] /\ used' \subseteq Descriptors
    BY <1>2, <1>3 DEF TypeOK
<1>13. TypeOK'
    BY <1>3, <1>5, <1>11, <1>12 DEF TypeOK, mote
<1> QED BY <1>3, <1>10, <1>11, <1>13 DEF mote

LEMMA VersionCheckType ==
    ASSUME TypeInv, VersionCheck
    PROVE  TypeInv'
<1> USE DEF TypeInv
<1>1. /\ server.pc = "version" /\ server.fd \in Descriptors
      /\ UNCHANGED <<client, full, clientInfo, pipe, reader, writer, running,
                     serial2tcp, mote, owed>>
    BY DEF VersionCheck
<1>2. clientInfo.count \in 0 .. Cardinality(Clients)
    BY DEF TypeOK
<1>3. Arrivals' = Arrivals /\ Cardinality(Arrivals) \in Nat
    BY <1>1, ArrivalsGrow DEF Arrivals
<1>4. input' \in [Clients -> {"none", "part", "packet", "invalid"}]
    BY DEF VersionCheck, TypeOK
<1>5. CASE server' = [server EXCEPT !.pc = "add"] /\ UNCHANGED descriptors
    <2>1. server' \in [pc : {"accept", "version", "add"}, fd : Descriptors \cup {NoFD}]
          /\ server'.pc = "add" /\ server'.fd = server.fd
        BY <1>5 DEF TypeOK
    <2>2. TypeOK'
        BY <1>1, <1>4, <1>5, <2>1 DEF TypeOK, descriptors, mote
    <2>3. Pending' = Pending
        BY <1>1, <2>1 DEF Pending
    <2> QED BY <1>1, <1>3, <2>1, <2>2, <2>3 DEF mote
<1>6. CASE Close(server.fd) /\ server' = [pc |-> "accept", fd |-> NoFD]
    <2>1. clientInfo'.count + Pending' <= Cardinality(Arrivals')
        BY <1>1, <1>2, <1>3, <1>6 DEF Pending
    <2>2. TypeOK'
        BY <1>1, <1>4, <1>6, CloseType DEF TypeOK, mote
    <2> QED BY <1>1, <1>6, <2>1, <2>2 DEF mote
<1> QED BY <1>5, <1>6 DEF VersionCheck

\* What a round of either thread leaves to do: the rest of the descriptors.
LEMMA ReadReturnsType ==
    ASSUME TypeInv, ReadReturns
    PROVE  TypeInv'
<1> USE DEF TypeInv
<1>1. PICK fd : fd = Min(reader.todo)
    OBVIOUS
<1>2. fd \in Descriptors
    BY <1>1, MinOfDescriptors DEF ReadReturns, TypeOK
<1>3. reader' \in ReaderType
      /\ (reader'.pc \in {"serve", "reading"} => reader'.todo # {})
    <2> DEFINE todo == reader.todo \ {fd}
    <2>1. reader' = [reader EXCEPT !.pc = IF todo = {} THEN "top" ELSE "serve",
                                   !.todo = todo, !.peer = None]
        BY <1>1 DEF ReadReturns
    <2>2. reader'.todo = todo /\ reader'.pc = (IF todo = {} THEN "top" ELSE "serve")
        BY <2>1 DEF TypeOK
    <2>3. todo \subseteq Descriptors
        BY DEF TypeOK
    <2> HIDE DEF todo
    <2> QED BY <2>1, <2>2, <2>3 DEF TypeOK, ReaderType
<1>4. /\ UNCHANGED <<running, client, full, server, writer, mote>>
      /\ input' \in [Clients -> {"none", "part", "packet", "invalid"}]
    BY DEF ReadReturns, ReaderUnchanged, TypeOK
<1>5. Arrivals' = Arrivals /\ Pending' = Pending
    BY <1>4 DEF Arrivals, Pending
<1>6. CASE UNCHANGED <<descriptors, clientInfo, pipe, serial2tcp, owed>>
    <2>1. TypeOK'
        BY <1>3, <1>4, <1>6 DEF TypeOK, ReaderType, descriptors, mote
    <2> QED BY <1>3, <1>4, <1>5, <1>6, <2>1 DEF mote
<1>7. CASE RemoveClient(fd)
    <2>1. TypeOK'
        BY <1>2, <1>3, <1>4, <1>7, RemoveClientType DEF TypeOK, ReaderType, mote
    <2>2. /\ Cardinality(Arrivals) \in Nat
          /\ clientInfo'.count <= clientInfo.count
        BY <1>2, <1>5, <1>7, RemoveClientType, ArrivalsGrow
    <2>3. clientInfo.count \in Int /\ clientInfo'.count \in Int /\ Pending \in Int
        BY <2>1 DEF TypeOK, Pending
    <2> QED BY <1>3, <1>4, <1>5, <2>1, <2>2, <2>3 DEF mote
<1> QED BY <1>1, <1>6, <1>7 DEF ReadReturns

LEMMA WriteReturnsType ==
    ASSUME TypeInv, WriteReturns
    PROVE  TypeInv'
<1> USE DEF TypeInv
<1>1. PICK fd : fd = Min(writer.todo)
    OBVIOUS
<1>2. fd \in Descriptors
    BY <1>1, MinOfDescriptors DEF WriteReturns, TypeOK
<1>3. /\ writer' \in WriterType
      /\ (writer'.pc \in {"write", "writing"} => writer'.todo # {})
      /\ writer'.packet # 0 /\ writer.packet \in 1 .. Packets
    <2> DEFINE todo == writer.todo \ {fd}
    <2>1. writer' = [writer EXCEPT !.pc = IF todo = {} THEN "top" ELSE "write",
                                   !.todo = todo, !.peer = None]
        BY <1>1 DEF WriteReturns
    <2>2. /\ writer'.todo = todo /\ writer'.pc = (IF todo = {} THEN "top" ELSE "write")
          /\ writer'.packet = writer.packet
        BY <2>1 DEF TypeOK
    <2>3. todo \subseteq Descriptors
        BY DEF TypeOK
    <2>4. writer.packet \in 0 .. Packets /\ writer.packet # 0
        BY DEF TypeOK, WriteReturns
    <2> HIDE DEF todo
    <2>5. writer.packet \in 1 .. Packets
        BY <2>4, PacketsAssumption
    <2>6. writer' \in WriterType
        BY <2>1, <2>3 DEF TypeOK, WriterType
    <2>7. writer'.pc \in {"write", "writing"} => writer'.todo # {}
        BY <2>2
    <2> QED BY <2>2, <2>4, <2>5, <2>6, <2>7
<1>4. UNCHANGED <<client, input, server, reader, running, serial, arrived>>
    BY DEF WriteReturns, WriterUnchanged, mote
<1>5. Arrivals' = Arrivals /\ Pending' = Pending
    BY <1>4 DEF Arrivals, Pending
<1>6. ASSUME full' = full \/ full' = full \cup {writer.peer}, writer.peer # None,
             owed' = [owed EXCEPT ![fd] = @ \ {writer.packet}],
             UNCHANGED <<descriptors, clientInfo, pipe, serial2tcp>>
      PROVE  TypeInv'
    <2>1. full' \subseteq Clients
        BY <1>6 DEF TypeOK
    <2>2. owed' \in [Descriptors -> SUBSET (1 .. Packets)]
        BY <1>2, <1>6 DEF TypeOK
    <2>3. TypeOK'
        BY <1>3, <1>4, <1>6, <2>1, <2>2 DEF TypeOK, WriterType, descriptors
    <2> QED BY <1>3, <1>4, <1>5, <1>6, <2>3
<1>7. CASE RemoveClient(fd) /\ UNCHANGED full
    <2>1. TypeOK'
        BY <1>2, <1>3, <1>4, <1>7, RemoveClientType DEF TypeOK, WriterType
    <2>2. /\ Cardinality(Arrivals) \in Nat
          /\ clientInfo'.count <= clientInfo.count
        BY <1>2, <1>5, <1>7, RemoveClientType, ArrivalsGrow
    <2>3. clientInfo.count \in Int /\ clientInfo'.count \in Int /\ Pending \in Int
        BY <2>1 DEF TypeOK, Pending
    <2> QED BY <1>3, <1>4, <1>5, <2>1, <2>2, <2>3
<1> QED BY <1>1, <1>6, <1>7 DEF WriteReturns

LEMMA ReaderStepType ==
    ASSUME TypeInv, CopyForReading \/ Select \/ SelectReturns \/ ReadPacket
    PROVE  TypeInv'
<1> USE DEF TypeInv
<1>1. UNCHANGED <<descriptors, sockets, clientInfo, serial2tcp, server, writer, mote,
                  owed>>
    BY DEF CopyForReading, Select, SelectReturns, ReadPacket, ReaderUnchanged, sockets
<1>2. pipe' \in BOOLEAN /\ running' \in BOOLEAN
    BY DEF CopyForReading, Select, SelectReturns, ReadPacket, TypeOK
<1>3. Arrivals' = Arrivals /\ Pending' = Pending
    BY <1>1 DEF Arrivals, Pending, sockets
<1>4. /\ reader' \in ReaderType
      /\ reader'.pc \in {"serve", "reading"} => reader'.todo # {}
    <2>0. reader \in ReaderType
        BY DEF TypeOK, ReaderType
    <2>1. CASE CopyForReading
        <3>1. clientInfo.FDs \subseteq Descriptors
            BY DEF TypeOK
        <3>2. \/ reader' = [reader EXCEPT !.pc = "asleep", !.clientFDs = {}]
              \/ reader' = [reader EXCEPT !.pc = "select", !.clientFDs = clientInfo.FDs]
            BY <2>1 DEF CopyForReading
        <3> QED BY <2>0, <3>1, <3>2 DEF ReaderType
    <2>2. CASE Select
        BY <2>0, <2>2 DEF Select, ReaderType
    <2>3. CASE SelectReturns
        <3> DEFINE ready == {fd \in reader.clientFDs : Readable(fd)}
        <3>1. ready \subseteq Descriptors
            BY DEF TypeOK
        <3>2. \/ ready = {} /\ reader' = [reader EXCEPT !.pc = "top"]
              \/ ready # {} /\ reader' = [reader EXCEPT !.pc = "serve", !.todo = ready]
            BY <2>3 DEF SelectReturns
        <3> HIDE DEF ready
        <3>3. CASE ready = {} /\ reader' = [reader EXCEPT !.pc = "top"]
            BY <2>0, <3>3 DEF ReaderType
        <3>4. CASE ready # {} /\ reader' = [reader EXCEPT !.pc = "serve", !.todo = ready]
            <4>1. reader'.todo = ready
                BY <2>0, <3>4 DEF ReaderType
            <4> QED BY <2>0, <3>1, <3>4, <4>1 DEF ReaderType
        <3> QED BY <3>2, <3>3, <3>4
    <2>4. CASE ReadPacket
        <3>1. Min(reader.todo) \in Descriptors
            BY <2>4, MinOfDescriptors DEF ReadPacket, TypeOK
        <3>2. owner[Min(reader.todo)] \in Clients \cup {None} /\ reader.todo # {}
            BY <2>4, <3>1 DEF ReadPacket, TypeOK
        <3> QED BY <2>0, <2>4, <3>2 DEF ReadPacket, ReaderType
    <2> QED BY <2>1, <2>2, <2>3, <2>4
<1>5. TypeOK'
    BY <1>1, <1>2, <1>4 DEF TypeOK, ReaderType, descriptors, sockets, mote
<1> QED BY <1>1, <1>3, <1>4, <1>5 DEF mote

LEMMA WriterStepType ==
    ASSUME TypeInv, CountForWriting \/ Dequeue \/ CopyForWriting \/ WritePacket
    PROVE  TypeInv'
<1> USE DEF TypeInv
<1>1. UNCHANGED <<descriptors, sockets, clientInfo, pipe, server, reader, running, mote,
                  owed>>
    BY DEF CountForWriting, Dequeue, CopyForWriting, WritePacket, WriterUnchanged,
           sockets, mote
<1>2. Arrivals' = Arrivals /\ Pending' = Pending
    BY <1>1 DEF Arrivals, Pending, sockets
<1>3. /\ writer' \in WriterType
      /\ writer'.pc \in {"write", "writing"} => writer'.todo # {}
      /\ writer'.pc \in {"copy", "write", "writing"} => writer'.packet # 0
      /\ serial2tcp' \in Seq(1 .. Packets) /\ Len(serial2tcp') <= cMaxBufferSize
    <2>0. /\ writer \in WriterType
          /\ serial2tcp \in Seq(1 .. Packets) /\ Len(serial2tcp) <= cMaxBufferSize
        BY DEF TypeOK, WriterType
    <2>1. CASE CountForWriting
        BY <2>0, <2>1 DEF CountForWriting, WriterType
    <2>2. CASE Dequeue
        <3>1. /\ serial2tcp # <<>> /\ serial2tcp' = Tail(serial2tcp)
              /\ writer' = [writer EXCEPT !.pc = "copy", !.packet = Head(serial2tcp)]
            BY <2>2 DEF Dequeue
        <3>2. /\ Head(serial2tcp) \in 1 .. Packets /\ Tail(serial2tcp) \in Seq(1 .. Packets)
              /\ Len(Tail(serial2tcp)) = Len(serial2tcp) - 1 /\ Len(serial2tcp) \in Nat
            BY <2>0, <3>1, HeadTailProperties, LenProperties
        <3>3. Head(serial2tcp) \in 0 .. Packets /\ Head(serial2tcp) # 0
            BY <3>2, PacketsAssumption
        <3>4. Len(serial2tcp') <= cMaxBufferSize
            BY <2>0, <3>1, <3>2, BoundAssumption
        <3>5. writer' \in WriterType /\ writer'.pc = "copy" /\ writer'.packet # 0
            BY <2>0, <3>1, <3>3 DEF WriterType
        <3> QED BY <3>1, <3>2, <3>4, <3>5
    <2>3. CASE CopyForWriting
        <3>1. /\ writer.pc = "copy" /\ UNCHANGED serial2tcp
              /\ writer' = [writer EXCEPT !.todo = clientInfo.FDs,
                               !.pc = IF clientInfo.FDs = {} THEN "top" ELSE "write"]
            BY <2>3 DEF CopyForWriting
        <3>2. clientInfo.FDs \subseteq Descriptors
            BY DEF TypeOK
        <3> QED BY <2>0, <3>1, <3>2 DEF WriterType
    <2>4. CASE WritePacket
        <3>1. Min(writer.todo) \in Descriptors
            BY <2>4, MinOfDescriptors DEF WritePacket, TypeOK
        <3>2. owner[Min(writer.todo)] \in Clients \cup {None}
              /\ writer.todo # {} /\ writer.packet # 0
            BY <2>4, <3>1 DEF WritePacket, TypeOK
        <3> QED BY <2>0, <2>4, <3>2 DEF WritePacket, WriterType
    <2> QED BY <2>1, <2>2, <2>3, <2>4
<1>4. TypeOK'
    BY <1>1, <1>3 DEF TypeOK, WriterType, descriptors, sockets, mote
<1> QED BY <1>1, <1>2, <1>3, <1>4 DEF mote

LEMMA ClientType ==
    ASSUME TypeInv, NEW c \in Clients,
           ClientSends(c) \/ ClientReads(c) \/ ClientLeaves(c)
    PROVE  TypeInv'
<1>1. UNCHANGED <<descriptors, clientInfo, pipe, server, reader, writer, running,
                  serial2tcp, mote, owed>>
    BY DEF ClientSends, ClientReads, ClientLeaves, ClientUnchanged
<1>2. /\ client' \in [Clients -> {"away", "connected", "left"}]
      /\ \A d \in Clients : client'[d] = "away" <=> client[d] = "away"
    BY DEF ClientSends, ClientReads, ClientLeaves, TypeInv, TypeOK
<1>3. input' \in [Clients -> {"none", "part", "packet", "invalid"}]
    BY DEF ClientSends, ClientReads, ClientLeaves, Sends, TypeInv, TypeOK
<1>4. full' \subseteq Clients
    BY DEF ClientSends, ClientReads, ClientLeaves, TypeInv, TypeOK
<1> QED BY <1>1, <1>2, <1>3, <1>4, KeepsType DEF TypeInv, TypeOK, descriptors, mote

LEMMA MoteType ==
    ASSUME TypeInv, PacketArrives \/ CheckFull \/ DropOldest \/ Put
    PROVE  TypeInv'
<1>1. UNCHANGED <<descriptors, sockets, clientInfo, pipe, server, reader, writer,
                  running>>
    BY DEF PacketArrives, CheckFull, DropOldest, Put, MoteUnchanged
<1>2. /\ serial2tcp \in Seq(1 .. Packets) /\ Len(serial2tcp) <= cMaxBufferSize
      /\ Len(serial2tcp) \in Nat /\ arrived \in 0 .. Packets
      /\ owed \in [Descriptors -> SUBSET (1 .. Packets)] /\ (serial # "read" => arrived # 0)
    BY LenProperties DEF TypeInv, TypeOK
<1>3. /\ serial2tcp' \in Seq(1 .. Packets) /\ Len(serial2tcp') <= cMaxBufferSize
      /\ serial' \in {"read", "check", "drop", "put"}
      /\ arrived' \in 0 .. Packets /\ (serial' # "read" => arrived' # 0)
      /\ owed' \in [Descriptors -> SUBSET (1 .. Packets)]
    <2>1. CASE PacketArrives
        BY <1>2, <2>1, PacketsAssumption DEF PacketArrives
    <2>2. CASE CheckFull
        BY <1>2, <2>2 DEF CheckFull
    <2>3. CASE DropOldest
        <3>1. /\ Head(serial2tcp) \in 1 .. Packets /\ Tail(serial2tcp) \in Seq(1 .. Packets)
              /\ Len(Tail(serial2tcp)) = Len(serial2tcp) - 1
            BY <1>2, <2>3, HeadTailProperties DEF DropOldest
        <3>2. /\ serial2tcp' = Tail(serial2tcp) /\ UNCHANGED arrived
              /\ serial' = "check" /\ serial # "read"
              /\ owed' = [fd \in Descriptors |-> owed[fd] \ {Head(serial2tcp)}]
            BY <2>3 DEF DropOldest
        <3>3. Len(serial2tcp') <= cMaxBufferSize
            BY <1>2, <3>1, <3>2, BoundAssumption
        <3> QED BY <1>2, <3>1, <3>2, <3>3
    <2>4. CASE Put
        <3>1. arrived \in 1 .. Packets
            BY <1>2, <2>4, PacketsAssumption DEF Put
        <3>2. /\ Append(serial2tcp, arrived) \in Seq(1 .. Packets)
              /\ Len(Append(serial2tcp, arrived)) = Len(serial2tcp) + 1
            BY <1>2, <3>1, AppendProperties
        <3> QED BY <1>2, <2>4, <3>1, <3>2, BoundAssumption DEF Put, IsFull
    <2> QED BY <2>1, <2>2, <2>3, <2>4
<1> QED BY <1>1, <1>3, KeepsType DEF TypeInv, TypeOK, descriptors, sockets

LEMMA StutterType ==
    ASSUME TypeInv, UNCHANGED vars
    PROVE  TypeInv'
BY KeepsType DEF TypeInv, TypeOK, vars, descriptors, sockets, mote

LEMMA StepType ==
    ASSUME TypeInv, [Next]_vars
    PROVE  TypeInv'
<1>1. CASE \E c \in Clients : Accept(c)
    BY <1>1, AcceptType
<1>2. CASE VersionCheck \/ AddClient
    BY <1>2, VersionCheckType, AddClientType
<1>3. CASE CopyForReading \/ Select \/ SelectReturns \/ ReadPacket \/ ReadReturns
    BY <1>3, ReaderStepType, ReadReturnsType
<1>4. CASE CountForWriting \/ Dequeue \/ CopyForWriting \/ WritePacket \/ WriteReturns
    BY <1>4, WriterStepType, WriteReturnsType
<1>5. CASE \E c \in Clients : ClientSends(c) \/ ClientReads(c) \/ ClientLeaves(c)
    BY <1>5, ClientType
<1>6. CASE PacketArrives \/ CheckFull \/ DropOldest \/ Put
    BY <1>6, MoteType
<1>7. CASE UNCHANGED vars
    BY <1>7, StutterType
<1> QED BY <1>1, <1>2, <1>3, <1>4, <1>5, <1>6, <1>7 DEF Next, Server, Reader, Writer

LEMMA TypeInvariant == Spec => []TypeInv
<1>1. Init => TypeInv
    BY InitTypeInv
<1>2. TypeInv /\ [Next]_vars => TypeInv'
    BY StepType
<1> QED BY <1>1, <1>2, PTL DEF Spec

\* Every variable stays within its type, with and without the numbers of closed
\* descriptors being given again: count never falls below zero, nor does it
\* exceed the clients there are.
THEOREM TypeCorrect == Spec => []TypeOK
<1>1. TypeInv => TypeOK
    BY DEF TypeInv
<1> QED BY <1>1, TypeInvariant, PTL

(***************************************************************************)
(* Counting clients                                                        *)
(***************************************************************************)

Copies == reader.clientFDs \cup reader.todo \cup writer.todo

\* An open descriptor is in FDs or has just been accepted, and is never in a
\* copy only: a thread that finds one closed has it gone from FDs too.
FDInv ==
    /\ IsFiniteSet(clientInfo.FDs)
    /\ \A fd \in Descriptors : IsOpen(fd) => fd \in used
    /\ Copies \cup clientInfo.FDs \subseteq used
    /\ \A fd \in Copies : IsOpen(fd) => fd \in clientInfo.FDs
    /\ server.pc # "accept" =>
           IsOpen(server.fd) /\ server.fd \notin Copies \cup clientInfo.FDs
    /\ CountIsRight

LEMMA InitFDInv == Init => FDInv
<1> SUFFICES ASSUME Init PROVE FDInv
    OBVIOUS
<1>1. IsFiniteSet({}) /\ Cardinality({}) = 0
    BY FS_EmptySet
<1>2. clientInfo.FDs = {} /\ clientInfo.count = 0 /\ Copies = {}
    BY DEF Init, Copies
<1>3. server.pc = "accept" /\ \A fd \in Descriptors : ~ IsOpen(fd)
    BY DEF Init, IsOpen
<1> QED BY <1>1, <1>2, <1>3 DEF FDInv, CountIsRight

\* The descriptors stay as they are; a thread copies FDs or lets go of a part
\* of its copy.
LEMMA CopyKeepsFDs ==
    ASSUME FDInv, UNCHANGED <<owner, used, clientInfo, server>>,
           Copies' \subseteq Copies \cup clientInfo.FDs
    PROVE  FDInv'
BY DEF FDInv, IsOpen, CountIsRight

\* A thread removes a client whose descriptor it holds.
LEMMA RemoveKeepsFDs ==
    ASSUME TypeInv, FDInv, NEW fd \in Descriptors, fd \in Copies,
           RemoveClient(fd), UNCHANGED server, Copies' \subseteq Copies
    PROVE  FDInv'
<1> USE DEF FDInv
<1>1. clientInfo.count \in Nat /\ clientInfo.count = Cardinality(clientInfo.FDs)
    BY ClientsAssumption, FS_CardinalityType DEF CountIsRight
<1>2. CASE clientInfo.count > 0
    <2>1. owner' = [owner EXCEPT ![fd] = None] /\ UNCHANGED used
        BY <1>2 DEF RemoveClient, Close
    <2>2. clientInfo'.FDs = clientInfo.FDs \ {fd}
        BY <1>2 DEF RemoveClient
    <2>3. clientInfo'.count = clientInfo.count - IF IsOpen(fd) THEN 1 ELSE 0
        BY <1>2 DEF RemoveClient, CloseSucceeds
    <2>4. \A g \in Descriptors : IsOpen(g)' <=> g # fd /\ IsOpen(g)
        BY <2>1 DEF IsOpen, TypeInv, TypeOK
    <2>5. IsOpen(fd) <=> fd \in clientInfo.FDs
        BY DEF CountIsRight
    <2>6. /\ IsFiniteSet(clientInfo'.FDs)
          /\ clientInfo'.count = Cardinality(clientInfo'.FDs)
        BY <1>1, <2>2, <2>3, <2>5, FS_RemoveElement
    <2>7. clientInfo.FDs \subseteq Descriptors /\ Copies \subseteq Descriptors
        BY DEF TypeInv, TypeOK, Copies
    <2>8. \A g \in clientInfo'.FDs : IsOpen(g)'
        BY <2>2, <2>4, <2>7 DEF CountIsRight
    <2>9. \A g \in Copies' : IsOpen(g)' => g \in clientInfo'.FDs
        BY <2>2, <2>4, <2>7
    <2>10. server'.pc # "accept" =>
              IsOpen(server.fd)' /\ server.fd \notin Copies' \cup clientInfo'.FDs
        BY <2>2, <2>4 DEF TypeInv
    <2> QED BY <2>1, <2>2, <2>4, <2>6, <2>8, <2>9, <2>10 DEF CountIsRight, IsOpen
<1>3. CASE ~ (clientInfo.count > 0)
    BY <1>3, CopyKeepsFDs DEF RemoveClient, descriptors
<1> QED BY <1>2, <1>3

\* Without reuse the descriptor of a new client is one that nobody knows.
LEMMA AcceptKeepsFDs ==
    ASSUME ~ Reuse, TypeInv, FDInv, NEW c \in Clients, Accept(c)
    PROVE  FDInv'
<1> USE DEF FDInv
<1>1. PICK fd : fd = Min(Free)
    OBVIOUS
<1>2. fd \in Descriptors /\ fd \notin used
    BY <1>1, MinOfDescriptors DEF Accept, Free
<1>3. /\ owner' = [owner EXCEPT ![fd] = c]
      /\ used' = used \cup {fd}
      /\ server' = [pc |-> "version", fd |-> fd]
      /\ UNCHANGED <<clientInfo, reader, writer>>
    BY <1>1 DEF Accept
<1>4. c # None
    BY ClientsAssumption
<1>5. \A g \in Descriptors : IsOpen(g)' <=> g = fd \/ IsOpen(g)
    BY <1>2, <1>3, <1>4 DEF IsOpen, TypeInv, TypeOK
<1>6. clientInfo.FDs \subseteq Descriptors /\ Copies \subseteq Descriptors
    BY DEF TypeInv, TypeOK, Copies
<1>7. Copies' = Copies /\ fd \notin Copies \cup clientInfo.FDs
    BY <1>2, <1>3 DEF Copies
<1>8. IsOpen(server.fd)' /\ server'.fd = fd
    BY <1>2, <1>3, <1>4 DEF IsOpen, TypeInv, TypeOK
<1>9. \A g \in Descriptors : IsOpen(g)' => g \in used'
    BY <1>3, <1>5
<1>10. \A g \in Copies' : IsOpen(g)' => g \in clientInfo'.FDs
    BY <1>3, <1>5, <1>6, <1>7
<1>11. CountIsRight'
    BY <1>3, <1>5, <1>6 DEF CountIsRight
<1> QED BY <1>3, <1>7, <1>8, <1>9, <1>10, <1>11

LEMMA VersionCheckKeepsFDs ==
    ASSUME TypeInv, FDInv, VersionCheck
    PROVE  FDInv'
<1> USE DEF FDInv
<1>1. /\ server.pc = "version" /\ server.fd \in Descriptors
      /\ UNCHANGED <<clientInfo, reader, writer>>
    BY DEF VersionCheck, TypeInv
<1>2. Copies' = Copies
    BY <1>1 DEF Copies
<1>3. CASE server' = [server EXCEPT !.pc = "add"] /\ UNCHANGED descriptors
    <2>1. server'.fd = server.fd
        BY <1>3 DEF TypeInv, TypeOK
    <2> QED BY <1>1, <1>2, <1>3, <2>1 DEF descriptors, IsOpen, CountIsRight
<1>4. CASE Close(server.fd) /\ server' = [pc |-> "accept", fd |-> NoFD]
    <2>1. owner' = [owner EXCEPT ![server.fd] = None] /\ UNCHANGED used
        BY <1>4 DEF Close
    <2>2. \A g \in Descriptors : IsOpen(g)' <=> g # server.fd /\ IsOpen(g)
        BY <1>1, <2>1 DEF IsOpen, TypeInv, TypeOK
    <2>3. clientInfo.FDs \subseteq Descriptors /\ Copies \subseteq Descriptors
        BY DEF TypeInv, TypeOK, Copies
    <2>4. \A g \in clientInfo.FDs : IsOpen(g)'
        BY <1>1, <2>2, <2>3 DEF CountIsRight
    <2>5. \A g \in Copies : IsOpen(g)' => g \in clientInfo.FDs
        BY <2>2, <2>3
    <2> QED BY <1>1, <1>2, <1>4, <2>1, <2>2, <2>4, <2>5 DEF CountIsRight, IsOpen
<1> QED BY <1>3, <1>4 DEF VersionCheck

LEMMA AddClientKeepsFDs ==
    ASSUME TypeInv, FDInv, AddClient
    PROVE  FDInv'
<1> USE DEF FDInv
<1>1. /\ server.pc = "add" /\ server.fd \in Descriptors
      /\ clientInfo' = [count |-> clientInfo.count + 1,
                        FDs |-> clientInfo.FDs \cup {server.fd}]
      /\ server' = [pc |-> "accept", fd |-> NoFD]
      /\ UNCHANGED <<owner, used>>
    BY DEF AddClient, descriptors, TypeInv
<1>2. Copies' = Copies
    BY DEF AddClient, Wake, Copies, TypeInv, TypeOK
<1>3. IsOpen(server.fd) /\ server.fd \notin Copies \cup clientInfo.FDs
    BY <1>1
<1>4. /\ IsFiniteSet(clientInfo'.FDs)
      /\ clientInfo'.count = Cardinality(clientInfo'.FDs)
    BY <1>1, <1>3, FS_AddElement DEF CountIsRight
<1>5. server'.pc = "accept" /\ clientInfo'.FDs = clientInfo.FDs \cup {server.fd}
    BY <1>1
<1> QED BY <1>1, <1>2, <1>3, <1>4, <1>5 DEF CountIsRight, IsOpen

\* What the round of a thread leaves it: a part of its copy.
LEMMA RoundOfReader ==
    ASSUME TypeInv, ReadReturns
    PROVE  /\ UNCHANGED <<client, server, writer, mote>>
           /\ reader'.clientFDs = reader.clientFDs
           /\ reader'.todo = reader.todo \ {Min(reader.todo)}
           /\ Min(reader.todo) \in reader.todo /\ Min(reader.todo) \in Descriptors
           /\ Copies' \subseteq Copies
<1>1. UNCHANGED <<client, server, writer, mote>>
    BY DEF ReadReturns, ReaderUnchanged
<1>2. /\ reader'.clientFDs = reader.clientFDs
      /\ reader'.todo = reader.todo \ {Min(reader.todo)}
    BY DEF ReadReturns, TypeInv, TypeOK
<1>3. Min(reader.todo) \in reader.todo /\ Min(reader.todo) \in Descriptors
    BY MinOfDescriptors DEF ReadReturns, TypeInv, TypeOK
<1> QED BY <1>1, <1>2, <1>3 DEF Copies

LEMMA RoundOfWriter ==
    ASSUME TypeInv, WriteReturns
    PROVE  /\ UNCHANGED <<client, server, reader, mote>>
           /\ writer'.packet = writer.packet
           /\ writer'.todo = writer.todo \ {Min(writer.todo)}
           /\ writer'.pc = IF writer'.todo = {} THEN "top" ELSE "write"
           /\ Min(writer.todo) \in writer.todo /\ Min(writer.todo) \in Descriptors
           /\ Copies' \subseteq Copies
<1>1. UNCHANGED <<client, server, reader, mote>>
    BY DEF WriteReturns, WriterUnchanged, mote
<1>2. /\ writer'.packet = writer.packet
      /\ writer'.todo = writer.todo \ {Min(writer.todo)}
      /\ writer'.pc = IF writer'.todo = {} THEN "top" ELSE "write"
    BY DEF WriteReturns, TypeInv, TypeOK
<1>3. Min(writer.todo) \in writer.todo /\ Min(writer.todo) \in Descriptors
    BY MinOfDescriptors DEF WriteReturns, TypeInv, TypeOK
<1> QED BY <1>1, <1>2, <1>3 DEF Copies

\* The steps that only take copies, or up a connection.
Copying ==
    \/ CopyForReading \/ Select \/ SelectReturns \/ ReadPacket
    \/ CountForWriting \/ Dequeue \/ CopyForWriting \/ WritePacket

LEMMA CopyingCopies ==
    ASSUME TypeInv, Copying
    PROVE  /\ UNCHANGED <<descriptors, client, clientInfo, server, mote, owed>>
           /\ Copies' \subseteq Copies \cup clientInfo.FDs
<1> USE DEF Copies, TypeInv, TypeOK
<1>1. CASE CopyForReading \/ Select \/ SelectReturns \/ ReadPacket
    <2>1. UNCHANGED <<descriptors, client, clientInfo, server, writer, mote, owed>>
        BY <1>1 DEF CopyForReading, Select, SelectReturns, ReadPacket, ReaderUnchanged
    <2>2. CASE CopyForReading
        BY <2>1, <2>2 DEF CopyForReading
    <2>3. CASE Select \/ ReadPacket
        <3>1. reader'.clientFDs = reader.clientFDs /\ reader'.todo = reader.todo
            BY <2>3 DEF Select, ReadPacket
        <3> QED BY <2>1, <3>1
    <2>4. CASE SelectReturns
        <3> DEFINE ready == {fd \in reader.clientFDs : Readable(fd)}
        <3>1. ready \subseteq reader.clientFDs
            OBVIOUS
        <3>2. \/ reader' = [reader EXCEPT !.pc = "top"]
              \/ reader' = [reader EXCEPT !.pc = "serve", !.todo = ready]
            BY <2>4 DEF SelectReturns
        <3> HIDE DEF ready
        <3>3. reader'.clientFDs = reader.clientFDs /\ reader'.todo \in {reader.todo, ready}
            BY <3>2
        <3> QED BY <2>1, <3>1, <3>3
    <2> QED BY <1>1, <2>2, <2>3, <2>4
<1>2. CASE CountForWriting \/ Dequeue \/ CopyForWriting \/ WritePacket
    <2>1. UNCHANGED <<descriptors, client, clientInfo, server, reader, mote, owed>>
        BY <1>2 DEF CountForWriting, Dequeue, CopyForWriting, WritePacket,
                    WriterUnchanged, mote
    <2>2. CASE CountForWriting \/ WritePacket
        BY <2>1, <2>2 DEF CountForWriting, WritePacket
    <2>3. CASE Dequeue
        BY <2>1, <2>3 DEF Dequeue
    <2>4. CASE CopyForWriting
        <3>1. writer'.todo = clientInfo.FDs
            BY <2>4 DEF CopyForWriting
        <3> QED BY <2>1, <3>1
    <2> QED BY <1>2, <2>2, <2>3, <2>4
<1> QED BY <1>1, <1>2 DEF Copying

LEMMA StepFDs ==
    ASSUME ~ Reuse, TypeInv, FDInv, [Next]_vars
    PROVE  FDInv'
<1>1. CASE \E c \in Clients : Accept(c)
    BY <1>1, AcceptKeepsFDs
<1>2. CASE VersionCheck \/ AddClient
    BY <1>2, VersionCheckKeepsFDs, AddClientKeepsFDs
<1>3. CASE Copying
    BY <1>3, CopyingCopies, CopyKeepsFDs DEF descriptors
<1>4. CASE ReadReturns
    <2>1. PICK fd : fd = Min(reader.todo)
        OBVIOUS
    <2>2. /\ fd \in Copies /\ fd \in Descriptors
          /\ UNCHANGED server /\ Copies' \subseteq Copies
        BY <1>4, <2>1, RoundOfReader DEF Copies
    <2>3. CASE UNCHANGED <<descriptors, clientInfo, pipe, serial2tcp>>
        BY <2>2, <2>3, CopyKeepsFDs DEF descriptors
    <2>4. CASE RemoveClient(fd)
        BY <2>2, <2>4, RemoveKeepsFDs
    <2> QED BY <1>4, <2>1, <2>3, <2>4 DEF ReadReturns
<1>5. CASE WriteReturns
    <2>1. PICK fd : fd = Min(writer.todo)
        OBVIOUS
    <2>2. /\ fd \in Copies /\ fd \in Descriptors
          /\ UNCHANGED server /\ Copies' \subseteq Copies
        BY <1>5, <2>1, RoundOfWriter DEF Copies
    <2>3. CASE UNCHANGED <<descriptors, clientInfo, pipe, serial2tcp>>
        BY <2>2, <2>3, CopyKeepsFDs DEF descriptors
    <2>4. CASE RemoveClient(fd)
        BY <2>2, <2>4, RemoveKeepsFDs
    <2> QED BY <1>5, <2>1, <2>3, <2>4 DEF WriteReturns
<1>6. CASE \E c \in Clients : ClientSends(c) \/ ClientReads(c) \/ ClientLeaves(c)
    <2>1. UNCHANGED <<owner, used, clientInfo, server, reader, writer>>
        BY <1>6 DEF ClientSends, ClientReads, ClientLeaves, ClientUnchanged, descriptors
    <2> QED BY <2>1, CopyKeepsFDs DEF Copies
<1>7. CASE \/ PacketArrives \/ CheckFull \/ DropOldest \/ Put
           \/ UNCHANGED vars
    <2>1. UNCHANGED <<owner, used, clientInfo, server, reader, writer>>
        BY <1>7 DEF PacketArrives, CheckFull, DropOldest, Put, MoteUnchanged, vars,
                    descriptors
    <2> QED BY <2>1, CopyKeepsFDs DEF Copies
<1> QED BY <1>1, <1>2, <1>3, <1>4, <1>5, <1>6, <1>7
        DEF Next, Server, Reader, Writer, Copying

LEMMA FDInvariant ==
    ASSUME ~ Reuse
    PROVE  Spec => []FDInv
<1>1. Init => FDInv
    BY InitFDInv
<1>2. TypeInv /\ FDInv /\ [Next]_vars => FDInv'
    BY StepFDs
<1> QED BY <1>1, <1>2, TypeInvariant, PTL DEF Spec

\* As long as the kernel does not give the number of a closed descriptor again
\* while a thread still holds it, count is the number of descriptors in FDs and
\* each of them is open, however the two threads that may both find that a
\* client has left are interleaved.
THEOREM CountCorrect ==
    ASSUME ~ Reuse
    PROVE  Spec => []CountIsRight
<1>1. FDInv => CountIsRight
    BY DEF FDInv
<1> QED BY <1>1, FDInvariant, PTL

(***************************************************************************)
(* What a client is owed                                                   *)
(***************************************************************************)

\* The last packet that was put into serial2tcp.
LastPut == IF serial = "read" THEN arrived ELSE arrived - 1

OwedInv ==
    /\ \A p \in ToSet(serial2tcp) : p <= LastPut
    /\ writer.packet <= LastPut
    /\ OwedIsComing

LEMMA InitOwedInv == Init => OwedInv
<1> SUFFICES ASSUME Init PROVE OwedInv
    OBVIOUS
<1>1. serial2tcp = <<>> /\ clientInfo.FDs = {} /\ writer.packet = 0 /\ LastPut = 0
    BY DEF Init, LastPut
<1>2. DOMAIN serial2tcp = {} /\ ToSet(serial2tcp) = {}
    BY <1>1 DEF ToSet
<1> QED BY <1>1, <1>2 DEF OwedInv, OwedIsComing

\* The numbers there are.
LEMMA NumberTypes ==
    ASSUME TypeInv
    PROVE  /\ arrived \in Nat /\ LastPut \in Int /\ writer.packet \in Int
           /\ serial2tcp \in Seq(1 .. Packets) /\ Len(serial2tcp) \in Nat
           /\ DOMAIN serial2tcp = 1 .. Len(serial2tcp)
           /\ \A i \in DOMAIN serial2tcp : serial2tcp[i] \in Int
<1>1. arrived \in Nat /\ writer.packet \in Int
    BY PacketsAssumption DEF TypeInv, TypeOK
<1>2. /\ serial2tcp \in Seq(1 .. Packets) /\ Len(serial2tcp) \in Nat
      /\ DOMAIN serial2tcp = 1 .. Len(serial2tcp)
    BY LenProperties DEF TypeInv, TypeOK
<1>3. \A i \in DOMAIN serial2tcp : serial2tcp[i] \in Int
    <2>1. \A i \in 1 .. Len(serial2tcp) : serial2tcp[i] \in 1 .. Packets
        BY <1>2, ElementOfSeq
    <2>2. \A k \in 1 .. Packets : k \in Int
        OBVIOUS
    <2> QED BY <1>2, <2>1, <2>2
<1>4. LastPut \in Int
    BY <1>1 DEF LastPut
<1> QED BY <1>1, <1>2, <1>3, <1>4

\* The buffer and the packet in the writer's hands stay as they are, and so does
\* what is owed to who remains and is still to be written to it.
LEMMA KeepsOwed ==
    ASSUME OwedInv, UNCHANGED <<serial2tcp, writer.packet>>, LastPut' = LastPut,
           \A fd \in clientInfo'.FDs :
               \/ fd \in clientInfo.FDs /\ owed'[fd] = owed[fd] /\ (Due(fd)' <=> Due(fd))
               \/ owed'[fd] = Coming(fd)'
    PROVE  OwedInv'
<1>1. ASSUME NEW fd \in clientInfo'.FDs
      PROVE  owed'[fd] = Coming(fd)'
    <2>1. CASE fd \in clientInfo.FDs /\ owed'[fd] = owed[fd] /\ (Due(fd)' <=> Due(fd))
        <3>1. owed[fd] = Coming(fd)
            BY <2>1 DEF OwedInv, OwedIsComing
        <3> QED BY <2>1, <3>1 DEF Coming
    <2> QED BY <2>1
<1> QED BY <1>1 DEF OwedInv, OwedIsComing

\* The buffer may be cleared when there is nobody left in FDs.
LEMMA RemoveKeepsOwed ==
    ASSUME TypeInv, OwedInv, FDInv', NEW fd \in Descriptors, RemoveClient(fd),
           UNCHANGED mote, writer'.packet = writer.packet,
           \A g \in clientInfo.FDs \ {fd} : Due(g)' <=> Due(g)
    PROVE  OwedInv'
<1>1. LastPut' = LastPut
    BY DEF LastPut, mote
<1>2. CASE UNCHANGED <<clientInfo, owed>> /\ serial2tcp' = <<>> /\ clientInfo.count = 0
    <2>1. clientInfo'.FDs = {}
        BY <1>2, FS_EmptySet DEF FDInv, CountIsRight
    <2>2. DOMAIN serial2tcp' = {} /\ ToSet(serial2tcp') = {}
        BY <1>2 DEF ToSet
    <2> QED BY <1>1, <2>1, <2>2 DEF OwedInv, OwedIsComing
<1>3. CASE clientInfo.count > 0
    <2> DEFINE count == clientInfo.count - IF CloseSucceeds(fd) THEN 1 ELSE 0
    <2>1. /\ clientInfo' = [count |-> count, FDs |-> clientInfo.FDs \ {fd}]
          /\ serial2tcp' = IF count = 0 THEN <<>> ELSE serial2tcp
          /\ owed' = [owed EXCEPT ![fd] = {}]
        BY <1>3 DEF RemoveClient, ClearsBuffer
    <2>2. clientInfo'.count = count /\ clientInfo'.FDs = clientInfo.FDs \ {fd}
        BY <2>1
    <2> HIDE DEF count
    <2>3. CASE count = 0
        <3>1. clientInfo'.FDs = {}
            BY <2>2, <2>3, FS_EmptySet DEF FDInv, CountIsRight
        <3>2. DOMAIN serial2tcp' = {} /\ ToSet(serial2tcp') = {}
            BY <2>1, <2>3 DEF ToSet
        <3> QED BY <1>1, <3>1, <3>2 DEF OwedInv, OwedIsComing
    <2>4. CASE count # 0
        <3>1. clientInfo.FDs \subseteq Descriptors
            BY DEF TypeInv, TypeOK
        <3>2. \A g \in clientInfo'.FDs : g \in clientInfo.FDs /\ owed'[g] = owed[g]
            BY <2>1, <2>2, <3>1 DEF TypeInv, TypeOK
        <3> QED BY <1>1, <2>1, <2>2, <2>4, <3>2, KeepsOwed
    <2> QED BY <2>3, <2>4
<1>4. clientInfo.count \in Nat
    BY ClientsAssumption, FS_CardinalityType DEF TypeInv, TypeOK
<1> QED BY <1>2, <1>3, <1>4 DEF RemoveClient

\* What leaves the buffer at its head is the smallest packet in it.
LEMMA HeadIsLeast ==
    ASSUME TypeInv, OwedInv, serial2tcp # <<>>, serial2tcp' = Tail(serial2tcp)
    PROVE  /\ Head(serial2tcp) \in ToSet(serial2tcp)
           /\ ToSet(serial2tcp)' = ToSet(serial2tcp) \ {Head(serial2tcp)}
           /\ \A p \in ToSet(serial2tcp)' : Head(serial2tcp) < p
           /\ \A i, j \in DOMAIN serial2tcp' : i < j => serial2tcp'[i] < serial2tcp'[j]
<1>1. PICK n \in Nat : n = Len(serial2tcp)
    BY NumberTypes
<1>2. DOMAIN serial2tcp = 1 .. n /\ n > 0
    BY <1>1, NumberTypes, EmptySeq
<1>3. /\ DOMAIN serial2tcp' = 1 .. n - 1
      /\ \A i \in 1 .. n - 1 : serial2tcp'[i] = serial2tcp[i + 1]
      /\ Head(serial2tcp) = serial2tcp[1]
    BY <1>1, <1>2, NumberTypes, HeadTailProperties, LenProperties
<1>4. \A i, j \in 1 .. n : i < j => serial2tcp[i] < serial2tcp[j]
    BY <1>2 DEF OwedInv, OwedIsComing
<1>5. \A i \in 1 .. n : serial2tcp[i] \in Int
    BY <1>2, NumberTypes
<1>6. ToSet(serial2tcp) = {serial2tcp[i] : i \in 1 .. n}
    BY <1>2 DEF ToSet
<1>7. ToSet(serial2tcp)' = {serial2tcp[i + 1] : i \in 1 .. n - 1}
    BY <1>3 DEF ToSet
<1>8. \A i \in 1 .. n - 1 : i + 1 \in 1 .. n /\ 1 < i + 1 /\ 1 \in 1 .. n
    BY <1>2
<1>9. \A i \in 1 .. n : i = 1 \/ (i - 1 \in 1 .. n - 1 /\ i = (i - 1) + 1)
    BY <1>2
<1>10. \A i \in 1 .. n - 1 : serial2tcp[1] < serial2tcp[i + 1]
    BY <1>4, <1>8
<1>11. \A p \in ToSet(serial2tcp)' : Head(serial2tcp) < p
    BY <1>3, <1>7, <1>10
<1>12. Head(serial2tcp) \in ToSet(serial2tcp)
    BY <1>2, <1>3, <1>6
<1>13. \A p \in ToSet(serial2tcp)' : p \in ToSet(serial2tcp) \ {Head(serial2tcp)}
    <2>1. TAKE p \in ToSet(serial2tcp)'
    <2>2. PICK i \in 1 .. n - 1 : p = serial2tcp[i + 1]
        BY <1>7
    <2>3. p \in ToSet(serial2tcp)
        BY <1>6, <1>8, <2>2
    <2>4. serial2tcp[1] < p /\ serial2tcp[1] \in Int /\ p \in Int
        BY <1>5, <1>8, <1>10, <2>2
    <2> QED BY <1>3, <2>3, <2>4
<1>14. \A p \in ToSet(serial2tcp) \ {Head(serial2tcp)} : p \in ToSet(serial2tcp)'
    <2>1. TAKE p \in ToSet(serial2tcp) \ {Head(serial2tcp)}
    <2>2. PICK i \in 1 .. n : p = serial2tcp[i]
        BY <1>6
    <2>3. i # 1
        BY <1>3, <2>2
    <2>4. i - 1 \in 1 .. n - 1 /\ p = serial2tcp[(i - 1) + 1]
        BY <1>9, <2>2, <2>3
    <2> QED BY <1>7, <2>4
<1>15. \A i, j \in DOMAIN serial2tcp' : i < j => serial2tcp'[i] < serial2tcp'[j]
    <2>1. TAKE i, j \in DOMAIN serial2tcp'
    <2>2. HAVE i < j
    <2>3. i + 1 \in 1 .. n /\ j + 1 \in 1 .. n /\ i + 1 < j + 1
        BY <1>3, <2>2
    <2>4. serial2tcp[i + 1] < serial2tcp[j + 1]
        BY <1>4, <2>3
    <2> QED BY <1>3, <2>4
<1> QED BY <1>11, <1>12, <1>13, <1>14, <1>15

\* The packet goes from the buffer into the writer's hands.
LEMMA DequeueKeepsOwed ==
    ASSUME TypeInv, OwedInv, Dequeue
    PROVE  OwedInv'
<1>1. PICK head : head = Head(serial2tcp)
    OBVIOUS
<1>2. /\ serial2tcp # <<>> /\ serial2tcp' = Tail(serial2tcp)
      /\ writer.pc = "dequeue" /\ writer'.pc = "copy" /\ writer'.packet = head
      /\ UNCHANGED <<clientInfo, owed, mote>>
    BY <1>1 DEF Dequeue, WriterUnchanged, TypeInv, TypeOK
<1>3. /\ head \in ToSet(serial2tcp)
      /\ ToSet(serial2tcp)' = ToSet(serial2tcp) \ {head}
      /\ \A p \in ToSet(serial2tcp)' : head < p
      /\ \A i, j \in DOMAIN serial2tcp' : i < j => serial2tcp'[i] < serial2tcp'[j]
    BY <1>1, <1>2, HeadIsLeast
<1>4. LastPut' = LastPut
    BY <1>2 DEF LastPut, mote
<1>5. \A fd : ~ Due(fd) /\ Due(fd)'
    BY <1>2 DEF Due
<1>6. \A fd : Coming(fd)' = Coming(fd)
    BY <1>2, <1>3, <1>5 DEF Coming
<1>7. \A fd \in clientInfo'.FDs : owed'[fd] = Coming(fd)'
    BY <1>2, <1>6 DEF OwedInv, OwedIsComing
<1> QED BY <1>2, <1>3, <1>4, <1>7 DEF OwedInv, OwedIsComing

\* What is dropped is owed to nobody any more; the packet in the writer's hands is
\* another one.
LEMMA DropKeepsOwed ==
    ASSUME TypeInv, OwedInv, DropOldest
    PROVE  OwedInv'
<1>1. PICK head : head = Head(serial2tcp)
    OBVIOUS
<1>2. /\ serial2tcp # <<>> /\ serial2tcp' = Tail(serial2tcp)
      /\ owed' = [fd \in Descriptors |-> owed[fd] \ {head}]
      /\ serial = "drop" /\ serial' = "check"
      /\ UNCHANGED <<clientInfo, writer, arrived>>
    BY <1>1 DEF DropOldest, MoteUnchanged
<1>3. /\ head \in ToSet(serial2tcp)
      /\ ToSet(serial2tcp)' = ToSet(serial2tcp) \ {head}
      /\ \A i, j \in DOMAIN serial2tcp' : i < j => serial2tcp'[i] < serial2tcp'[j]
    BY <1>1, <1>2, HeadIsLeast
<1>4. LastPut' = LastPut
    BY <1>2 DEF LastPut
<1>5. writer.packet # head
    BY <1>3, NumberTypes DEF OwedInv, OwedIsComing
<1>6. \A fd : Coming(fd)' = Coming(fd) \ {head}
    BY <1>2, <1>3, <1>5 DEF Coming, Due
<1>7. clientInfo.FDs \subseteq Descriptors
    BY DEF TypeInv, TypeOK
<1>8. \A fd \in clientInfo'.FDs : owed'[fd] = Coming(fd)'
    BY <1>2, <1>6, <1>7 DEF OwedInv, OwedIsComing
<1> QED BY <1>2, <1>3, <1>4, <1>8 DEF OwedInv, OwedIsComing

\* The packet that is put in is owed to all who are there.
LEMMA PutKeepsOwed ==
    ASSUME TypeInv, OwedInv, Put
    PROVE  OwedInv'
<1>1. PICK n \in Nat : n = Len(serial2tcp)
    BY NumberTypes
<1>2. /\ serial2tcp' = Append(serial2tcp, arrived)
      /\ owed' = [fd \in Descriptors |->
                     owed[fd] \cup (IF fd \in clientInfo.FDs THEN {arrived} ELSE {})]
      /\ serial = "put" /\ serial' = "read"
      /\ UNCHANGED <<clientInfo, writer, arrived>>
    BY DEF Put, MoteUnchanged
<1>3. arrived \in 1 .. Packets /\ arrived \in Nat
    BY <1>2, PacketsAssumption DEF TypeInv, TypeOK
<1>4. /\ DOMAIN serial2tcp = 1 .. n
      /\ DOMAIN serial2tcp' = 1 .. n + 1
      /\ \A i \in 1 .. n : serial2tcp'[i] = serial2tcp[i]
      /\ serial2tcp'[n + 1] = arrived
    BY <1>1, <1>2, <1>3, NumberTypes, AppendProperties, LenProperties
<1>5. LastPut = arrived - 1 /\ LastPut' = arrived
    BY <1>2 DEF LastPut
<1>6. ToSet(serial2tcp)' = ToSet(serial2tcp) \cup {arrived}
    <2>1. ToSet(serial2tcp) = {serial2tcp[i] : i \in 1 .. n}
        BY <1>4 DEF ToSet
    <2>2. ToSet(serial2tcp)' = {serial2tcp'[i] : i \in 1 .. n + 1}
        BY <1>4 DEF ToSet
    <2>3. 1 .. n + 1 = 1 .. n \cup {n + 1}
        OBVIOUS
    <2> QED BY <1>4, <2>1, <2>2, <2>3
<1>7. \A p \in ToSet(serial2tcp) : p <= arrived - 1 /\ p \in Int
    BY <1>5, NumberTypes DEF OwedInv, ToSet
<1>8. \A p \in ToSet(serial2tcp)' : p <= LastPut'
    BY <1>3, <1>5, <1>6, <1>7
<1>9. writer'.packet <= LastPut' /\ writer.packet < arrived
    BY <1>2, <1>3, <1>5, NumberTypes DEF OwedInv
<1>10. \A p \in ToSet(serial2tcp)' : writer'.packet < p
    BY <1>2, <1>6, <1>9 DEF OwedInv, OwedIsComing
<1>11. \A i, j \in DOMAIN serial2tcp' : i < j => serial2tcp'[i] < serial2tcp'[j]
    <2>1. TAKE i, j \in DOMAIN serial2tcp'
    <2>2. HAVE i < j
    <2>3. i \in 1 .. n /\ j \in 1 .. n + 1
        BY <1>4, <2>2
    <2>4. CASE j \in 1 .. n
        BY <1>4, <2>2, <2>3, <2>4 DEF OwedInv, OwedIsComing
    <2>5. CASE j = n + 1
        <3>1. serial2tcp[i] \in ToSet(serial2tcp)
            BY <1>4, <2>3 DEF ToSet
        <3> QED BY <1>3, <1>4, <1>7, <2>3, <2>5, <3>1
    <2> QED BY <2>3, <2>4, <2>5
<1>12. ASSUME NEW fd \in clientInfo'.FDs
       PROVE  owed'[fd] = Coming(fd)'
    <2>1. fd \in clientInfo.FDs /\ fd \in Descriptors
        BY <1>2 DEF TypeInv, TypeOK
    <2>2. owed'[fd] = Coming(fd) \cup {arrived}
        BY <1>2, <2>1 DEF OwedInv, OwedIsComing
    <2> QED BY <1>2, <1>6, <2>2 DEF Coming, Due
<1> QED BY <1>8, <1>9, <1>10, <1>11, <1>12 DEF OwedInv, OwedIsComing

LEMMA MoteKeepsOwed ==
    ASSUME TypeInv, OwedInv, PacketArrives \/ CheckFull \/ DropOldest \/ Put
    PROVE  OwedInv'
<1>1. CASE PacketArrives \/ CheckFull
    <2>1. UNCHANGED <<clientInfo, writer, serial2tcp, owed>>
        BY <1>1 DEF PacketArrives, CheckFull, MoteUnchanged
    <2>2. LastPut' = LastPut
        BY <1>1, NumberTypes DEF PacketArrives, CheckFull, LastPut
    <2> QED BY <2>1, <2>2, KeepsOwed DEF Due
<1> QED BY <1>1, DropKeepsOwed, PutKeepsOwed

LEMMA ServerKeepsOwed ==
    ASSUME TypeInv, OwedInv, Server
    PROVE  OwedInv'
<1>1. CASE (\E c \in Clients : Accept(c)) \/ VersionCheck
    <2>1. UNCHANGED <<clientInfo, writer, serial2tcp, mote, owed>>
        BY <1>1 DEF Accept, VersionCheck
    <2> QED BY <2>1, KeepsOwed DEF Due, LastPut, mote
<1>2. CASE AddClient
    <2>1. /\ clientInfo'.FDs = clientInfo.FDs \cup {server.fd}
          /\ owed' = [owed EXCEPT ![server.fd] = Coming(server.fd)]
          /\ server.fd \in Descriptors
          /\ UNCHANGED <<serial2tcp, mote>>
        BY <1>2 DEF AddClient, TypeInv
    <2>2. writer' = writer \/ (writer.pc = "asleep" /\ writer' = [writer EXCEPT !.pc = "top"])
        BY <1>2 DEF AddClient, Wake
    <2>3. writer'.packet = writer.packet /\ \A g : Due(g)' <=> Due(g)
        BY <2>2 DEF TypeInv, TypeOK, Due
    <2>4. Coming(server.fd) = (ToSet(serial2tcp) \cup
                 (IF Due(server.fd) THEN {writer.packet} ELSE {}))
        BY DEF Coming
    <2>5. \A fd \in clientInfo'.FDs :
              \/ fd \in clientInfo.FDs /\ owed'[fd] = owed[fd]
              \/ owed'[fd] = Coming(fd)'
        <3>1. TAKE fd \in clientInfo'.FDs
        <3>2. CASE fd = server.fd
            <4>1. owed'[fd] = Coming(fd)
                BY <2>1, <3>2 DEF TypeInv, TypeOK
            <4> QED BY <2>1, <2>3, <4>1 DEF Coming
        <3>3. CASE fd # server.fd
            BY <2>1, <3>3 DEF TypeInv, TypeOK
        <3> QED BY <3>2, <3>3
    <2> QED BY <2>1, <2>3, <2>5, KeepsOwed DEF LastPut, mote
<1> QED BY <1>1, <1>2 DEF Server

LEMMA CopyingKeepsOwed ==
    ASSUME TypeInv, OwedInv, Copying
    PROVE  OwedInv'
<1>1. CASE CopyForReading \/ Select \/ SelectReturns \/ ReadPacket
    <2>1. UNCHANGED <<clientInfo, writer, serial2tcp, mote, owed>>
        BY <1>1 DEF CopyForReading, Select, SelectReturns, ReadPacket, ReaderUnchanged
    <2> QED BY <2>1, KeepsOwed DEF Due, LastPut, mote
<1>2. CASE CountForWriting \/ CopyForWriting \/ WritePacket
    <2>1. UNCHANGED <<clientInfo, serial2tcp, mote, owed>>
        BY <1>2 DEF CountForWriting, CopyForWriting, WritePacket, WriterUnchanged
    <2>2. writer'.packet = writer.packet
        BY <1>2 DEF CountForWriting, CopyForWriting, WritePacket, TypeInv, TypeOK
    <2>3. \A fd \in clientInfo.FDs : Due(fd)' <=> Due(fd)
        <3>1. CASE CountForWriting
            <4>1. writer.pc = "top" /\ writer'.pc \in {"asleep", "dequeue"}
                BY <3>1 DEF CountForWriting, TypeInv, TypeOK
            <4> QED BY <4>1 DEF Due
        <3>2. CASE CopyForWriting
            <4>1. /\ writer.pc = "copy" /\ writer'.todo = clientInfo.FDs
                  /\ writer'.pc = IF clientInfo.FDs = {} THEN "top" ELSE "write"
                BY <3>2 DEF CopyForWriting, TypeInv, TypeOK
            <4> QED BY <4>1 DEF Due
        <3>3. CASE WritePacket
            <4>1. /\ writer.pc = "write" /\ writer'.pc = "writing"
                  /\ writer'.todo = writer.todo
                BY <3>3 DEF WritePacket, TypeInv, TypeOK
            <4> QED BY <4>1 DEF Due
        <3> QED BY <1>2, <3>1, <3>2, <3>3
    <2> QED BY <2>1, <2>2, <2>3, KeepsOwed DEF LastPut, mote
<1>3. CASE Dequeue
    BY <1>3, DequeueKeepsOwed
<1> QED BY <1>1, <1>2, <1>3 DEF Copying

\* A packet that has been written is owed no more, and the writer is done with the
\* descriptor.
LEMMA WriteReturnsKeepsOwed ==
    ASSUME TypeInv, OwedInv, FDInv', WriteReturns
    PROVE  OwedInv'
<1>1. PICK fd : fd = Min(writer.todo)
    OBVIOUS
<1>2. /\ UNCHANGED mote /\ writer'.packet = writer.packet
      /\ writer'.todo = writer.todo \ {fd}
      /\ writer'.pc = IF writer'.todo = {} THEN "top" ELSE "write"
      /\ fd \in writer.todo /\ fd \in Descriptors /\ writer.pc = "writing"
    BY <1>1, RoundOfWriter DEF WriteReturns
<1>3. \A g : Due(g)' <=> Due(g) /\ g # fd
    BY <1>2 DEF Due
<1>4. ASSUME owed' = [owed EXCEPT ![fd] = @ \ {writer.packet}],
             UNCHANGED <<clientInfo, serial2tcp>>
      PROVE  OwedInv'
    <2>1. clientInfo.FDs \subseteq Descriptors
        BY DEF TypeInv, TypeOK
    <2>2. CASE fd \in clientInfo.FDs
        <3>1. Due(fd) /\ ~ Due(fd)'
            BY <1>2, <1>3 DEF Due
        <3>2. writer.packet \notin ToSet(serial2tcp)
            BY NumberTypes DEF OwedInv, OwedIsComing
        <3>3. owed'[fd] = (ToSet(serial2tcp) \cup {writer.packet}) \ {writer.packet}
            BY <1>2, <1>4, <2>2, <3>1 DEF OwedInv, OwedIsComing, Coming, TypeInv, TypeOK
        <3>4. owed'[fd] = Coming(fd)'
            BY <1>4, <3>1, <3>2, <3>3 DEF Coming
        <3>5. \A g \in clientInfo'.FDs : g # fd =>
                  g \in clientInfo.FDs /\ owed'[g] = owed[g] /\ (Due(g)' <=> Due(g))
            BY <1>3, <1>4, <2>1 DEF TypeInv, TypeOK
        <3> QED BY <1>2, <1>4, <3>4, <3>5, KeepsOwed DEF LastPut, mote
    <2>3. CASE fd \notin clientInfo.FDs
        <3>1. \A g \in clientInfo'.FDs :
                  g \in clientInfo.FDs /\ owed'[g] = owed[g] /\ (Due(g)' <=> Due(g))
            BY <1>3, <1>4, <2>1, <2>3 DEF TypeInv, TypeOK
        <3> QED BY <1>2, <1>4, <3>1, KeepsOwed DEF LastPut, mote
    <2> QED BY <2>2, <2>3
<1>5. CASE RemoveClient(fd)
    BY <1>2, <1>3, <1>5, RemoveKeepsOwed
<1> QED BY <1>1, <1>4, <1>5 DEF WriteReturns

LEMMA StepOwed ==
    ASSUME TypeInv, OwedInv, FDInv', [Next]_vars
    PROVE  OwedInv'
<1>1. CASE Server
    BY <1>1, ServerKeepsOwed
<1>2. CASE Copying
    BY <1>2, CopyingKeepsOwed
<1>3. CASE ReadReturns
    <2>1. PICK fd : fd = Min(reader.todo)
        OBVIOUS
    <2>2. fd \in Descriptors /\ UNCHANGED <<writer, mote>>
        BY <1>3, <2>1, RoundOfReader
    <2>3. CASE UNCHANGED <<clientInfo, serial2tcp, owed>>
        BY <2>2, <2>3, KeepsOwed DEF Due, LastPut, mote
    <2>4. CASE RemoveClient(fd)
        BY <2>2, <2>4, RemoveKeepsOwed DEF Due
    <2> QED BY <1>3, <2>1, <2>3, <2>4 DEF ReadReturns
<1>4. CASE WriteReturns
    BY <1>4, WriteReturnsKeepsOwed
<1>5. CASE PacketArrives \/ CheckFull \/ DropOldest \/ Put
    BY <1>5, MoteKeepsOwed
<1>6. CASE \/ \E c \in Clients : ClientSends(c) \/ ClientReads(c) \/ ClientLeaves(c)
           \/ UNCHANGED vars
    <2>1. UNCHANGED <<clientInfo, writer, serial2tcp, mote, owed>>
        BY <1>6 DEF ClientSends, ClientReads, ClientLeaves, ClientUnchanged, vars
    <2> QED BY <2>1, KeepsOwed DEF Due, LastPut, mote
<1> QED BY <1>1, <1>2, <1>3, <1>4, <1>5, <1>6
        DEF Next, Reader, Writer, Copying

\* If the number of a closed descriptor is not given again, a client in FDs misses
\* no packet of those that come while it is there but the ones that readSerial drops
\* from a full serial2tcp, gets none twice and gets them in order: although the
\* writer works on a copy of FDs that is out of date, packets are dropped while a
\* call of writePacket is held up, and whichever thread removes the last client
\* clears the buffer.
THEOREM OwedIsComingCorrect ==
    ASSUME ~ Reuse
    PROVE  Spec => []OwedIsComing
<1>1. Init => OwedInv
    BY InitOwedInv
<1>2. TypeInv /\ OwedInv /\ FDInv' /\ [Next]_vars => OwedInv'
    BY StepOwed
<1>3. OwedInv => OwedIsComing
    BY DEF OwedInv
<1> QED BY <1>1, <1>2, <1>3, TypeInvariant, FDInvariant, PTL DEF Spec
=============================================================================
