-------------------------- MODULE SerialCommProofs --------------------------
(***************************************************************************)
(* The serial side of the forwarder, whatever the size of the buffers, the *)
(* retries, the packets that want an acknowledgement and the faults.       *)
(***************************************************************************)
EXTENDS SerialComm, SequenceTheorems, TLAPS

(***************************************************************************)
(* Types.  The reader holds a packet of the mote from readPacket until it  *)
(* has put it; the writer holds what it has dequeued until it has written  *)
(* it and, for a packet, until its wait has ended.                         *)
(***************************************************************************)
ReaderShape ==
    /\ reader.pc = "read" <=> reader.packet = None
    /\ reader.packet # Ack

WriterShape ==
    /\ writer.pc = "dequeue" <=> writer.packet = None
    /\ writer.pc \in {"lock", "waiting", "woken"} => writer.packet # Ack

TypeInv == TypeOK /\ ReaderShape /\ WriterShape

LEMMA Appended ==
    ASSUME NEW S, NEW s \in Seq(S), NEW e \in S
    PROVE  /\ Append(s, e) \in Seq(S) /\ Len(Append(s, e)) = Len(s) + 1
           /\ Append(s, e) # <<>>
BY AppendProperties

LEMMA Prepended ==
    ASSUME NEW S, NEW s \in Seq(S), NEW e \in S
    PROVE  <<e>> \o s \in Seq(S) /\ Len(<<e>> \o s) = Len(s) + 1
<1>1. <<e>> \in Seq(S) /\ Len(<<e>>) = 1
  OBVIOUS
<1> QED
  BY <1>1, ConcatProperties, LenProperties

LEMMA Taken ==
    ASSUME NEW S, NEW s \in Seq(S), s # <<>>
    PROVE  /\ Head(s) \in S /\ Tail(s) \in Seq(S)
           /\ Len(Tail(s)) = Len(s) - 1 /\ Len(s) \in Nat /\ Len(s) > 0
BY HeadTailProperties, LenProperties, EmptySeq

LEMMA TypeInit == Init => TypeInv
BY PacketsAssumption, BoundsAssumption, EmptySeq
DEF Init, TypeInv, TypeOK, ReaderShape, WriterShape, FromMote, ToMote, Outcomes,
    None, Ack

(***************************************************************************)
(* Order.  Data(s) are the packets in s, which may be among                *)
(* acknowledgements; Spaced says that they come in their order, each at    *)
(* least k after the one before it.                                        *)
(***************************************************************************)
Data(s) == {s[i] : i \in 1 .. Len(s)} \ {Ack}

Spaced(s, k) ==
    \A i, j \in 1 .. Len(s) :
        i < j /\ s[i] # Ack /\ s[j] # Ack => s[i] + k <= s[j]

LEMMA DataType ==
    ASSUME NEW s \in Seq(Nat) PROVE Data(s) \subseteq Nat \ {Ack}
BY LenProperties DEF Data

LEMMA EmptyOrder == Data(<<>>) = {} /\ \A k \in {0, 1} : Spaced(<<>>, k)
BY DEF Data, Spaced

LEMMA AppendOrder ==
    ASSUME NEW s \in Seq(Nat), NEW e \in Nat, NEW k \in {0, 1}
    PROVE  /\ Data(Append(s, e)) = Data(s) \cup ({e} \ {Ack})
           /\ Spaced(s, k) /\ (e # Ack => \A d \in Data(s) : d + k <= e)
                 => Spaced(Append(s, e), k)
<1> DEFINE t == Append(s, e)
<1>1. /\ t \in Seq(Nat) /\ Len(s) \in Nat /\ Len(t) = Len(s) + 1
      /\ t[Len(s) + 1] = e /\ \A i \in 1 .. Len(s) : t[i] = s[i]
  BY AppendProperties, LenProperties
<1>2. 1 .. Len(t) = (1 .. Len(s)) \cup {Len(s) + 1}
  BY <1>1
<1> HIDE DEF t
<1>3. {t[i] : i \in 1 .. Len(t)} = {s[i] : i \in 1 .. Len(s)} \cup {e}
  <2>1. ASSUME NEW i \in 1 .. Len(s) PROVE s[i] \in {t[j] : j \in 1 .. Len(t)}
    BY <1>1, <1>2
  <2>2. e \in {t[j] : j \in 1 .. Len(t)}
    BY <1>1, <1>2
  <2>3. ASSUME NEW i \in 1 .. Len(t)
        PROVE  t[i] \in {s[j] : j \in 1 .. Len(s)} \cup {e}
    BY <1>1, <1>2
  <2> QED
    BY <2>1, <2>2, <2>3
<1>4. Data(t) = Data(s) \cup ({e} \ {Ack})
  BY <1>3 DEF Data
<1>5. ASSUME Spaced(s, k), e # Ack => \A d \in Data(s) : d + k <= e
      PROVE  Spaced(t, k)
  <2>1. ASSUME NEW i \in 1 .. Len(t), NEW j \in 1 .. Len(t), i < j,
               t[i] # Ack, t[j] # Ack
        PROVE  t[i] + k <= t[j]
    <3>1. i \in 1 .. Len(s) /\ t[i] = s[i] /\ s[i] \in Data(s)
      <4>1. i \in 1 .. Len(s)
        BY <1>1, <2>1
      <4>2. t[i] = s[i]
        BY <1>1, <4>1
      <4> QED
        BY <2>1, <4>1, <4>2 DEF Data
    <3>2. CASE j \in 1 .. Len(s)
      BY <1>1, <1>5, <2>1, <3>1, <3>2 DEF Spaced
    <3>3. CASE j = Len(s) + 1
      BY <1>1, <1>5, <2>1, <3>1, <3>3
    <3> QED
      BY <1>2, <3>2, <3>3
  <2> QED
    BY <2>1 DEF Spaced
<1> QED
  BY <1>4, <1>5 DEF t

LEMMA TailOrder ==
    ASSUME NEW s \in Seq(Nat), s # <<>>, NEW k \in {0, 1}, Spaced(s, k)
    PROVE  /\ Data(Tail(s)) \subseteq Data(s) /\ Spaced(Tail(s), k)
           /\ Data(s) = Data(Tail(s)) \cup ({Head(s)} \ {Ack})
           /\ Head(s) # Ack => \A d \in Data(Tail(s)) : Head(s) + k <= d
<1> DEFINE t == Tail(s)
<1>1. /\ t \in Seq(Nat) /\ Len(s) \in Nat \ {0} /\ Len(t) = Len(s) - 1
      /\ Head(s) = s[1] /\ \A i \in 1 .. Len(t) : t[i] = s[i + 1]
  BY HeadTailProperties, LenProperties, EmptySeq
<1>2. \A i \in 1 .. Len(t) : i + 1 \in 1 .. Len(s)
  BY <1>1
<1>3. \A i \in 1 .. Len(s) : i = 1 \/ (i - 1 \in 1 .. Len(t) /\ s[i] = t[i - 1])
  BY <1>1
<1> HIDE DEF t
<1>4. Data(s) = Data(t) \cup ({Head(s)} \ {Ack})
  <2>1. ASSUME NEW d \in Data(s) PROVE d \in Data(t) \cup ({Head(s)} \ {Ack})
    <3>1. PICK i \in 1 .. Len(s) : d = s[i] /\ d # Ack
      BY DEF Data
    <3>2. CASE i = 1
      BY <1>1, <3>1, <3>2
    <3>3. CASE i # 1
      BY <1>3, <3>1, <3>3 DEF Data
    <3> QED
      BY <3>2, <3>3
  <2>2. ASSUME NEW d \in Data(t) PROVE d \in Data(s)
    BY <1>1, <1>2, <2>2 DEF Data
  <2>3. Head(s) # Ack => Head(s) \in Data(s)
    BY <1>1 DEF Data
  <2> QED
    BY <2>1, <2>2, <2>3
<1>5. Spaced(t, k)
  <2>1. ASSUME NEW i \in 1 .. Len(t), NEW j \in 1 .. Len(t), i < j,
               t[i] # Ack, t[j] # Ack
        PROVE  t[i] + k <= t[j]
    <3>1. t[i] = s[i + 1] /\ t[j] = s[j + 1]
      BY <1>1
    <3>2. i + 1 \in 1 .. Len(s) /\ j + 1 \in 1 .. Len(s)
      BY <1>2
    <3>3. i + 1 < j + 1
      BY <1>1, <2>1
    <3> QED
      BY <2>1, <3>1, <3>2, <3>3 DEF Spaced
  <2> QED
    BY <2>1 DEF Spaced
<1>6. ASSUME Head(s) # Ack, NEW d \in Data(t) PROVE Head(s) + k <= d
  <2>1. PICK i \in 1 .. Len(t) : d = t[i] /\ d # Ack
    BY DEF Data
  <2>2. /\ 1 \in 1 .. Len(s) /\ i + 1 \in 1 .. Len(s) /\ 1 < i + 1
        /\ d = s[i + 1] /\ Head(s) = s[1]
    BY <1>1, <1>2, <2>1
  <2> QED
    BY <1>6, <2>1, <2>2 DEF Spaced
<1> QED
  BY <1>4, <1>5, <1>6 DEF t

LEMMA FrontAckOrder ==
    ASSUME NEW s \in Seq(Nat), NEW k \in {0, 1}, Spaced(s, k)
    PROVE  Data(<<Ack>> \o s) = Data(s) /\ Spaced(<<Ack>> \o s, k)
<1> DEFINE t == <<Ack>> \o s
<1>1. /\ Len(s) \in Nat /\ Len(t) = Len(s) + 1 /\ t[1] = Ack
      /\ \A i \in 2 .. Len(t) : t[i] = s[i - 1]
  BY ConcatProperties, LenProperties DEF Ack
<1>2. \A i \in 1 .. Len(s) : t[i + 1] = s[i] /\ i + 1 \in 1 .. Len(t)
  BY <1>1
<1>3. \A i \in 1 .. Len(t) :
         t[i] # Ack => i - 1 \in 1 .. Len(s) /\ t[i] = s[i - 1]
  BY <1>1
<1> HIDE DEF t
<1>4. Data(t) = Data(s)
  <2>1. ASSUME NEW d \in Data(t) PROVE d \in Data(s)
    BY <1>3, <2>1 DEF Data
  <2>2. ASSUME NEW d \in Data(s) PROVE d \in Data(t)
    BY <1>2, <2>2 DEF Data
  <2> QED
    BY <2>1, <2>2
<1>5. Spaced(t, k)
  <2>1. ASSUME NEW i \in 1 .. Len(t), NEW j \in 1 .. Len(t), i < j,
               t[i] # Ack, t[j] # Ack
        PROVE  t[i] + k <= t[j]
    <3>1. i - 1 < j - 1
      BY <1>1, <2>1
    <3> QED
      BY <1>3, <2>1, <3>1 DEF Spaced
  <2> QED
    BY <2>1 DEF Spaced
<1> QED
  BY <1>4, <1>5 DEF t

LEMMA Sequences ==
    ASSUME TypeInv
    PROVE  /\ tcp2serial \in Seq(Nat) /\ serial2tcp \in Seq(Nat)
           /\ toMote \in Seq(Nat) /\ fromMote \in Seq(Nat)
           /\ delivered \in Seq(Nat) /\ forwarded \in Seq(Nat)
<1>1. /\ ToMote \subseteq Nat /\ FromMote \subseteq Nat
      /\ 1 .. Packets \subseteq Nat /\ 1 .. MotePackets \subseteq Nat
  BY PacketsAssumption DEF ToMote, FromMote
<1>2. \A S : S \subseteq Nat => Seq(S) \subseteq Seq(Nat)
  BY SeqMonotonic
<1> QED
  BY <1>1, <1>2 DEF TypeInv, TypeOK

(***************************************************************************)
(* From the mote to the clients: m is the last packet the reader received. *)
(* What is on the line comes after it, what the clients have or will have  *)
(* came before, or is it.                                                  *)
(***************************************************************************)
ReadCut(m) ==
    /\ accepted <= m
    /\ Data(fromMote) \subseteq m + 1 .. moteSent /\ Spaced(fromMote, 1)
    /\ reader.packet \in {None, m}
    /\ Spaced(forwarded, 1) /\ Spaced(serial2tcp, 1)
    /\ \A f \in Data(forwarded), s \in Data(serial2tcp) : f < s
    /\ \A d \in Data(forwarded) \cup Data(serial2tcp) :
          d <= m /\ (reader.packet # None => d < m)

ReadOrder == \E m \in 0 .. moteSent : ReadCut(m)

LEMMA ReadOrderInit == TypeInv /\ Init => ReadOrder
BY EmptyOrder DEF Init, ReadOrder, ReadCut, TypeInv, TypeOK, None

LEMMA ReadPacketOrder == TypeInv /\ ReadOrder /\ ReadPacket => ReadOrder'
<1> SUFFICES ASSUME TypeInv, ReadOrder, ReadPacket PROVE ReadOrder'
  OBVIOUS
<1>1. PICK m \in 0 .. moteSent : ReadCut(m)
  BY DEF ReadOrder
<1>0. PICK p : p = Head(fromMote)
  OBVIOUS
<1>2. /\ UNCHANGED <<serial2tcp, forwarded, moteSent>>
      /\ fromMote # <<>> /\ fromMote' = Tail(fromMote) /\ reader.packet = None
  BY DEF ReadPacket, sources, TypeInv, ReaderShape
<1>3. /\ p \in FromMote /\ moteSent \in Nat /\ accepted \in Nat
      /\ fromMote \in Seq(Nat)
  BY <1>0, <1>2, Sequences, Taken DEF TypeInv, TypeOK
<1>4. /\ Data(fromMote') \subseteq Data(fromMote) /\ Spaced(fromMote', 1)
      /\ p # Ack => /\ p \in Data(fromMote)
                    /\ \A d \in Data(fromMote') : p + 1 <= d
  BY <1>0, <1>1, <1>2, <1>3, TailOrder DEF ReadCut
<1>5. CASE UNCHANGED <<reader, accepted>>
  <2>1. ReadCut(m)'
    BY <1>1, <1>2, <1>4, <1>5 DEF ReadCut
  <2> QED
    BY <1>2, <2>1 DEF ReadOrder
<1>6. CASE /\ p # Ack /\ accepted' = accepted + 1 /\ reader'.packet = p
  <2>1. p \in m + 1 .. moteSent /\ p # None
    BY <1>1, <1>3, <1>4, <1>6 DEF ReadCut, None
  <2>2. \A d \in Data(fromMote') : d \in p + 1 .. moteSent
    BY <1>1, <1>3, <1>4, <1>6, <2>1 DEF ReadCut
  <2>3. \A d \in Data(forwarded) \cup Data(serial2tcp) : d <= m /\ d \in Nat
    BY <1>1, Sequences, DataType DEF ReadCut
  <2>4. p \in Nat /\ p \in 0 .. moteSent /\ m < p /\ accepted + 1 <= p
    BY <1>1, <1>3, <2>1 DEF ReadCut
  <2>5. \A d \in Data(forwarded) \cup Data(serial2tcp) : d < p /\ d <= p
    BY <2>3, <2>4
  <2>6. Data(fromMote') \subseteq p + 1 .. moteSent
    BY <2>2
  <2>7. /\ Spaced(forwarded, 1) /\ Spaced(serial2tcp, 1)
        /\ \A f \in Data(forwarded), s \in Data(serial2tcp) : f < s
    BY <1>1 DEF ReadCut
  <2>8. ReadCut(p)'
    BY <1>2, <1>4, <1>6, <2>4, <2>5, <2>6, <2>7 DEF ReadCut
  <2> QED
    BY <1>2, <2>4, <2>8 DEF ReadOrder
<1> QED
  BY <1>0, <1>5, <1>6 DEF ReadPacket

LEMMA PutOrder == TypeInv /\ ReadOrder /\ Put => ReadOrder'
<1> SUFFICES ASSUME TypeInv, ReadOrder, Put PROVE ReadOrder'
  OBVIOUS
<1>1. PICK m \in 0 .. moteSent : ReadCut(m)
  BY DEF ReadOrder
<1>2. /\ UNCHANGED <<fromMote, moteSent, accepted, forwarded>>
      /\ serial2tcp' = Append(serial2tcp, m)
      /\ reader.packet = m /\ reader.packet # None /\ m # Ack
      /\ reader'.packet = None
  BY <1>1 DEF Put, enqueueBack, lines, sources, readHist, TypeInv, ReaderShape, ReadCut
<1>3. \A d \in Data(forwarded) \cup Data(serial2tcp) : d + 1 <= m /\ d \in Nat
  BY <1>1, <1>2, Sequences, DataType DEF ReadCut
<1>4. Data(serial2tcp') = Data(serial2tcp) \cup {m} /\ Spaced(serial2tcp', 1)
  BY <1>1, <1>2, <1>3, Sequences, AppendOrder DEF ReadCut, TypeInv, TypeOK
<1>5. ReadCut(m)'
  BY <1>1, <1>2, <1>3, <1>4 DEF ReadCut
<1> QED
  BY <1>2, <1>5 DEF ReadOrder

\* A packet leaves the buffer, for the clients or dropped, or all are cleared.
LEMMA TakenOrder ==
    TypeInv /\ ReadOrder /\ (DropOldest \/ TcpTakes \/ Clear) => ReadOrder'
<1> SUFFICES ASSUME TypeInv, ReadOrder, DropOldest \/ TcpTakes \/ Clear
             PROVE  ReadOrder'
  OBVIOUS
<1>1. PICK m \in 0 .. moteSent : ReadCut(m)
  BY DEF ReadOrder
<1>2. /\ UNCHANGED <<fromMote, moteSent, accepted>>
      /\ reader'.packet = reader.packet
  <2>1. UNCHANGED <<fromMote, moteSent, accepted>>
    BY DEF DropOldest, TcpTakes, Clear, lines, sources, readHist
  <2>2. At("full").packet = reader.packet
    BY DEF At, TypeInv, TypeOK
  <2> QED
    BY <2>1, <2>2 DEF DropOldest, TcpTakes, Clear
<1> DEFINE h == Head(serial2tcp)
<1>3. ASSUME serial2tcp # <<>>, serial2tcp' = Tail(serial2tcp)
      PROVE  /\ Data(serial2tcp') \subseteq Data(serial2tcp)
             /\ Spaced(serial2tcp', 1)
             /\ h \in Data(serial2tcp) /\ h # Ack /\ h \in Nat
             /\ \A d \in Data(serial2tcp') : h + 1 <= d /\ d \in Nat
  <2>1. serial2tcp \in Seq(FromMote \ {Ack}) /\ serial2tcp \in Seq(Nat)
    BY Sequences DEF TypeInv, TypeOK
  <2>2. h \in FromMote \ {Ack}
    BY <1>3, <2>1, Taken
  <2>3. serial2tcp' \in Seq(Nat) /\ h \in Nat
    BY <1>3, <2>1, Taken
  <2> QED
    BY <1>1, <1>3, <2>1, <2>2, <2>3, TailOrder, DataType DEF ReadCut
<1>4. CASE DropOldest
  <2>1. /\ serial2tcp # <<>> /\ serial2tcp' = Tail(serial2tcp)
        /\ forwarded' = forwarded
    BY <1>4 DEF DropOldest, dequeue, readHist
  <2>2. ReadCut(m)'
    BY <1>1, <1>2, <1>3, <2>1 DEF ReadCut
  <2> QED
    BY <1>2, <2>2 DEF ReadOrder
<1>5. CASE TcpTakes
  <2>1. /\ serial2tcp # <<>> /\ serial2tcp' = Tail(serial2tcp)
        /\ forwarded' = Append(forwarded, h)
    BY <1>5 DEF TcpTakes, dequeue
  <2>2. ASSUME NEW f \in Data(forwarded) PROVE f + 1 <= h /\ f \in Nat
    <3>1. h \in Nat /\ h \in Data(serial2tcp)
      BY <1>3, <2>1
    <3>2. f \in Nat
      BY Sequences, DataType
    <3>3. f < h
      BY <1>1, <3>1 DEF ReadCut
    <3> QED
      BY <3>1, <3>2, <3>3
  <2>3. Data(forwarded') = Data(forwarded) \cup {h} /\ Spaced(forwarded', 1)
    <3>1. h \in Nat /\ h # Ack
      BY <1>3, <2>1
    <3>2. forwarded \in Seq(Nat) /\ Spaced(forwarded, 1)
      BY <1>1, Sequences DEF ReadCut
    <3> HIDE DEF h
    <3> QED
      BY <2>1, <2>2, <3>1, <3>2, AppendOrder
  <2>4. ReadCut(m)'
    BY <1>1, <1>2, <1>3, <2>1, <2>2, <2>3 DEF ReadCut
  <2> QED
    BY <1>2, <2>4 DEF ReadOrder
<1>6. CASE Clear
  <2>1. serial2tcp' = <<>> /\ forwarded' = forwarded
    BY <1>6 DEF Clear
  <2>2. ReadCut(m)'
    BY <1>1, <1>2, <2>1, EmptyOrder DEF ReadCut
  <2> QED
    BY <1>2, <2>2 DEF ReadOrder
<1> QED
  BY <1>4, <1>5, <1>6

\* The mote sends a packet, its next one, or an acknowledgement, if there is
\* room on the line.
LEMMA MoteOrder == TypeInv /\ ReadOrder /\ (MoteReceives \/ MoteSends) => ReadOrder'
<1> SUFFICES ASSUME TypeInv, ReadOrder, MoteReceives \/ MoteSends
             PROVE  ReadOrder'
  OBVIOUS
<1>1. PICK m \in 0 .. moteSent : ReadCut(m)
  BY DEF ReadOrder
<1>2. UNCHANGED <<serial2tcp, forwarded, accepted, reader>> /\ moteSent \in Nat
  BY DEF MoteReceives, MoteSends, readHist, TypeInv, TypeOK
<1>3. CASE fromMote' = fromMote /\ moteSent' \in {moteSent, moteSent + 1}
  <2>1. ReadCut(m)'
    BY <1>1, <1>2, <1>3 DEF ReadCut
  <2> QED
    BY <1>2, <1>3, <2>1 DEF ReadOrder
<1>4. CASE fromMote' = Append(fromMote, Ack) /\ moteSent' = moteSent
  <2>1. Data(fromMote') = Data(fromMote) /\ Spaced(fromMote', 1)
    <3>1. Ack \in Nat /\ fromMote \in Seq(Nat) /\ Spaced(fromMote, 1)
      BY <1>1, Sequences DEF Ack, ReadCut
    <3>2. /\ Data(Append(fromMote, Ack)) = Data(fromMote) \cup ({Ack} \ {Ack})
          /\ Spaced(Append(fromMote, Ack), 1)
      BY <3>1, AppendOrder
    <3> QED
      BY <1>4, <3>2
  <2>2. ReadCut(m)'
    BY <1>1, <1>2, <1>4, <2>1 DEF ReadCut
  <2> QED
    BY <1>4, <2>2 DEF ReadOrder
<1>5. CASE /\ fromMote' = Append(fromMote, moteSent + 1)
           /\ moteSent' = moteSent + 1
  <2>1. \A d \in Data(fromMote) : d + 1 <= moteSent + 1
    BY <1>1, <1>2 DEF ReadCut
  <2>2. /\ Data(fromMote') = Data(fromMote) \cup {moteSent + 1}
        /\ Spaced(fromMote', 1)
    BY <1>1, <1>2, <1>5, <2>1, Sequences, AppendOrder DEF ReadCut, Ack
  <2>3. Data(fromMote') \subseteq m + 1 .. moteSent'
    BY <1>1, <1>2, <1>5, <2>2 DEF ReadCut
  <2>4. ReadCut(m)'
    BY <1>1, <1>2, <2>2, <2>3 DEF ReadCut
  <2> QED
    BY <1>2, <1>5, <2>4 DEF ReadOrder
<1> QED
  BY <1>3, <1>4, <1>5 DEF MoteReceives, MoteSends, MoteWrites, sources

\* The reader moves on with its packet in its hands; other steps are aside.
LEMMA OtherOrder ==
    ASSUME TypeInv, ReadOrder,
           \/ EnqueueAck \/ CheckFull \/ WhileFull
           \/ Writer \/ ClientSends \/ UNCHANGED vars
    PROVE  ReadOrder'
<1>1. UNCHANGED <<serial2tcp, forwarded, accepted, fromMote, moteSent>>
  <2>1. CASE EnqueueAck \/ CheckFull \/ WhileFull
    BY <2>1 DEF EnqueueAck, CheckFull, WhileFull, lines, sources, readHist
  <2>2. CASE Writer
    BY <2>2 DEF Writer, Dequeue, WritePacket, Woken, TimedOut, Wait,
       WriterWaits, lines, sources, readHist
  <2>3. CASE ClientSends \/ UNCHANGED vars
    BY <2>3 DEF ClientSends, vars, lines, sources, readHist
  <2> QED
    BY <2>1, <2>2, <2>3
<1>2. reader'.packet \in {reader.packet, None}
  <2>1. \A pc : At(pc).packet = reader.packet
    BY DEF At, TypeInv, TypeOK
  <2>2. CASE EnqueueAck \/ CheckFull \/ WhileFull
    BY <2>1, <2>2 DEF EnqueueAck, CheckFull, WhileFull
  <2>3. CASE Writer
    BY <2>3 DEF Writer, Dequeue, WritePacket, Woken, TimedOut, Wait, WriterWaits
  <2>4. CASE ClientSends \/ UNCHANGED vars
    BY <2>4 DEF ClientSends, vars
  <2> QED
    BY <2>2, <2>3, <2>4
<1>3. PICK m \in 0 .. moteSent : ReadCut(m)
  BY DEF ReadOrder
<1>4. ReadCut(m)'
  BY <1>1, <1>2, <1>3 DEF ReadCut
<1> QED
  BY <1>1, <1>4 DEF ReadOrder

LEMMA ReadOrderStep == TypeInv /\ ReadOrder /\ [Next]_vars => ReadOrder'
BY ReadPacketOrder, PutOrder, TakenOrder, MoteOrder, OtherOrder DEF Next, Reader

-----------------------------------------------------------------------------
(* Types, with the count of what the reader accepted from ReadOrder *)

LEMMA ReadPacketType == TypeInv /\ ReadOrder' /\ ReadPacket => TypeInv'
<1> SUFFICES ASSUME TypeInv, ReadOrder', ReadPacket PROVE TypeInv'
  OBVIOUS
<1> DEFINE p == Head(fromMote)
<1>1. p \in FromMote /\ fromMote' \in Seq(FromMote)
  BY Taken DEF ReadPacket, TypeInv, TypeOK
<1>2. UNCHANGED <<tcp2serial, serial2tcp, toMote, counts, sources, writeHist,
                  delivered, forwarded, cleared>>
  BY DEF ReadPacket
<1>3. accepted' \in 0 .. MotePackets
  <2>1. PICK m \in 0 .. moteSent : accepted' <= m
    BY <1>2 DEF ReadOrder, ReadCut, sources
  <2> QED
    BY <2>1, PacketsAssumption DEF ReadPacket, TypeInv, TypeOK
<1>4. /\ reader' \in [pc : {"read", "ack", "check", "full", "drop", "put"},
                      packet : FromMote \cup {None}]
      /\ ReaderShape'
  <2>1. CASE UNCHANGED reader
    BY <2>1 DEF TypeInv, TypeOK, ReaderShape
  <2>2. CASE p # Ack /\ reader' = [pc |-> IF p \in AckWanted THEN "ack" ELSE "check",
                                   packet |-> p]
    <3>1. p # None
      BY <1>1, PacketsAssumption DEF FromMote, None
    <3> HIDE DEF p
    <3> QED
      BY <1>1, <2>2, <3>1 DEF ReaderShape
  <2> QED
    BY <2>1, <2>2 DEF ReadPacket
<1>5. /\ writer' \in [pc : {"dequeue", "write", "lock", "waiting", "woken"},
                      packet : ToMote \cup {None}, retryCount : 0 .. maxRetries]
      /\ WriterShape'
  BY DEF ReadPacket, SignalAck, TypeInv, TypeOK, WriterShape
<1> QED
  BY <1>1, <1>2, <1>3, <1>4, <1>5
  DEF TypeInv, TypeOK, counts, sources, writeHist

LEMMA ReaderType ==
    ASSUME TypeInv, EnqueueAck \/ CheckFull \/ WhileFull \/ DropOldest \/ Put
    PROVE  TypeInv'
<1> USE DEF TypeInv, TypeOK, lines, counts, sources, writeHist, readHist
<1>1. ASSUME NEW pc \in {"ack", "check", "full", "drop", "put"}, reader' = At(pc),
             reader.pc # "read"
      PROVE  /\ reader' \in [pc : {"read", "ack", "check", "full", "drop", "put"},
                             packet : FromMote \cup {None}]
             /\ ReaderShape'
  BY <1>1 DEF At, ReaderShape
<1>2. CASE EnqueueAck
  <2>1. tcp2serial' \in Seq(ToMote) /\ Len(tcp2serial') <= cMaxBufferSize
    <3>1. Ack \in ToMote /\ Len(tcp2serial) \in Nat
      BY PacketsAssumption, LenProperties DEF Ack, ToMote
    <3> QED
      BY <1>2, <3>1, Prepended, BoundsAssumption
      DEF EnqueueAck, enqueueFront, isFull
  <2> QED
    BY <1>1, <1>2, <2>1 DEF EnqueueAck, WriterShape
<1>3. CASE CheckFull
  BY <1>1, <1>3 DEF CheckFull, WriterShape
<1>4. CASE WhileFull
  BY <1>1, <1>4 DEF WhileFull, WriterShape
<1>5. CASE DropOldest
  <2>1. /\ serial2tcp' \in Seq(FromMote \ {Ack})
        /\ Len(serial2tcp') <= cMaxBufferSize
    BY <1>5, Taken, BoundsAssumption DEF DropOldest, dequeue
  <2> QED
    BY <1>1, <1>5, <2>1 DEF DropOldest, WriterShape
<1>6. CASE Put
  <2>1. /\ serial2tcp' \in Seq(FromMote \ {Ack})
        /\ Len(serial2tcp') <= cMaxBufferSize
    <3>1. reader.packet \in FromMote \ {Ack} /\ Len(serial2tcp) \in Nat
      BY <1>6, LenProperties DEF Put, ReaderShape
    <3> QED
      BY <1>6, <3>1, Appended, BoundsAssumption DEF Put, enqueueBack, isFull
  <2> QED
    BY <1>6, <2>1 DEF Put, ReaderShape, WriterShape, None, Ack
<1> QED
  BY <1>2, <1>3, <1>4, <1>5, <1>6

LEMMA WriterType ==
    ASSUME TypeInv, Writer
    PROVE  TypeInv'
<1> USE DEF TypeInv, TypeOK, lines, counts, sources, writeHist, readHist
<1>1. ASSUME WriterWaits, NEW how \in {"acked", "timedOut", "notWaited"},
             Finish(how), writer.packet \in 1 .. Packets
      PROVE  TypeInv'
  BY <1>1, BoundsAssumption DEF WriterWaits, Finish, LeaveAs, ReaderShape,
     WriterShape, Outcomes, None
<1>2. writer.pc \in {"lock", "waiting", "woken"} => writer.packet \in 1 .. Packets
  BY PacketsAssumption DEF WriterShape, ToMote, Ack, None
<1>3. CASE Dequeue
  <2>1. /\ Head(tcp2serial) \in ToMote /\ tcp2serial' \in Seq(ToMote)
        /\ Len(tcp2serial') <= cMaxBufferSize
    BY <1>3, Taken, BoundsAssumption DEF Dequeue, dequeue
  <2>2. writer' \in [pc : {"dequeue", "write", "lock", "waiting", "woken"},
                      packet : ToMote \cup {None}, retryCount : 0 .. maxRetries]
        /\ WriterShape'
    <3>1. Head(tcp2serial) # None
      BY <2>1 DEF ToMote, None
    <3> QED
      BY <1>3, <2>1, <3>1 DEF Dequeue, WriterShape
  <2> QED
    BY <1>3, <2>1, <2>2 DEF Dequeue, ReaderShape
<1>4. CASE WritePacket
  <2>1. writer.packet \in ToMote /\ toMote' \in Seq(ToMote)
    BY <1>4, Appended DEF WritePacket, WriterShape
  <2>2. CASE writer.packet = Ack
    BY <1>4, <2>1, <2>2 DEF WritePacket, ReaderShape, WriterShape
  <2>3. CASE writer.packet # Ack
    <3>1. writer.packet \in 1 .. Packets
      BY <2>1, <2>3, PacketsAssumption DEF ToMote, Ack
    <3>2. writes' = [writes EXCEPT ![writer.packet] = @ + 1]
          /\ writer' = [writer EXCEPT !.pc = "lock"]
      BY <1>4, <2>3 DEF WritePacket
    <3>3. writer' \in [pc : {"dequeue", "write", "lock", "waiting", "woken"},
                        packet : ToMote \cup {None}, retryCount : 0 .. maxRetries]
          /\ WriterShape'
      <4>1. writer \in [pc : {"dequeue", "write", "lock", "waiting", "woken"},
                           packet : ToMote \cup {None}, retryCount : 0 .. maxRetries]
        OBVIOUS
      <4>2. writer'.pc = "lock" /\ writer'.packet = writer.packet
        BY <3>2, <4>1
      <4> HIDE DEF TypeInv, TypeOK
      <4>3. WriterShape'
        BY <2>3, <3>1, <4>2 DEF WriterShape, None
      <4> QED
        BY <3>2, <4>1, <4>3
    <3>4. writes' \in [1 .. Packets -> Nat]
      <4>1. writes \in [1 .. Packets -> Nat]
        OBVIOUS
      <4> HIDE DEF TypeInv, TypeOK
      <4>2. writes[writer.packet] + 1 \in Nat
        BY <3>1, <4>1
      <4> QED
        BY <3>1, <3>2, <4>1, <4>2
    <3>5. UNCHANGED <<tcp2serial, serial2tcp, fromMote, reader, counts, sources,
                      outcome, delivered, readHist>>
      BY <1>4 DEF WritePacket
    <3>6. ReaderShape'
      BY <3>5 DEF ReaderShape
    <3> QED
      BY <2>1, <3>3, <3>4, <3>5, <3>6
  <2> QED
    BY <2>2, <2>3
<1>5. CASE Woken
  BY <1>1, <1>2, <1>5 DEF Woken
<1>6. CASE TimedOut
  <2>1. CASE writer.retryCount < maxRetries
    <3>1. writer' \in [pc : {"dequeue", "write", "lock", "waiting", "woken"},
                        packet : ToMote \cup {None}, retryCount : 0 .. maxRetries]
          /\ WriterShape'
      <4>1. writer.retryCount + 1 \in 0 .. maxRetries /\ writer.packet # None
        BY <1>6, <2>1, BoundsAssumption DEF TimedOut, WriterShape
      <4>2. writer \in [pc : {"dequeue", "write", "lock", "waiting", "woken"},
                           packet : ToMote \cup {None}, retryCount : 0 .. maxRetries]
        OBVIOUS
      <4>3. writer' = [writer EXCEPT !.pc = "write", !.retryCount = @ + 1]
        BY <1>6, <2>1 DEF TimedOut, Retry
      <4> HIDE DEF TypeInv, TypeOK
      <4>4. writer'.pc = "write" /\ writer'.packet = writer.packet
        BY <4>2, <4>3
      <4>5. WriterShape'
        BY <4>1, <4>4 DEF WriterShape
      <4> QED
        BY <4>1, <4>2, <4>3, <4>5
    <3>2. /\ sumRetries' = sumRetries + 1 /\ WriterWaits
          /\ UNCHANGED <<outcome, droppedWritePacketCount>>
      BY <1>6, <2>1 DEF TimedOut, Retry
    <3>3. sumRetries' \in Nat
      BY <3>2
    <3> QED
      BY <3>1, <3>2, <3>3 DEF WriterWaits, ReaderShape
  <2>2. CASE ~(writer.retryCount < maxRetries)
    BY <1>1, <1>2, <1>6, <2>2 DEF TimedOut
  <2> QED
    BY <2>1, <2>2
<1>7. CASE \E now \in 0 .. 9 : Wait(now)
  <2>1. PICK now \in 0 .. 9 : Wait(now)
    BY <1>7
  <2>2. CASE Invalid(now, writer.retryCount + 1)
    BY <1>1, <1>2, <2>1, <2>2 DEF Wait
  <2>3. CASE ~Invalid(now, writer.retryCount + 1)
    BY <2>1, <2>3 DEF Wait, WriterWaits, ReaderShape, WriterShape
  <2> QED
    BY <2>2, <2>3
<1> QED
  BY <1>3, <1>4, <1>5, <1>6, <1>7 DEF Writer

LEMMA OthersType ==
    ASSUME TypeInv, ClientSends \/ TcpTakes \/ Clear \/ MoteReceives \/ MoteSends
    PROVE  TypeInv'
<1> USE DEF TypeInv, TypeOK, lines, counts, sources, writeHist, readHist
<1>1. ASSUME NEW p \in FromMote, MoteWrites(p) PROVE fromMote' \in Seq(FromMote)
  BY <1>1, Appended DEF MoteWrites
<1>2. CASE ClientSends
  <2>1. offered + 1 \in ToMote /\ offered' \in 0 .. Packets
    BY <1>2, PacketsAssumption DEF ClientSends, ToMote
  <2>2. tcp2serial' \in Seq(ToMote) /\ Len(tcp2serial') <= cMaxBufferSize
    <3>1. /\ tcp2serial' = Append(tcp2serial, offered + 1)
          /\ Len(tcp2serial) # cMaxBufferSize
      BY <1>2 DEF ClientSends, enqueueBack, isFull
    <3>2. /\ tcp2serial \in Seq(ToMote) /\ Len(tcp2serial) <= cMaxBufferSize
          /\ Len(tcp2serial) \in Nat
      BY LenProperties
    <3> HIDE DEF TypeInv, TypeOK
    <3>3. tcp2serial' \in Seq(ToMote) /\ Len(tcp2serial') = Len(tcp2serial) + 1
      BY <2>1, <3>1, <3>2, Appended
    <3> QED
      BY <3>1, <3>2, <3>3, BoundsAssumption
  <2> QED
    BY <1>2, <2>1, <2>2 DEF ClientSends, ReaderShape, WriterShape
<1>3. CASE TcpTakes
  <2>1. /\ Head(serial2tcp) \in 1 .. MotePackets
        /\ serial2tcp' \in Seq(FromMote \ {Ack})
        /\ Len(serial2tcp') <= cMaxBufferSize
    <3>1. /\ serial2tcp \in Seq(FromMote \ {Ack})
          /\ Len(serial2tcp) <= cMaxBufferSize
      OBVIOUS
    <3>2. serial2tcp # <<>> /\ serial2tcp' = Tail(serial2tcp)
      BY <1>3 DEF TcpTakes, dequeue
    <3> HIDE DEF TypeInv, TypeOK
    <3>3. /\ Head(serial2tcp) \in FromMote \ {Ack}
          /\ serial2tcp' \in Seq(FromMote \ {Ack})
          /\ Len(serial2tcp') = Len(serial2tcp) - 1 /\ Len(serial2tcp) \in Nat
      BY <3>1, <3>2, Taken
    <3>4. Len(serial2tcp') <= cMaxBufferSize
      BY <3>1, <3>3, BoundsAssumption
    <3> QED
      BY <3>3, <3>4, PacketsAssumption DEF FromMote, Ack
  <2>2. forwarded' \in Seq(1 .. MotePackets)
    BY <1>3, <2>1, Appended DEF TcpTakes
  <2> QED
    BY <1>3, <2>1, <2>2 DEF TcpTakes, ReaderShape, WriterShape
<1>4. CASE Clear
  BY <1>4, EmptySeq, LenProperties, BoundsAssumption
  DEF Clear, ReaderShape, WriterShape
<1>5. CASE MoteReceives
  <2>1. /\ Head(toMote) \in ToMote /\ toMote' \in Seq(ToMote)
    BY <1>5, Taken DEF MoteReceives
  <2>2. fromMote' \in Seq(FromMote)
    BY <1>1, <1>5, PacketsAssumption DEF MoteReceives, FromMote, Ack
  <2>3. delivered' \in Seq(1 .. Packets)
    <3>1. Head(toMote) # Ack => Head(toMote) \in 1 .. Packets
      BY <2>1, PacketsAssumption DEF ToMote, Ack
    <3>2. CASE Head(toMote) # Ack /\ delivered' = Append(delivered, Head(toMote))
      BY <3>1, <3>2, Appended
    <3>3. CASE delivered' = delivered
      BY <3>3
    <3> QED
      BY <1>5, <3>2, <3>3 DEF MoteReceives
  <2> QED
    BY <1>5, <2>1, <2>2, <2>3 DEF MoteReceives, ReaderShape, WriterShape
<1>6. CASE MoteSends
  <2>1. moteSent + 1 \in FromMote /\ moteSent' \in 0 .. MotePackets
    BY <1>6, PacketsAssumption DEF MoteSends, FromMote
  <2>2. fromMote' \in Seq(FromMote)
    BY <1>1, <1>6, <2>1 DEF MoteSends
  <2> QED
    BY <1>6, <2>1, <2>2 DEF MoteSends, ReaderShape, WriterShape
<1> QED
  BY <1>2, <1>3, <1>4, <1>5, <1>6

LEMMA TypeStep == TypeInv /\ ReadOrder' /\ [Next]_vars => TypeInv'
<1>1. TypeInv /\ UNCHANGED vars => TypeInv'
  BY DEF vars, lines, counts, sources, writeHist, readHist, TypeInv, TypeOK,
     ReaderShape, WriterShape
<1> QED
  BY <1>1, ReadPacketType, ReaderType, WriterType, OthersType DEF Next, Reader

LEMMA TypeAndOrder == Spec => [](TypeInv /\ ReadOrder)
BY TypeInit, ReadOrderInit, ReadOrderStep, TypeStep, PTL DEF Spec

(***************************************************************************)
(* Types.  A PacketBuffer never holds more than cMaxBufferSize packets,    *)
(* retryCount stays within maxRetries, and nothing but packets goes to the *)
(* clients.                                                                *)
(***************************************************************************)
THEOREM TypeCorrect == Spec => []TypeOK
<1>1. TypeInv => TypeOK
  BY DEF TypeInv
<1> QED
  BY <1>1, TypeAndOrder, PTL

-----------------------------------------------------------------------------
(* What the reader received is accounted for *)

LEMMA Lengths ==
    ASSUME TypeInv
    PROVE  /\ Len(serial2tcp) \in Nat /\ Len(forwarded) \in Nat
           /\ accepted \in Nat /\ cleared \in Nat /\ droppedReadPacketCount \in Nat
BY Sequences, LenProperties DEF TypeInv, TypeOK

\* The reader moves on, or others move, and nothing is received or taken.
LEMMA NothingRead ==
    ASSUME ReadsAccounted,
           UNCHANGED <<serial2tcp, forwarded, accepted, cleared,
                       droppedReadPacketCount>>,
           reader'.packet = reader.packet
    PROVE  ReadsAccounted'
BY DEF ReadsAccounted

LEMMA ReadPacketAccounted ==
    ASSUME TypeInv, ReadsAccounted, ReadPacket
    PROVE  ReadsAccounted'
<1>1. /\ UNCHANGED <<serial2tcp, forwarded, cleared, droppedReadPacketCount>>
      /\ reader.packet = None /\ Head(fromMote) # None
  <2>1. Head(fromMote) \in FromMote
    BY Taken DEF ReadPacket, TypeInv, TypeOK
  <2>2. Head(fromMote) # None
    BY <2>1 DEF FromMote, None
  <2> QED
    BY <2>2 DEF ReadPacket, counts, TypeInv, ReaderShape
<1>2. CASE UNCHANGED <<reader, accepted>>
  BY <1>1, <1>2, NothingRead
<1>3. CASE reader'.packet = Head(fromMote) /\ accepted' = accepted + 1
  BY <1>1, <1>3, Lengths DEF ReadsAccounted
<1> QED
  BY <1>2, <1>3 DEF ReadPacket

LEMMA OtherReaderAccounted ==
    ASSUME TypeInv, ReadsAccounted,
           EnqueueAck \/ CheckFull \/ WhileFull \/ DropOldest \/ Put
    PROVE  ReadsAccounted'
<1> USE DEF lines, counts, readHist
<1>1. \A pc : At(pc).packet = reader.packet
  BY DEF At, TypeInv, TypeOK
<1>2. CASE EnqueueAck \/ CheckFull \/ WhileFull
  BY <1>1, <1>2, NothingRead DEF EnqueueAck, CheckFull, WhileFull
<1>3. CASE DropOldest
  <2>1. /\ Len(serial2tcp') = Len(serial2tcp) - 1
        /\ reader'.packet = reader.packet
    BY <1>1, <1>3, Taken DEF DropOldest, dequeue, TypeInv, TypeOK
  <2> QED
    BY <1>3, <2>1, Lengths DEF DropOldest, ReadsAccounted
<1>4. CASE Put
  <2>1. /\ Len(serial2tcp') = Len(serial2tcp) + 1
        /\ reader.packet # None /\ reader'.packet = None
    BY <1>4, Appended DEF Put, enqueueBack, TypeInv, TypeOK, ReaderShape
  <2> QED
    BY <1>4, <2>1, Lengths DEF Put, ReadsAccounted
<1> QED
  BY <1>2, <1>3, <1>4

LEMMA TakenAccounted ==
    ASSUME TypeInv, ReadsAccounted, TcpTakes \/ Clear
    PROVE  ReadsAccounted'
<1>1. CASE TcpTakes
  <2>1. /\ Len(serial2tcp') = Len(serial2tcp) - 1
        /\ Len(forwarded') = Len(forwarded) + 1
    BY <1>1, Taken, Appended, PacketsAssumption
    DEF TcpTakes, dequeue, TypeInv, TypeOK, FromMote, Ack
  <2> QED
    BY <1>1, <2>1, Lengths DEF TcpTakes, ReadsAccounted, counts
<1>2. CASE Clear
  <2>1. Len(serial2tcp') = 0 /\ cleared' = cleared + Len(serial2tcp)
    BY <1>2 DEF Clear
  <2> QED
    BY <1>2, <2>1, Lengths DEF Clear, ReadsAccounted, counts
<1> QED
  BY <1>1, <1>2

LEMMA AccountedStep == TypeInv /\ ReadsAccounted /\ [Next]_vars => ReadsAccounted'
<1> SUFFICES ASSUME TypeInv, ReadsAccounted, [Next]_vars PROVE ReadsAccounted'
  OBVIOUS
<1> USE DEF lines, counts, sources, readHist
<1>1. CASE Reader
  BY <1>1, ReadPacketAccounted, OtherReaderAccounted DEF Reader
<1>2. CASE Writer
  BY <1>2, NothingRead
  DEF Writer, Dequeue, WritePacket, Woken, TimedOut, Wait, WriterWaits
<1>3. CASE TcpTakes \/ Clear
  BY <1>3, TakenAccounted
<1>4. CASE ClientSends \/ MoteReceives \/ MoteSends \/ UNCHANGED vars
  BY <1>4, NothingRead DEF ClientSends, MoteReceives, MoteSends, vars
<1> QED
  BY <1>1, <1>2, <1>3, <1>4 DEF Next

(***************************************************************************)
(* readSerial loses nothing but what it counts in droppedReadPacketCount:  *)
(* a packet received is with the clients, in the buffer, cleared because   *)
(* there were no clients, in the reader's hands, or counted as dropped.    *)
(***************************************************************************)
THEOREM ReadsAccountedCorrect == Spec => []ReadsAccounted
<1>1. Init => ReadsAccounted
  BY DEF Init, ReadsAccounted
<1> QED
  BY <1>1, AccountedStep, TypeAndOrder, PTL DEF Spec

(***************************************************************************)
(* From the clients to the mote: n is the last packet the writer dequeued. *)
(* What waits comes after it; what is on the line or with the mote came    *)
(* before, or is it, and the mote has nothing that comes after what is on  *)
(* the line.  Only n can be in the writer's hands: it has been written     *)
(* once for each try, and no packet after it has been written at all.      *)
(***************************************************************************)
WriteBuffers(n) ==
    /\ Data(tcp2serial) \subseteq n + 1 .. offered /\ Spaced(tcp2serial, 1)
    /\ Data(toMote) \subseteq 1 .. n /\ Spaced(toMote, 0)
    /\ Data(delivered) \subseteq 1 .. n /\ Spaced(delivered, 0)
    /\ \A d \in Data(delivered), e \in Data(toMote) : d <= e

WriteTries(n) ==
    /\ writer.packet \in {None, Ack, n}
    /\ \A p \in 1 .. Packets : p > n => writes[p] = 0 /\ outcome[p] = "pending"
    /\ writer.packet \in {None, Ack} => writer.retryCount = 0
    /\ writer.packet \notin {None, Ack} =>
          /\ outcome[n] = "pending"
          /\ writes[n] = writer.retryCount + IF writer.pc = "write" THEN 0 ELSE 1

WriteCut(n) == WriteBuffers(n) /\ WriteTries(n)

WriteOrder == \E n \in 0 .. offered : WriteCut(n)

LEMMA WriteOrderInit == TypeInv /\ Init => WriteOrder
<1> SUFFICES ASSUME TypeInv, Init PROVE WriteCut(0) /\ 0 \in 0 .. offered
  BY DEF WriteOrder
<1>1. WriteBuffers(0)
  BY EmptyOrder DEF Init, WriteBuffers
<1>2. WriteTries(0)
  BY DEF Init, WriteTries
<1> QED
  BY <1>1, <1>2 DEF WriteCut, Init

\* The same cut: a signal, or an acknowledgement for the mote, changes nothing
\* that it is about.
LEMMA SameCut ==
    ASSUME TypeInv, WriteOrder,
           UNCHANGED <<toMote, delivered, offered, writes, outcome>>,
           \/ UNCHANGED tcp2serial
           \/ tcp2serial' = <<Ack>> \o tcp2serial,
           \/ UNCHANGED writer
           \/ writer.pc \in {"lock", "waiting"} /\
                 \E pc \in {"waiting", "woken"} : writer' = [writer EXCEPT !.pc = pc]
    PROVE  WriteOrder'
<1>1. PICK n \in 0 .. offered : WriteCut(n)
  BY DEF WriteOrder
<1>2. Data(tcp2serial') = Data(tcp2serial) /\ Spaced(tcp2serial', 1)
  BY <1>1, Sequences, FrontAckOrder DEF WriteCut, WriteBuffers
<1>3. WriteBuffers(n)'
  BY <1>1, <1>2 DEF WriteCut, WriteBuffers
<1>4. /\ writer'.packet = writer.packet /\ writer'.retryCount = writer.retryCount
      /\ writer'.pc = "write" <=> writer.pc = "write"
  BY DEF TypeInv, TypeOK
<1>5. WriteTries(n)'
  BY <1>1, <1>4 DEF WriteCut, WriteTries
<1> QED
  BY <1>3, <1>5 DEF WriteCut, WriteOrder

LEMMA ClientSendsCut == TypeInv /\ WriteOrder /\ ClientSends => WriteOrder'
<1> SUFFICES ASSUME TypeInv, WriteOrder, ClientSends PROVE WriteOrder'
  OBVIOUS
<1>1. PICK n \in 0 .. offered : WriteCut(n)
  BY DEF WriteOrder
<1>2. /\ tcp2serial' = Append(tcp2serial, offered + 1) /\ offered' = offered + 1
      /\ UNCHANGED <<toMote, delivered, writes, outcome, writer>>
      /\ offered \in Nat
  BY DEF ClientSends, enqueueBack, lines, writeHist, TypeInv, TypeOK
<1>3. \A d \in Data(tcp2serial) : d + 1 <= offered + 1
  BY <1>1, <1>2 DEF WriteCut, WriteBuffers
<1>4. /\ Data(tcp2serial') = Data(tcp2serial) \cup {offered + 1}
      /\ Spaced(tcp2serial', 1)
  BY <1>1, <1>2, <1>3, Sequences, AppendOrder DEF WriteCut, WriteBuffers, Ack
<1>5. Data(tcp2serial') \subseteq n + 1 .. offered'
  BY <1>1, <1>2, <1>4 DEF WriteCut, WriteBuffers
<1>6. WriteBuffers(n)' /\ WriteTries(n)'
  BY <1>1, <1>2, <1>4, <1>5 DEF WriteCut, WriteBuffers, WriteTries
<1> QED
  BY <1>2, <1>6 DEF WriteCut, WriteOrder

LEMMA DequeueCut == TypeInv /\ WriteOrder /\ Dequeue => WriteOrder'
<1> SUFFICES ASSUME TypeInv, WriteOrder, Dequeue PROVE WriteOrder'
  OBVIOUS
<1>1. PICK n \in 0 .. offered : WriteCut(n)
  BY DEF WriteOrder
<1>2. PICK h : h = Head(tcp2serial)
  OBVIOUS
<1>3. /\ tcp2serial # <<>> /\ tcp2serial' = Tail(tcp2serial)
      /\ writer' = [writer EXCEPT !.pc = "write", !.packet = h]
      /\ writer.packet = None
      /\ UNCHANGED <<offered, toMote, delivered, writes, outcome>>
  BY <1>2 DEF Dequeue, dequeue, lines, sources, writeHist, TypeInv, WriterShape
<1>4. /\ writer'.pc = "write" /\ writer'.packet = h
      /\ writer'.retryCount = writer.retryCount /\ writer.retryCount = 0
  BY <1>1, <1>3 DEF TypeInv, TypeOK, WriteCut, WriteTries
<1>5. h \in ToMote /\ offered \in Nat /\ offered <= Packets
  BY <1>2, <1>3, Taken, PacketsAssumption DEF TypeInv, TypeOK
<1>6. /\ Data(tcp2serial') \subseteq Data(tcp2serial) /\ Spaced(tcp2serial', 1)
      /\ h # Ack => /\ h \in Data(tcp2serial)
                    /\ \A d \in Data(tcp2serial') : h + 1 <= d
  BY <1>1, <1>2, <1>3, Sequences, TailOrder DEF WriteCut, WriteBuffers
<1>7. CASE h = Ack
  <2>1. WriteBuffers(n)' /\ WriteTries(n)'
    BY <1>1, <1>3, <1>4, <1>6, <1>7 DEF WriteCut, WriteBuffers, WriteTries
  <2> QED
    BY <1>3, <2>1 DEF WriteCut, WriteOrder
<1>8. CASE h # Ack
  <2>0. h \in n + 1 .. offered
    BY <1>1, <1>6, <1>8 DEF WriteCut, WriteBuffers
  <2>1. h \in n + 1 .. offered /\ h \in 1 .. Packets
    BY <1>5, <2>0, PacketsAssumption
  <2>2. \A d \in Data(tcp2serial') : d \in h + 1 .. offered
    BY <1>1, <1>5, <1>6, <1>8, <2>1 DEF WriteCut, WriteBuffers
  <2>3. 1 .. n \subseteq 1 .. h
    BY <2>1
  <2>4. WriteBuffers(h)'
    BY <1>1, <1>3, <1>6, <2>2, <2>3 DEF WriteCut, WriteBuffers
  <2>5. WriteTries(h)'
    <3>1. writes[h] = 0 /\ outcome[h] = "pending"
      BY <1>1, <2>1 DEF WriteCut, WriteTries
    <3>2. \A p \in 1 .. Packets : p > h => p > n
      BY <2>1
    <3> QED
      BY <1>1, <1>3, <1>4, <1>8, <3>1, <3>2 DEF WriteCut, WriteTries
  <2> QED
    BY <1>3, <2>1, <2>4, <2>5 DEF WriteCut, WriteOrder
<1> QED
  BY <1>7, <1>8

LEMMA WritePacketCut == TypeInv /\ WriteOrder /\ WritePacket => WriteOrder'
<1> SUFFICES ASSUME TypeInv, WriteOrder, WritePacket PROVE WriteOrder'
  OBVIOUS
<1>1. PICK n \in 0 .. offered : WriteCut(n)
  BY DEF WriteOrder
<1>2. /\ toMote' = Append(toMote, writer.packet)
      /\ writer.pc = "write" /\ writer.packet # None
      /\ UNCHANGED <<tcp2serial, offered, delivered, outcome>>
  BY DEF WritePacket, sources, TypeInv, WriterShape
<1>3. /\ writer.packet \in Nat /\ writer.packet \in {Ack, n}
      /\ offered \in Nat /\ offered <= Packets
  BY <1>1, <1>2, PacketsAssumption DEF TypeInv, TypeOK, ToMote, WriteCut, WriteTries
<1>4. \A d \in Data(toMote) : d + 0 <= n
  BY <1>1 DEF WriteCut, WriteBuffers
<1>5. /\ Data(toMote') = Data(toMote) \cup ({writer.packet} \ {Ack})
      /\ Spaced(toMote', 0)
  BY <1>1, <1>2, <1>3, <1>4, Sequences, AppendOrder DEF WriteCut, WriteBuffers
<1>6. WriteBuffers(n)'
  <2>1. Data(toMote') \subseteq 1 .. n
    BY <1>1, <1>3, <1>5 DEF WriteCut, WriteBuffers, Ack
  <2>2. \A d \in Data(delivered), e \in Data(toMote') : d <= e
    BY <1>1, <1>3, <1>5 DEF WriteCut, WriteBuffers
  <2> QED
    BY <1>1, <1>2, <1>5, <2>1, <2>2 DEF WriteCut, WriteBuffers
<1>7. WriteTries(n)'
  <2>1. CASE writer.packet = Ack
    <3>1. /\ writer' = [writer EXCEPT !.pc = "dequeue", !.packet = None]
          /\ writes' = writes
      BY <2>1 DEF WritePacket
    <3>2. writer'.packet = None /\ writer'.retryCount = 0
      BY <1>1, <2>1, <3>1 DEF TypeInv, TypeOK, WriteCut, WriteTries
    <3> QED
      BY <1>1, <1>2, <3>1, <3>2 DEF WriteCut, WriteTries
  <2>2. CASE writer.packet # Ack
    <3>1. /\ writer' = [writer EXCEPT !.pc = "lock"]
          /\ writes' = [writes EXCEPT ![n] = @ + 1] /\ writer.packet = n
      BY <1>3, <2>2 DEF WritePacket
    <3>2. n \in 1 .. Packets
      <4>1. n # 0
        BY <2>2, <3>1 DEF Ack
      <4> QED
        BY <1>3, <4>1, PacketsAssumption
    <3>3. /\ writer'.pc = "lock" /\ writer'.packet = n
          /\ writer'.retryCount = writer.retryCount
          /\ writes'[n] = writes[n] + 1
          /\ \A p \in 1 .. Packets : p > n => writes'[p] = writes[p]
      BY <3>1, <3>2 DEF TypeInv, TypeOK
    <3>4. writes[n] = writer.retryCount + 0 /\ outcome[n] = "pending"
      BY <1>1, <1>2, <2>2, <3>1 DEF WriteCut, WriteTries
    <3>5. writer.retryCount \in Nat
      BY BoundsAssumption DEF TypeInv, TypeOK
    <3> QED
      BY <1>1, <1>2, <2>2, <3>1, <3>3, <3>4, <3>5 DEF WriteCut, WriteTries
  <2> QED
    BY <2>1, <2>2
<1> QED
  BY <1>2, <1>6, <1>7 DEF WriteCut, WriteOrder

\* The writer's wait ends, and with it its packet or a try.
LEMMA WaitCut ==
    ASSUME TypeInv, WriteOrder, WriterWaits,
           writer.pc \in {"lock", "waiting", "woken"},
           Retry \/ \E how \in {"acked", "timedOut", "notWaited"} : Finish(how)
    PROVE  WriteOrder'
<1>1. PICK n \in 0 .. offered : WriteCut(n)
  BY DEF WriteOrder
<1>2. UNCHANGED <<tcp2serial, toMote, delivered, offered, writes>>
  BY DEF WriterWaits, lines, sources
<1>3. WriteBuffers(n)'
  BY <1>1, <1>2 DEF WriteCut, WriteBuffers
<1>4. writer.packet = n /\ writer.packet \notin {None, Ack}
  BY <1>1 DEF WriteCut, WriteTries, TypeInv, WriterShape
<1>5. CASE Retry
  <2>1. /\ writer'.pc = "write" /\ writer'.packet = n
        /\ writer'.retryCount = writer.retryCount + 1 /\ outcome' = outcome
    BY <1>4, <1>5 DEF Retry, TypeInv, TypeOK
  <2>2. writer'.retryCount \in Nat
    BY <2>1, BoundsAssumption DEF TypeInv, TypeOK
  <2>3. writes[n] = writer.retryCount + 1
    BY <1>1, <1>4 DEF WriteCut, WriteTries
  <2>4. WriteTries(n)'
    BY <1>1, <1>2, <1>4, <2>1, <2>2, <2>3 DEF WriteCut, WriteTries
  <2> QED
    BY <1>2, <1>3, <2>4 DEF WriteCut, WriteOrder
<1>6. CASE \E how \in {"acked", "timedOut", "notWaited"} : Finish(how)
  <2>1. writer'.packet = None /\ writer'.retryCount = 0
    BY <1>6 DEF Finish
  <2>2. \A p \in 1 .. Packets : p > n => outcome'[p] = outcome[p]
    BY <1>4, <1>6 DEF Finish, LeaveAs, TypeInv, TypeOK
  <2>3. WriteTries(n)'
    BY <1>1, <1>2, <2>1, <2>2 DEF WriteCut, WriteTries
  <2> QED
    BY <1>2, <1>3, <2>3 DEF WriteCut, WriteOrder
<1> QED
  BY <1>5, <1>6

LEMMA MoteReceivesCut == TypeInv /\ WriteOrder /\ MoteReceives => WriteOrder'
<1> SUFFICES ASSUME TypeInv, WriteOrder, MoteReceives PROVE WriteOrder'
  OBVIOUS
<1>1. PICK n \in 0 .. offered : WriteCut(n)
  BY DEF WriteOrder
<1>2. PICK h : h = Head(toMote)
  OBVIOUS
<1>3. /\ toMote # <<>> /\ toMote' = Tail(toMote)
      /\ UNCHANGED <<tcp2serial, offered, writer, writes, outcome>>
  BY DEF MoteReceives, sources, writeHist
<1>4. h \in Nat
  BY <1>2, <1>3, Sequences, Taken
<1>5. /\ Data(toMote') \subseteq Data(toMote) /\ Spaced(toMote', 0)
      /\ h # Ack => /\ h \in Data(toMote)
                    /\ \A d \in Data(toMote') : h + 0 <= d
  BY <1>1, <1>2, <1>3, Sequences, TailOrder DEF WriteCut, WriteBuffers
<1>6. WriteTries(n)'
  BY <1>1, <1>3 DEF WriteCut, WriteTries
<1>7. CASE h # Ack /\ delivered' = Append(delivered, h)
  <2>1. \A d \in Data(delivered) : d + 0 <= h
    BY <1>1, <1>5, <1>7 DEF WriteCut, WriteBuffers
  <2>2. Data(delivered') = Data(delivered) \cup {h} /\ Spaced(delivered', 0)
    BY <1>1, <1>4, <1>7, <2>1, Sequences, AppendOrder DEF WriteCut, WriteBuffers
  <2>3. \A d \in Data(delivered'), e \in Data(toMote') : d <= e
    BY <1>1, <1>4, <1>5, <1>7, <2>2 DEF WriteCut, WriteBuffers
  <2>4. WriteBuffers(n)'
    BY <1>1, <1>3, <1>5, <1>7, <2>2, <2>3 DEF WriteCut, WriteBuffers
  <2> QED
    BY <1>3, <1>6, <2>4 DEF WriteCut, WriteOrder
<1>8. CASE delivered' = delivered
  <2>1. WriteBuffers(n)'
    BY <1>1, <1>3, <1>5, <1>8 DEF WriteCut, WriteBuffers
  <2> QED
    BY <1>3, <1>6, <2>1 DEF WriteCut, WriteOrder
<1> QED
  BY <1>2, <1>7, <1>8 DEF MoteReceives

LEMMA WriteOrderStep == TypeInv /\ WriteOrder /\ [Next]_vars => WriteOrder'
<1> SUFFICES ASSUME TypeInv, WriteOrder, [Next]_vars PROVE WriteOrder'
  OBVIOUS
<1> USE DEF lines, sources, writeHist
<1>1. CASE Reader
  <2>1. UNCHANGED <<toMote, delivered, offered, writes, outcome>>
    BY <1>1 DEF Reader, ReadPacket, EnqueueAck, CheckFull, WhileFull, DropOldest, Put
  <2>2. tcp2serial' = tcp2serial \/ tcp2serial' = <<Ack>> \o tcp2serial
    BY <1>1 DEF Reader, ReadPacket, EnqueueAck, enqueueFront, CheckFull,
       WhileFull, DropOldest, Put
  <2>3. \/ UNCHANGED writer
        \/ /\ writer.pc \in {"lock", "waiting"}
           /\ \E pc \in {"waiting", "woken"} : writer' = [writer EXCEPT !.pc = pc]
    BY <1>1 DEF Reader, ReadPacket, SignalAck, EnqueueAck, CheckFull, WhileFull,
       DropOldest, Put
  <2> QED
    BY <2>1, <2>2, <2>3, SameCut
<1>2. CASE Writer
  <2>1. CASE \E now \in 0 .. 9 : Wait(now)
    <3>1. PICK now \in 0 .. 9 : Wait(now)
      BY <2>1
    <3>2. CASE Invalid(now, writer.retryCount + 1)
      BY <3>1, <3>2, WaitCut DEF Wait
    <3>3. CASE ~Invalid(now, writer.retryCount + 1)
      BY <3>1, <3>3, SameCut DEF Wait, WriterWaits
    <3> QED
      BY <3>2, <3>3
  <2> QED
    BY <1>2, <2>1, DequeueCut, WritePacketCut, WaitCut DEF Writer, Woken, TimedOut
<1>3. CASE ClientSends
  BY <1>3, ClientSendsCut
<1>4. CASE MoteReceives
  BY <1>4, MoteReceivesCut
<1>5. CASE TcpTakes \/ Clear \/ MoteSends \/ UNCHANGED vars
  BY <1>5, SameCut DEF TcpTakes, Clear, MoteSends, vars
<1> QED
  BY <1>1, <1>2, <1>3, <1>4, <1>5 DEF Next

LEMMA OrderCorrect == Spec => [](TypeInv /\ ReadOrder /\ WriteOrder)
BY TypeInit, ReadOrderInit, WriteOrderInit, ReadOrderStep, TypeStep,
   WriteOrderStep, PTL DEF Spec

(***************************************************************************)
(* Order.  Acknowledgements and packets share tcp2serial and the line, and *)
(* acknowledgements overtake; packets do not, in either direction.  A try  *)
(* repeats the packet before only as long as no later one has been written.*)
(***************************************************************************)
THEOREM InOrderCorrect == Spec => []InOrder
<1>1. ASSUME TypeInv, ReadOrder, WriteOrder PROVE InOrder
  <2>1. Ascending(delivered, LAMBDA p, q : p <= q)
    <3>1. PICK n \in 0 .. offered : WriteCut(n)
      BY <1>1 DEF WriteOrder
    <3>2. ASSUME NEW i \in 1 .. Len(delivered) - 1
          PROVE  delivered[i] <= delivered[i + 1]
      <4>1. /\ i \in 1 .. Len(delivered) /\ i + 1 \in 1 .. Len(delivered)
            /\ i < i + 1
        BY <1>1, <3>2, Sequences, LenProperties
      <4>2. delivered[i] \in 1 .. Packets /\ delivered[i + 1] \in 1 .. Packets
        BY <1>1, <4>1, ElementOfSeq DEF TypeInv, TypeOK
      <4>3. delivered[i] + 0 <= delivered[i + 1]
        BY <3>1, <4>1, <4>2 DEF WriteCut, WriteBuffers, Spaced, Ack
      <4> QED
        BY <4>2, <4>3
    <3> QED
      BY <3>2 DEF Ascending
  <2>2. Ascending(forwarded \o serial2tcp, LAMBDA p, q : p < q)
    <3> DEFINE f == forwarded
               s == serial2tcp
               t == f \o s
    <3>1. PICK m \in 0 .. moteSent : ReadCut(m)
      BY <1>1 DEF ReadOrder
    <3>2. /\ Len(f) \in Nat /\ Len(s) \in Nat /\ Len(t) = Len(f) + Len(s)
          /\ \A i \in 1 .. Len(f) : t[i] = f[i] /\ f[i] \in Data(f)
          /\ \A i \in 1 .. Len(s) : t[Len(f) + i] = s[i] /\ s[i] \in Data(s)
      <4>1. f \in Seq(Nat) /\ s \in Seq(Nat)
        BY <1>1, Sequences
      <4>2. /\ \A i \in 1 .. Len(f) : f[i] # Ack
            /\ \A i \in 1 .. Len(s) : s[i] # Ack
        <5>1. /\ f \in Seq(1 .. MotePackets)
              /\ s \in Seq(FromMote \ {Ack})
          BY <1>1 DEF TypeInv, TypeOK
        <5>2. \A i \in 1 .. Len(f) : f[i] \in 1 .. MotePackets
          BY <5>1, ElementOfSeq
        <5>3. \A i \in 1 .. Len(s) : s[i] \in FromMote \ {Ack}
          BY <5>1, ElementOfSeq
        <5> QED
          BY <5>2, <5>3 DEF Ack
      <4>3. /\ Len(f) \in Nat /\ Len(s) \in Nat /\ Len(t) = Len(f) + Len(s)
            /\ \A i \in 1 .. Len(f) : t[i] = f[i]
            /\ \A i \in 1 .. Len(s) : t[Len(f) + i] = s[i]
        BY <4>1, ConcatProperties, LenProperties
      <4> QED
        BY <4>2, <4>3 DEF Data
    <3>3. /\ Data(f) \subseteq Nat \ {Ack} /\ Data(s) \subseteq Nat \ {Ack}
          /\ Spaced(f, 1) /\ Spaced(s, 1)
          /\ \A x \in Data(f), y \in Data(s) : x < y
      BY <1>1, <3>1, Sequences, DataType DEF ReadCut
    <3> HIDE DEF f, s, t
    <3>4. ASSUME NEW i \in 1 .. Len(t) - 1 PROVE t[i] < t[i + 1]
      <4>1. CASE i + 1 <= Len(f)
        <5>1. i \in 1 .. Len(f) /\ i + 1 \in 1 .. Len(f) /\ i < i + 1
          BY <3>2, <3>4, <4>1
        <5>2. f[i] + 1 <= f[i + 1] /\ f[i] \in Nat /\ f[i + 1] \in Nat
          BY <3>2, <3>3, <5>1 DEF Spaced
        <5> QED
          BY <3>2, <5>1, <5>2
      <4>2. CASE i = Len(f)
        <5>1. i \in 1 .. Len(f) /\ 1 \in 1 .. Len(s)
          BY <3>2, <3>4, <4>2
        <5> QED
          BY <3>2, <3>3, <4>2, <5>1
      <4>3. CASE i > Len(f)
        <5> DEFINE j == i - Len(f)
        <5>1. /\ j \in 1 .. Len(s) /\ j + 1 \in 1 .. Len(s)
              /\ i = Len(f) + j /\ i + 1 = Len(f) + (j + 1)
          BY <3>2, <3>4, <4>3
        <5> HIDE DEF j
        <5>2. s[j] + 1 <= s[j + 1] /\ s[j] \in Nat /\ s[j + 1] \in Nat
          BY <3>2, <3>3, <5>1 DEF Spaced
        <5>3. t[i] = s[j] /\ t[i + 1] = s[j + 1]
          BY <3>2, <5>1
        <5> QED
          BY <5>2, <5>3
      <4> QED
        BY <3>2, <4>1, <4>2, <4>3
    <3> QED
      BY <3>4 DEF Ascending, f, s, t
  <2> QED
    BY <2>1, <2>2 DEF InOrder
<1> QED
  BY <1>1, OrderCorrect, PTL

-----------------------------------------------------------------------------
(* Tries and acknowledgements *)

LEMMA GivenUpStep ==
    TypeInv /\ WriteOrder /\ GivenUpAfterAllRetries /\ [Next]_vars
        => GivenUpAfterAllRetries'
<1> SUFFICES ASSUME TypeInv, WriteOrder, GivenUpAfterAllRetries, [Next]_vars
             PROVE  GivenUpAfterAllRetries'
  OBVIOUS
<1>1. PICK n \in 0 .. offered : WriteCut(n)
  BY DEF WriteOrder
<1>2. CASE UNCHANGED <<writes, outcome>>
  BY <1>2 DEF GivenUpAfterAllRetries
<1>3. CASE WritePacket /\ writer.packet # Ack
  <2>1. /\ writer.packet = n /\ writer.pc = "write" /\ outcome' = outcome
        /\ writes' = [writes EXCEPT ![n] = @ + 1]
    BY <1>1, <1>3 DEF WritePacket, WriteCut, WriteTries, TypeInv, WriterShape
  <2>2. outcome[n] = "pending" /\ writes[n] = writer.retryCount + 0
    BY <1>1, <1>3, <2>1 DEF WriteCut, WriteTries, TypeInv, WriterShape
  <2>3. writes[n] + 1 <= maxRetries + 1
    BY <2>2, BoundsAssumption DEF TypeInv, TypeOK
  <2>4. \A p \in 1 .. Packets :
           writes'[p] = IF p = n THEN writes[n] + 1 ELSE writes[p]
    BY <2>1 DEF TypeInv, TypeOK
  <2> QED
    BY <2>1, <2>2, <2>3, <2>4 DEF GivenUpAfterAllRetries
<1>4. ASSUME writes' = writes, writer.pc \in {"lock", "waiting", "woken"},
             NEW how \in {"acked", "timedOut", "notWaited"}, Finish(how),
             how = "timedOut" => ~(writer.retryCount < maxRetries)
      PROVE  GivenUpAfterAllRetries'
  <2>1. /\ writer.packet = n /\ outcome' = [outcome EXCEPT ![n] = how]
        /\ writes[n] = writer.retryCount + 1
    BY <1>1, <1>4 DEF Finish, LeaveAs, WriteCut, WriteTries, TypeInv, WriterShape
  <2>2. how = "timedOut" => writes[n] = maxRetries + 1
    BY <1>4, <2>1, BoundsAssumption DEF TypeInv, TypeOK
  <2>3. \A p \in 1 .. Packets : outcome'[p] = IF p = n THEN how ELSE outcome[p]
    BY <2>1 DEF TypeInv, TypeOK
  <2> QED
    BY <1>4, <2>2, <2>3 DEF GivenUpAfterAllRetries
<1>5. CASE Writer
  <2>1. CASE Dequeue \/ (WritePacket /\ writer.packet = Ack)
    BY <1>2, <2>1 DEF Dequeue, WritePacket, writeHist
  <2>2. CASE Woken
    BY <1>4, <2>2 DEF Woken, WriterWaits
  <2>3. CASE TimedOut
    BY <1>2, <1>4, <2>3 DEF TimedOut, Retry, WriterWaits
  <2>4. CASE \E now \in 0 .. 9 : Wait(now)
    BY <1>2, <1>4, <2>4 DEF Wait, WriterWaits
  <2> QED
    BY <1>3, <1>5, <2>1, <2>2, <2>3, <2>4 DEF Writer
<1>6. CASE Reader
  BY <1>2, <1>6 DEF Reader, ReadPacket, EnqueueAck, CheckFull, WhileFull,
     DropOldest, Put, writeHist
<1>7. CASE ClientSends \/ TcpTakes \/ Clear \/ MoteReceives \/ MoteSends
              \/ UNCHANGED vars
  BY <1>2, <1>7 DEF ClientSends, TcpTakes, Clear, MoteReceives, MoteSends, vars,
     writeHist
<1> QED
  BY <1>5, <1>6, <1>7 DEF Next

(***************************************************************************)
(* A packet is written at most maxRetries + 1 times and given up only      *)
(* after as many: retryCount is reset by every way out of the wait.        *)
(***************************************************************************)
THEOREM GivenUpCorrect == Spec => []GivenUpAfterAllRetries
<1>1. Init => GivenUpAfterAllRetries
  BY BoundsAssumption DEF Init, GivenUpAfterAllRetries
<1> QED
  BY <1>1, GivenUpStep, OrderCorrect, PTL DEF Spec

\* What a sequence has of a kind K, and whether it has it once.
Has(s, K) == \E i \in 1 .. Len(s) : s[i] \in K
Single(s, K) == \A i, j \in 1 .. Len(s) : s[i] \in K /\ s[j] \in K => i = j

LEMMA AppendHas ==
    ASSUME NEW s \in Seq(Nat), NEW e \in Nat, NEW K
    PROVE  /\ Has(Append(s, e), K) <=> Has(s, K) \/ e \in K
           /\ Single(s, K) /\ (e \in K => ~Has(s, K)) => Single(Append(s, e), K)
<1> DEFINE t == Append(s, e)
<1>1. /\ Len(s) \in Nat /\ Len(t) = Len(s) + 1
      /\ t[Len(s) + 1] = e /\ \A i \in 1 .. Len(s) : t[i] = s[i]
  BY AppendProperties, LenProperties
<1>2. 1 .. Len(t) = (1 .. Len(s)) \cup {Len(s) + 1}
  BY <1>1
<1> HIDE DEF t
<1>3. Has(t, K) <=> Has(s, K) \/ e \in K
  BY <1>1, <1>2 DEF Has
<1>4. ASSUME Single(s, K), e \in K => ~Has(s, K) PROVE Single(t, K)
  BY <1>1, <1>2, <1>4 DEF Single, Has
<1> QED
  BY <1>3, <1>4 DEF t

LEMMA TailHas ==
    ASSUME NEW s \in Seq(Nat), s # <<>>, NEW K
    PROVE  /\ Has(Tail(s), K) => Has(s, K)
           /\ Head(s) \in K => Has(s, K)
           /\ Single(s, K) => /\ Single(Tail(s), K)
                              /\ Head(s) \in K => ~Has(Tail(s), K)
<1> DEFINE t == Tail(s)
<1>1. /\ Len(s) \in Nat \ {0} /\ Len(t) = Len(s) - 1 /\ Head(s) = s[1]
      /\ \A i \in 1 .. Len(t) : t[i] = s[i + 1]
  BY HeadTailProperties, LenProperties, EmptySeq
<1>2. /\ 1 \in 1 .. Len(s)
      /\ \A i \in 1 .. Len(t) : i + 1 \in 1 .. Len(s) /\ i + 1 # 1
  BY <1>1
<1> HIDE DEF t
<1>3. Has(t, K) => Has(s, K)
  BY <1>1, <1>2 DEF Has
<1>4. Head(s) \in K => Has(s, K)
  BY <1>1, <1>2 DEF Has
<1>5. ASSUME Single(s, K) PROVE Single(t, K)
  <2>1. ASSUME NEW i \in 1 .. Len(t), NEW j \in 1 .. Len(t), t[i] \in K, t[j] \in K
        PROVE  i = j
    <3>1. i + 1 = j + 1
      BY <1>1, <1>2, <1>5, <2>1 DEF Single
    <3> QED
      BY <1>1, <3>1
  <2> QED
    BY <2>1 DEF Single
<1>6. ASSUME Single(s, K), Head(s) \in K, NEW i \in 1 .. Len(t), t[i] \in K
      PROVE  FALSE
  <2>1. 1 = i + 1
    BY <1>1, <1>2, <1>6 DEF Single
  <2> QED
    BY <1>2, <2>1
<1> QED
  BY <1>3, <1>4, <1>5, <1>6 DEF Has, t

(***************************************************************************)
(* As long as every wait has succeeded at the first try, there is at most  *)
(* one packet or one acknowledgement of a packet under way, it belongs to  *)
(* the packet the writer waits for, and there is none while the writer     *)
(* does not wait: no acknowledgement is left for the next packet.          *)
(***************************************************************************)
FirstTries == sumRetries = 0 /\ (\A p \in 1 .. Packets : outcome[p] # "notWaited")

Packet == Nat \ {Ack}

OneUnderWay ==
    /\ writer.pc \in {"dequeue", "write", "woken"} =>
          ~Has(fromMote, {Ack}) /\ ~Has(toMote, Packet)
    /\ Has(fromMote, {Ack}) =>
          writer.packet \in Data(delivered) /\ ~Has(toMote, Packet)
    /\ Single(fromMote, {Ack}) /\ Single(toMote, Packet)
    /\ Data(toMote) \subseteq {writer.packet}
    /\ writer.pc = "woken" => writer.packet \in Data(delivered)
    /\ writer.retryCount = 0
    /\ \A p \in 1 .. Packets : outcome[p] = "acked" => p \in Data(delivered)

Quiet == FirstTries => OneUnderWay

LEMMA HasData ==
    ASSUME NEW s \in Seq(Nat) PROVE Has(s, Packet) <=> Data(s) # {}
<1>1. \A i \in 1 .. Len(s) : s[i] \in Nat
  BY ElementOfSeq
<1>2. ASSUME Has(s, Packet) PROVE Data(s) # {}
  BY <1>2 DEF Has, Data, Packet
<1>3. ASSUME NEW d \in Data(s) PROVE Has(s, Packet)
  <2>1. PICK i \in 1 .. Len(s) : s[i] = d /\ d # Ack
    BY DEF Data
  <2> QED
    BY <1>1, <2>1 DEF Has, Packet
<1> QED
  BY <1>2, <1>3

LEMMA QuietInit == Init => Quiet
BY EmptyOrder DEF Init, Quiet, OneUnderWay, Has, Single

\* Once a wait has failed or has been repeated, that is not forgotten.
LEMMA FirstTriesBefore ==
    ASSUME TypeInv, WriteOrder, [Next]_vars, FirstTries'
    PROVE  FirstTries
<1>1. PICK n \in 0 .. offered : WriteCut(n)
  BY DEF WriteOrder
<1>2. CASE UNCHANGED <<sumRetries, outcome>>
  BY <1>2 DEF FirstTries
<1>3. ASSUME writer.pc \in {"lock", "waiting", "woken"},
             \E how \in {"acked", "timedOut", "notWaited"} : Finish(how)
      PROVE  FirstTries
  <2>1. writer.packet = n /\ outcome[n] = "pending"
    BY <1>1, <1>3 DEF WriteCut, WriteTries, TypeInv, WriterShape
  <2>2. \A p \in 1 .. Packets : p # n => outcome'[p] = outcome[p]
    BY <1>3, <2>1 DEF Finish, LeaveAs, TypeInv, TypeOK
  <2> QED
    BY <1>3, <2>1, <2>2 DEF FirstTries, Finish, LeaveAs
<1>4. ~Retry
  BY DEF Retry, FirstTries, TypeInv, TypeOK
<1>5. CASE Writer
  <2>1. CASE Woken \/ TimedOut
    BY <1>3, <1>4, <2>1 DEF Woken, TimedOut
  <2>2. CASE \E now \in 0 .. 9 : Wait(now)
    BY <1>2, <1>3, <2>2 DEF Wait
  <2> QED
    BY <1>2, <1>5, <2>1, <2>2 DEF Writer, Dequeue, WritePacket, counts, writeHist
<1> QED
  BY <1>2, <1>5 DEF Next, vars, Reader, ReadPacket, EnqueueAck, CheckFull,
     WhileFull, DropOldest, Put, ClientSends, TcpTakes, Clear, MoteReceives,
     MoteSends, counts, writeHist

LEMMA ReadPacketQuiet ==
    ASSUME TypeInv, OneUnderWay, ReadPacket
    PROVE  OneUnderWay'
<1>1. /\ UNCHANGED <<toMote, delivered, outcome>> /\ fromMote # <<>>
      /\ fromMote' = Tail(fromMote)
  BY DEF ReadPacket, writeHist
<1>2. /\ Has(fromMote', {Ack}) => Has(fromMote, {Ack})
      /\ Single(fromMote', {Ack})
      /\ Head(fromMote) = Ack => Has(fromMote, {Ack}) /\ ~Has(fromMote', {Ack})
  BY <1>1, Sequences, TailHas DEF OneUnderWay
<1>3. CASE writer' = writer
  BY <1>1, <1>2, <1>3 DEF OneUnderWay
<1>4. CASE Head(fromMote) = Ack /\ writer' = [writer EXCEPT !.pc = "woken"]
  <2>1. /\ writer'.pc = "woken" /\ writer'.packet = writer.packet
        /\ writer'.retryCount = writer.retryCount
    BY <1>4 DEF TypeInv, TypeOK
  <2> QED
    BY <1>1, <1>2, <1>4, <2>1 DEF OneUnderWay
<1> QED
  BY <1>3, <1>4 DEF ReadPacket, SignalAck

LEMMA WriterQuiet ==
    ASSUME maxRetries > 0, TypeInv, WriteOrder, OneUnderWay, Writer, FirstTries'
    PROVE  OneUnderWay'
<1>1. PICK n \in 0 .. offered : WriteCut(n)
  BY DEF WriteOrder
<1>2. delivered' = delivered /\ fromMote' = fromMote
  BY DEF Writer, Dequeue, WritePacket, Woken, TimedOut, Wait, WriterWaits, lines
<1>3. CASE Dequeue
  <2>1. /\ UNCHANGED <<toMote, outcome>> /\ writer.pc = "dequeue"
        /\ writer'.pc = "write" /\ writer'.retryCount = writer.retryCount
    BY <1>3 DEF Dequeue, lines, writeHist, TypeInv, TypeOK
  <2>2. Data(toMote) = {}
    BY <2>1, Sequences, HasData DEF OneUnderWay
  <2> QED
    BY <1>2, <2>1, <2>2 DEF OneUnderWay
<1>4. CASE WritePacket
  <2>1. /\ toMote' = Append(toMote, writer.packet) /\ outcome' = outcome
        /\ ~Has(fromMote, {Ack}) /\ ~Has(toMote, Packet)
        /\ writer.packet \in Nat
    BY <1>4 DEF WritePacket, OneUnderWay, TypeInv, TypeOK, WriterShape, ToMote
  <2>2. /\ Has(toMote', Packet) <=> writer.packet # Ack
        /\ Single(toMote', Packet)
        /\ Data(toMote') = {writer.packet} \ {Ack}
    <3>1. /\ Data(toMote) = {} /\ Single(toMote, Packet) /\ toMote \in Seq(Nat)
      BY <2>1, Sequences, HasData DEF OneUnderWay
    <3>2. writer.packet \in Packet <=> writer.packet # Ack
      BY <2>1 DEF Packet
    <3> QED
      BY <2>1, <3>1, <3>2, AppendHas, AppendOrder
  <2>3. CASE writer.packet = Ack
    <3>1. writer' = [writer EXCEPT !.pc = "dequeue", !.packet = None]
      BY <1>4, <2>3 DEF WritePacket
    <3>2. writer'.pc = "dequeue" /\ writer'.retryCount = writer.retryCount
      BY <3>1 DEF TypeInv, TypeOK
    <3> QED
      BY <1>2, <2>1, <2>2, <2>3, <3>2 DEF OneUnderWay
  <2>4. CASE writer.packet # Ack
    <3>1. writer' = [writer EXCEPT !.pc = "lock"]
      BY <1>4, <2>4 DEF WritePacket
    <3>2. /\ writer'.pc = "lock" /\ writer'.packet = writer.packet
          /\ writer'.retryCount = writer.retryCount
      BY <3>1 DEF TypeInv, TypeOK
    <3> QED
      BY <1>2, <2>1, <2>2, <3>2 DEF OneUnderWay
  <2> QED
    BY <2>3, <2>4
<1>5. CASE Woken
  <2>1. /\ toMote' = toMote /\ writer.packet = n /\ writer.pc = "woken"
        /\ outcome' = [outcome EXCEPT ![n] = "acked"]
        /\ writer' = [pc |-> "dequeue", packet |-> None, retryCount |-> 0]
    BY <1>1, <1>5 DEF Woken, Finish, LeaveAs, WriterWaits, lines, WriteCut,
       WriteTries, TypeInv, WriterShape
  <2>2. \A p \in 1 .. Packets : p # n => outcome'[p] = outcome[p]
    BY <2>1 DEF TypeInv, TypeOK
  <2>3. n \in Data(delivered) /\ Data(toMote) = {}
    BY <2>1, Sequences, HasData DEF OneUnderWay
  <2>4. \A p \in 1 .. Packets : outcome'[p] = "acked" => p \in Data(delivered)
    BY <2>2, <2>3 DEF OneUnderWay
  <2> QED
    BY <1>2, <2>1, <2>3, <2>4 DEF OneUnderWay
<1>6. CASE TimedOut
  <2>1. writer.retryCount < maxRetries
    BY DEF OneUnderWay
  <2>2. sumRetries' = sumRetries + 1
    BY <1>6, <2>1 DEF TimedOut, Retry
  <2> QED
    BY <2>2 DEF FirstTries, TypeInv, TypeOK
<1>7. CASE \E now \in 0 .. 9 : Wait(now)
  <2>1. PICK now \in 0 .. 9 : Wait(now)
    BY <1>7
  <2>2. CASE Finish("notWaited")
    <3>1. writer.packet \in 1 .. Packets
      <4>1. writer.pc = "lock"
        BY <2>1 DEF Wait
      <4>2. writer.packet # None /\ writer.packet # Ack
        BY <4>1 DEF TypeInv, WriterShape
      <4>3. writer.packet \in ToMote \cup {None}
        BY DEF TypeInv, TypeOK
      <4> QED
        BY <4>2, <4>3, PacketsAssumption DEF ToMote, Ack
    <3>2. outcome'[writer.packet] = "notWaited"
      BY <2>2, <3>1 DEF Finish, LeaveAs, TypeInv, TypeOK
    <3> QED
      BY <3>1, <3>2 DEF FirstTries
  <2>3. CASE writer' = [writer EXCEPT !.pc = "waiting"] /\ outcome' = outcome
    <3>1. /\ writer'.pc = "waiting" /\ writer'.packet = writer.packet
          /\ writer'.retryCount = writer.retryCount
      BY <2>3 DEF TypeInv, TypeOK
    <3> QED
      BY <1>2, <2>1, <2>3, <3>1 DEF Wait, WriterWaits, lines, OneUnderWay
  <2> QED
    BY <2>1, <2>2, <2>3 DEF Wait
<1> QED
  BY <1>3, <1>4, <1>5, <1>6, <1>7 DEF Writer

LEMMA MoteQuiet ==
    ASSUME TypeInv, WriteOrder, OneUnderWay, MoteReceives \/ MoteSends
    PROVE  OneUnderWay'
<1>1. UNCHANGED <<writer, outcome>>
  BY DEF MoteReceives, MoteSends, writeHist
<1>2. CASE MoteSends
  <2>1. UNCHANGED <<toMote, delivered>>
    BY <1>2 DEF MoteSends
  <2>2. /\ Has(fromMote', {Ack}) => Has(fromMote, {Ack})
        /\ Single(fromMote', {Ack})
    <3>1. moteSent + 1 \in Nat /\ moteSent + 1 \notin {Ack}
      BY DEF TypeInv, TypeOK, Ack
    <3>2. CASE fromMote' = Append(fromMote, moteSent + 1)
      BY <3>1, <3>2, Sequences, AppendHas DEF OneUnderWay
    <3> QED
      BY <1>2, <3>2 DEF MoteSends, MoteWrites, OneUnderWay
  <2> QED
    BY <1>1, <2>1, <2>2 DEF OneUnderWay
<1>3. CASE MoteReceives
  <2>1. PICK h : h = Head(toMote)
    OBVIOUS
  <2>2. toMote # <<>> /\ toMote' = Tail(toMote) /\ h \in Nat
    BY <1>3, <2>1, Sequences, Taken DEF MoteReceives
  <2>3. /\ Has(toMote', Packet) => Has(toMote, Packet)
        /\ Single(toMote', Packet)
        /\ h # Ack => Has(toMote, Packet) /\ ~Has(toMote', Packet)
    BY <2>1, <2>2, Sequences, TailHas DEF OneUnderWay, Packet
  <2>4. /\ Data(toMote') \subseteq {writer.packet}
        /\ h # Ack => h = writer.packet
    <3>1. Spaced(toMote, 0)
      BY DEF WriteOrder, WriteCut, WriteBuffers
    <3>2. Data(toMote) = Data(toMote') \cup ({h} \ {Ack})
      BY <2>1, <2>2, <3>1, Sequences, TailOrder
    <3> QED
      BY <3>2 DEF OneUnderWay
  <2>5. CASE UNCHANGED <<delivered, fromMote>>
    BY <1>1, <2>3, <2>4, <2>5 DEF OneUnderWay
  <2>6. CASE h # Ack /\ delivered' = Append(delivered, h) /\ MoteWrites(Ack)
    <3>1. Data(delivered') = Data(delivered) \cup {writer.packet}
      BY <2>2, <2>4, <2>6, Sequences, AppendOrder
    <3>2. ~Has(fromMote, {Ack}) /\ writer.pc \notin {"dequeue", "write", "woken"}
      BY <2>3, <2>6 DEF OneUnderWay
    <3>3. Single(fromMote', {Ack})
      <4>1. Ack \in Nat
        BY DEF Ack
      <4>2. CASE fromMote' = Append(fromMote, Ack)
        BY <3>2, <4>1, <4>2, Sequences, AppendHas DEF OneUnderWay
      <4> QED
        BY <2>6, <4>2 DEF MoteWrites, OneUnderWay
    <3> QED
      BY <1>1, <2>3, <2>4, <2>6, <3>1, <3>2, <3>3 DEF OneUnderWay
  <2> QED
    BY <1>3, <2>1, <2>5, <2>6 DEF MoteReceives
<1> QED
  BY <1>2, <1>3

LEMMA QuietStep ==
    ASSUME maxRetries > 0
    PROVE  TypeInv /\ WriteOrder /\ Quiet /\ [Next]_vars => Quiet'
<1> SUFFICES ASSUME TypeInv, WriteOrder, Quiet, [Next]_vars, FirstTries'
             PROVE  OneUnderWay'
  BY DEF Quiet
<1>1. OneUnderWay
  BY FirstTriesBefore DEF Quiet
<1>2. CASE UNCHANGED <<fromMote, toMote, delivered, outcome, writer>>
  BY <1>1, <1>2 DEF OneUnderWay
<1> QED
  BY <1>1, <1>2, ReadPacketQuiet, WriterQuiet, MoteQuiet
  DEF Next, vars, Reader, EnqueueAck, CheckFull, WhileFull, DropOldest, Put,
      ClientSends, TcpTakes, Clear, lines, writeHist

(***************************************************************************)
(* Frames carry no sequence numbers, any SF_ACK wakes the writer, and the  *)
(* signal is sent without ack.lock; yet as long as every wait has ended at *)
(* its first try a packet that counts as acknowledged has reached the      *)
(* mote.  That the code retries at all (maxRetries is 25) is used: with no *)
(* retry a packet given up at its first try would leave its                *)
(* acknowledgement to the next one.                                        *)
(***************************************************************************)
THEOREM NoSilentLossCorrect ==
    ASSUME maxRetries > 0
    PROVE  Spec => []NoSilentLoss
<1>1. Quiet => NoSilentLoss
  BY DEF Quiet, OneUnderWay, FirstTries, NoSilentLoss, Data, Contains
<1> QED
  BY <1>1, QuietInit, QuietStep, OrderCorrect, PTL DEF Spec
=============================================================================
