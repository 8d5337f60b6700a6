------------------------- MODULE PacketStreamProofs -------------------------
(***************************************************************************)
(* Proofs about PacketStream, for all sizes, times and numbers of packets: *)
(* types, that packets arrive whole and in order, and that a ping is       *)
(* answered in time.  The last two need the system to take a packet as a   *)
(* whole (RoomEnough), which the code takes for granted.                   *)
(***************************************************************************)
EXTENDS PacketStream, SequenceTheorems, TLAPS

Kinds == Packets \cup {Ping, Pong, Bye}

\* What e has not passed on yet.
Pipe(e) == socket[e].buffer \o stream[e]

\* Whatever is written fits.
RoomEnough ==
    \A e \in Ends : \A p \in Packets \cup {Ping, Pong} :
        Len(stream[e]) + Total(p) <= SystemBuffer

-----------------------------------------------------------------------------
(* Ends, packets and bytes *)

LEMMA EndsProperties ==
    ASSUME NEW e \in Ends
    PROVE  Other(e) \in Ends /\ Other(e) # e /\ Other(Other(e)) = e
           /\ \A f \in Ends : f = e \/ f = Other(e)
BY DEF Ends, Other

LEMMA KindProperties ==
    /\ \A p \in Kinds : p.size \in Nat /\ Total(p) \in Nat \ {0} /\ HeaderSize <= Total(p)
    /\ HeaderSize \in Nat \ {0}
    /\ \A p \in Packets : p.type = "packet" /\ p.id \in Nat \ {0}
    /\ Ping \notin Packets /\ Pong \notin Packets /\ Bye \notin Packets /\ Garbage \notin Kinds
    /\ Ping # Pong /\ Ping # Bye /\ Pong # Bye
<1>1. MaxSent["client"] \in Nat /\ MaxSent["server"] \in Nat
    BY TimesAssumption DEF Ends
<1>2. \A p \in Packets : p.type = "packet" /\ p.id \in Nat \ {0} /\ p.size \in Nat
    <2> TAKE p \in Packets
    <2>1. p.type = "packet" /\ p.size \in PacketSizes
        BY DEF Packets
    <2>2. p.id \in 1..(MaxSent["client"] + MaxSent["server"])
        BY DEF Packets
    <2>3. p.id \in Nat \ {0}
        BY <1>1, <2>2
    <2> QED BY <2>1, <2>3, SizesAssumption
<1>3. Ping.type = "ping" /\ Pong.type = "pong" /\ Bye.type = "bye" /\ Garbage.type = "garbage"
    BY DEF Ping, Pong, Bye, Garbage
<1>4. Ping.size \in Nat /\ Pong.size \in Nat /\ Bye.size \in Nat
    BY SizesAssumption DEF Ping, Pong, Bye
<1>5. HeaderSize \in Nat \ {0}
    BY SizesAssumption
<1>6. \A p \in Kinds : p.size \in Nat
    BY <1>2, <1>4 DEF Kinds
<1>7. \A p \in Kinds : Total(p) \in Nat \ {0} /\ HeaderSize <= Total(p)
    BY <1>5, <1>6 DEF Total
<1>8. Garbage \notin Kinds
    BY <1>2, <1>3 DEF Kinds
<1> QED BY <1>2, <1>3, <1>5, <1>6, <1>7, <1>8

LEMMA BytesProperties ==
    ASSUME NEW p \in Kinds
    PROVE  /\ Bytes(p) \in Seq(Byte)
           /\ Len(Bytes(p)) = Total(p)
           /\ \A i \in 1..Total(p) : Bytes(p)[i] = <<p, i>>
<1>1. Total(p) \in Nat
    BY KindProperties
<1>2. Bytes(p) \in [1..Total(p) -> Byte]
    BY <1>1 DEF Bytes, Byte, Kinds
<1>3. Bytes(p) \in Seq(Byte)
    BY <1>1, <1>2, SeqDef
<1>4. Len(Bytes(p)) = Total(p)
    BY <1>1, <1>2, <1>3, LenProperties
<1> QED BY <1>3, <1>4 DEF Bytes

\* A part of a sequence of bytes is one.
LEMMA PartIsSeq ==
    ASSUME NEW q \in Seq(Byte), NEW m \in Nat \ {0}, NEW n \in Int, n <= Len(q)
    PROVE  /\ SubSeq(q, m, n) \in Seq(Byte)
           /\ Len(SubSeq(q, m, n)) = IF m <= n THEN n - m + 1 ELSE 0
           /\ \A i \in 1..Len(SubSeq(q, m, n)) : SubSeq(q, m, n)[i] = q[m + i - 1]
<1>1. Len(q) \in Nat
    BY LenProperties
<1>2. \A i \in m..n : q[i] \in Byte
    BY <1>1, ElementOfSeq
<1> QED BY <1>1, <1>2, SubSeqProperties

LEMMA BytesAssociative == \A a, b, c \in Seq(Byte) : a \o (b \o c) = (a \o b) \o c
BY SMTT(20), ConcatAssociative

\* What is written of a packet, with room or without.
LEMMA WrittenProperties ==
    ASSUME NEW e \in Ends, NEW p \in Kinds, TypeOK
    PROVE  /\ Written(e, p) \in Seq(Byte)
           /\ Len(stream[Other(e)]) + Total(p) <= SystemBuffer => Written(e, p) = Bytes(p)
<1> DEFINE room == SystemBuffer - Len(stream[Other(e)])
           n == IF room < Total(p) THEN room ELSE Total(p)
<1>1. stream[Other(e)] \in Seq(Byte)
    BY EndsProperties DEF TypeOK
<1>2. Len(stream[Other(e)]) \in Nat /\ SystemBuffer \in Nat /\ Total(p) \in Nat
    BY <1>1, LenProperties, SizesAssumption, KindProperties
<1>3. n \in Int /\ n <= Total(p)
    BY <1>2
<1>4. Written(e, p) = SubSeq(Bytes(p), 1, n)
    BY DEF Written
<1> HIDE DEF n
<1>5. Written(e, p) \in Seq(Byte)
    BY <1>3, <1>4, BytesProperties, PartIsSeq
<1>6. ASSUME Len(stream[Other(e)]) + Total(p) <= SystemBuffer
      PROVE  Written(e, p) = Bytes(p)
    <2>1. n = Len(Bytes(p))
        BY <1>2, <1>6, BytesProperties DEF n
    <2> QED BY <1>4, <2>1, BytesProperties, SubSeqFull
<1> QED BY <1>5, <1>6

-----------------------------------------------------------------------------
(* Reading *)

Read(e, n) == Receive(MaybePingDo(e), SubSeq(stream[e], 1, n))

Rest(e, n) == SubSeq(stream[e], n + 1, Len(stream[e]))

LEMMA SocketTypes ==
    ASSUME NEW e \in Ends, TypeOK
    PROVE  /\ socket[e] \in Socket
           /\ socket[e].buffer \in Seq(Byte)
           /\ Len(socket[e].buffer) \in Nat
           /\ socket[e].age \in 0..(DisconnectAfter + 1)
           /\ socket[e].age \in Nat
           /\ socket[e].ping_needed \in BOOLEAN
           /\ socket[e].pong_needed \in BOOLEAN
           /\ socket[e].ping_sent \in BOOLEAN
           /\ stream[e] \in Seq(Byte)
           /\ Len(stream[e]) \in Nat
<1>1. socket[e] \in Socket /\ stream[e] \in Seq(Byte)
    BY DEF TypeOK
<1>2. /\ socket[e].buffer \in Seq(Byte)
      /\ socket[e].age \in 0..(DisconnectAfter + 1)
      /\ socket[e].ping_needed \in BOOLEAN
      /\ socket[e].pong_needed \in BOOLEAN
      /\ socket[e].ping_sent \in BOOLEAN
    BY <1>1 DEF Socket
<1>3. DisconnectAfter \in Nat
    BY TimesAssumption
<1>4. Len(socket[e].buffer) \in Nat /\ Len(stream[e]) \in Nat
    BY <1>1, <1>2, LenProperties
<1> QED BY <1>1, <1>2, <1>3, <1>4

\* What the socket is after a call of Receive, before a packet is taken.
LEMMA ReadProperties ==
    ASSUME NEW e \in Ends, TypeOK, NEW n \in 0..Len(stream[e])
    PROVE  /\ Read(e, n) \in [buffer : Seq(Byte), age : 0..(DisconnectAfter + 1),
                              ping_needed : BOOLEAN, pong_needed : BOOLEAN, ping_sent : BOOLEAN]
           /\ Rest(e, n) \in Seq(Byte)
           /\ Len(Read(e, n).buffer) = Len(socket[e].buffer) + n
           /\ Read(e, n).buffer \o Rest(e, n) = Pipe(e)
           /\ n = 0 => Read(e, n).buffer = socket[e].buffer
           /\ Read(e, n).age = IF n = 0 THEN socket[e].age ELSE 0
           /\ Read(e, n).ping_sent = (socket[e].ping_sent \/ SendsPing(e))
           /\ Read(e, n).pong_needed = (n = 0 /\ socket[e].pong_needed /\ ~SendsPong(e))
           /\ Read(e, n).ping_needed =
                 (n = 0 /\ (socket[e].ping_needed
                            \/ (socket[e].age > SendPingAfter /\ ~Read(e, n).ping_sent)))
<1> DEFINE new == SubSeq(stream[e], 1, n)
           buffer == socket[e].buffer
<1>1. buffer \in Seq(Byte) /\ stream[e] \in Seq(Byte) /\ Len(stream[e]) \in Nat /\ n \in Nat
    BY SocketTypes
<1>2. new \in Seq(Byte) /\ Len(new) = n
    BY <1>1, PartIsSeq
<1>3. new = <<>> <=> n = 0
    BY <1>2, EmptySeq
<1>4. Rest(e, n) \in Seq(Byte)
    BY <1>1, PartIsSeq DEF Rest
<1>5. new \o Rest(e, n) = stream[e]
    <2>1. 1 \in 1..(Len(stream[e]) + 1) /\ n \in (1 - 1)..Len(stream[e])
          /\ Len(stream[e]) \in n..Len(stream[e])
        BY <1>1
    <2>2. new \o Rest(e, n) = SubSeq(stream[e], 1, Len(stream[e]))
        BY <1>1, <2>1, ConcatAdjacentSubSeq DEF Rest
    <2> QED BY <1>1, <2>2, SubSeqFull
<1>6. MaybePingDo(e) \in Socket
      /\ MaybePingDo(e).buffer = buffer
      /\ MaybePingDo(e).age = socket[e].age
      /\ MaybePingDo(e).ping_needed = socket[e].ping_needed
      /\ MaybePingDo(e).ping_sent = (socket[e].ping_sent \/ SendsPing(e))
      /\ MaybePingDo(e).pong_needed = (socket[e].pong_needed /\ ~SendsPong(e))
    BY SocketTypes DEF MaybePingDo, Socket
<1> HIDE DEF new, buffer
<1>7. Read(e, n) = Receive(MaybePingDo(e), new)
    BY DEF Read, new
<1>8. buffer \o new \in Seq(Byte) /\ Len(buffer \o new) = Len(buffer) + n
    BY <1>1, <1>2, ConcatProperties
<1>9. 0 \in 0..(DisconnectAfter + 1)
    BY TimesAssumption
<1>10. CASE n = 0
    <2> DEFINE t == MaybePingDo(e)
    <2>1. Read(e, n) = [t EXCEPT !.ping_needed = @ \/ (t.age > SendPingAfter /\ ~t.ping_sent)]
        BY <1>3, <1>7, <1>10 DEF Receive
    <2> HIDE DEF t
    <2>2. /\ Read(e, n) \in Socket
          /\ Read(e, n).buffer = t.buffer /\ Read(e, n).age = t.age
          /\ Read(e, n).ping_sent = t.ping_sent /\ Read(e, n).pong_needed = t.pong_needed
          /\ Read(e, n).ping_needed = (t.ping_needed \/ (t.age > SendPingAfter /\ ~t.ping_sent))
        BY <1>6, <2>1 DEF Socket, t
    <2>3. Rest(e, n) = stream[e]
        BY <1>1, <1>10, SubSeqFull DEF Rest
    <2>4. Read(e, n).buffer \o Rest(e, n) = Pipe(e)
        BY <1>6, <2>2, <2>3 DEF Pipe, t, buffer
    <2>5. Len(Read(e, n).buffer) = Len(socket[e].buffer) + n
        BY <1>6, <1>10, <2>2, SocketTypes DEF t, buffer
    <2> QED BY <1>4, <1>6, <1>10, <2>2, <2>4, <2>5 DEF t, buffer, Socket
<1>11. CASE n # 0
    <2> DEFINE t == MaybePingDo(e)
    <2>1. Read(e, n) = [t EXCEPT !.buffer = @ \o new, !.age = 0,
                                 !.ping_needed = FALSE, !.pong_needed = FALSE]
        BY <1>3, <1>7, <1>11 DEF Receive
    <2> HIDE DEF t
    <2>2. /\ Read(e, n) \in Socket
          /\ Read(e, n).buffer = buffer \o new /\ Read(e, n).age = 0
          /\ Read(e, n).ping_sent = t.ping_sent /\ Read(e, n).pong_needed = FALSE
          /\ Read(e, n).ping_needed = FALSE
        BY <1>6, <1>8, <1>9, <2>1 DEF Socket, t
    <2>3. (buffer \o new) \o Rest(e, n) = buffer \o (new \o Rest(e, n))
        BY SMTT(20), <1>1, <1>2, <1>4, ConcatAssociative
    <2>4. Read(e, n).buffer \o Rest(e, n) = Pipe(e)
        BY <1>5, <2>2, <2>3 DEF Pipe, buffer
    <2>5. Len(Read(e, n).buffer) = Len(socket[e].buffer) + n
        BY <1>8, <2>2 DEF buffer
    <2> QED BY <1>4, <1>6, <1>11, <2>2, <2>4, <2>5 DEF t, Socket
<1> QED BY <1>10, <1>11

\* What is taken off the socket: a packet or nothing.
LEMMA TakenProperties ==
    ASSUME NEW e \in Ends, TypeOK, NEW n \in 0..Len(stream[e]), IsWhole(Read(e, n))
    PROVE  LET s == Read(e, n)
               p == s.buffer[1][1] IN
           /\ p \in Kinds /\ s.buffer # <<>>
           /\ Total(p) \in Nat \ {0} /\ Total(p) <= Len(s.buffer)
           /\ FirstPacket(s) = p \/ FirstPacket(s) = Garbage
           /\ WithoutFirst(s) \in Seq(Byte)
           /\ Len(WithoutFirst(s)) = Len(s.buffer) - Total(p)
<1> DEFINE s == Read(e, n)
           p == s.buffer[1][1]
<1>1. s.buffer \in Seq(Byte) /\ Len(s.buffer) \in Nat
    BY ReadProperties, LenProperties
<1>2. Len(s.buffer) >= HeaderSize /\ Len(s.buffer) >= Total(p)
    BY DEF IsWhole
<1>3. 1 \in 1..Len(s.buffer)
    BY <1>1, <1>2, KindProperties
<1>4. s.buffer[1] \in Kinds \X Nat
    BY <1>1, <1>3, ElementOfSeq DEF Byte, Kinds
<1>5. p \in Kinds
    BY <1>4
<1>6. s.buffer # <<>>
    BY <1>1, <1>3, EmptySeq
<1>7. FirstPacket(s) = p \/ FirstPacket(s) = Garbage
    BY DEF FirstPacket
<1>8. WithoutFirst(s) = SubSeq(s.buffer, Total(p) + 1, Len(s.buffer))
    BY DEF WithoutFirst
<1> HIDE DEF s, p
<1>9. Total(p) \in Nat \ {0}
    BY <1>5, KindProperties
<1>10. WithoutFirst(s) \in Seq(Byte) /\ Len(WithoutFirst(s)) = Len(s.buffer) - Total(p)
    BY <1>1, <1>2, <1>8, <1>9, PartIsSeq
<1> QED BY <1>2, <1>5, <1>6, <1>7, <1>9, <1>10 DEF s, p

-----------------------------------------------------------------------------
(* Types *)

LEMMA NewSocketType == NewSocket \in Socket /\ Len(NewSocket.buffer) = 0
<1>1. <<>> \in Seq(Byte) /\ Len(<<>>) = 0
    BY EmptySeq
<1>2. 0 \in 0..(DisconnectAfter + 1)
    BY TimesAssumption
<1> QED BY <1>1, <1>2 DEF NewSocket, Socket

LEMMA InitTypes == Init => TypeOK
<1> SUFFICES ASSUME Init
             PROVE  TypeOK
    OBVIOUS
<1>1. <<>> \in Seq(Byte) /\ <<>> \in Seq(Packets) /\ <<>> \in Seq(Packets \cup {Garbage})
    BY EmptySeq
<1>2. BufferSize \in Nat
    BY SizesAssumption
<1>3. \A e \in Ends : Len(socket[e].buffer) <= BufferSize
    BY <1>2, NewSocketType DEF Init
<1> QED BY <1>1, <1>3, NewSocketType DEF Init, TypeOK

\* What is left of a sequence of bytes of which any end may be dropped.
LEMMA PrefixTypes ==
    ASSUME NEW q \in Seq(Byte)
    PROVE  \A rest \in Prefixes(q) : rest \in Seq(Byte)
<1>1. Len(q) \in Nat
    BY LenProperties
<1>2. ASSUME NEW n \in 0..Len(q)
      PROVE  SubSeq(q, 1, n) \in Seq(Byte)
    BY <1>1, PartIsSeq
<1> QED BY <1>2 DEF Prefixes

LEMMA ClosedTypes ==
    ASSUME NEW e \in Ends, NEW out \in Seq(Byte), TypeOK, CloseSocket(e, out)
    PROVE  /\ socket' \in [Ends -> Socket]
           /\ \A f \in Ends : Len(socket'[f].buffer) <= BufferSize
           /\ open' \in [Ends -> BOOLEAN]
           /\ stream' \in [Ends -> Seq(Byte)]
           /\ reset' \in [Ends -> BOOLEAN]
<1>1. socket' = [socket EXCEPT ![e] = NewSocket] /\ socket \in [Ends -> Socket]
    BY DEF CloseSocket, TypeOK
<1>2. socket' \in [Ends -> Socket]
    BY <1>1, NewSocketType
<1>3. \A f \in Ends : Len(socket'[f].buffer) <= BufferSize
    BY <1>1, NewSocketType, SizesAssumption DEF TypeOK
<1>4. stream[Other(e)] \in Seq(Byte) /\ Bytes(Bye) \in Seq(Byte) /\ <<>> \in Seq(Byte)
    BY EndsProperties, BytesProperties, EmptySeq DEF TypeOK, Kinds
<1>5. stream[Other(e)] \o out \o Bytes(Bye) \in Seq(Byte)
    BY <1>4, ConcatProperties
<1>6. PICK rest \in Prefixes(stream[Other(e)] \o out \o Bytes(Bye)) :
        stream' = [stream EXCEPT ![e] = <<>>,
                                 ![Other(e)] = IF Runs(Other(e)) THEN rest ELSE <<>>]
    BY DEF CloseSocket
<1>7. rest \in Seq(Byte)
    BY <1>5, PrefixTypes
<1>8. stream' \in [Ends -> Seq(Byte)]
    BY <1>4, <1>6, <1>7 DEF TypeOK
<1>9. open' \in [Ends -> BOOLEAN] /\ reset' \in [Ends -> BOOLEAN]
    BY DEF CloseSocket, TypeOK
<1> QED BY <1>2, <1>3, <1>8, <1>9

LEMMA WriteTypes ==
    ASSUME TypeOK, NEW e \in Ends, NEW size \in PacketSizes, WriteToSocket(e, size)
    PROVE  /\ TypeOK'
           /\ [type |-> "packet", id |-> Len(sent[e]) + 1, size |-> size] \in Packets
<1> DEFINE p == [type |-> "packet", id |-> Len(sent[e]) + 1, size |-> size]
<1>1. sent[e] \in Seq(Packets) /\ stream[Other(e)] \in Seq(Byte)
    BY EndsProperties DEF TypeOK
<1>2. Len(sent[e]) \in Nat /\ Len(sent[e]) < MaxSent[e]
    BY <1>1, LenProperties DEF WriteToSocket
<1>3. MaxSent["client"] \in Nat /\ MaxSent["server"] \in Nat
    BY TimesAssumption DEF Ends
<1>4. Len(sent[e]) + 1 \in 1..(MaxSent["client"] + MaxSent["server"])
    <2>1. CASE e = "client"
        BY <1>2, <1>3, <2>1
    <2>2. CASE e = "server"
        BY <1>2, <1>3, <2>2
    <2> QED BY <2>1, <2>2 DEF Ends
<1>5. p \in Packets
    BY <1>4 DEF Packets
<1>6. sent' = [sent EXCEPT ![e] = Append(@, p)] /\ stream' = Sent(e, Written(e, p))
    BY DEF WriteToSocket
<1> HIDE DEF p
<1>7. Append(sent[e], p) \in Seq(Packets)
    BY <1>1, <1>5, AppendProperties
<1>8. sent' \in [Ends -> Seq(Packets)]
    BY <1>6, <1>7 DEF TypeOK
<1>9. Written(e, p) \in Seq(Byte)
    BY <1>5, WrittenProperties DEF Kinds
<1>10. stream[Other(e)] \o Written(e, p) \in Seq(Byte)
    BY <1>1, <1>9, ConcatProperties
<1>11. stream' \in [Ends -> Seq(Byte)]
    BY <1>6, <1>10, EndsProperties DEF Sent, TypeOK
<1> QED BY <1>5, <1>8, <1>11 DEF WriteToSocket, TypeOK, p

LEMMA PingOrPongType ==
    ASSUME TypeOK, NEW e \in Ends
    PROVE  PingOrPong(e) \in Seq(Byte)
<1>1. <<>> \in Seq(Byte)
    BY EmptySeq
<1>2. Written(e, Ping) \in Seq(Byte) /\ Written(e, Pong) \in Seq(Byte)
    BY WrittenProperties DEF Kinds
<1> QED BY <1>1, <1>2 DEF PingOrPong

\* Iterate, by what it reads.
LEMMA IterateCases ==
    ASSUME TypeOK, NEW e \in Ends, NEW n \in 0..Len(stream[e]), Iterate(e, n)
    PROVE  LET s == Read(e, n)
               p == FirstPacket(s) IN
           \/ /\ IsWhole(s) /\ p = Bye
              /\ CloseSocket(e, PingOrPong(e))
              /\ received' = received
           \/ /\ ~(IsWhole(s) /\ p = Bye)
              /\ socket' = [socket EXCEPT ![e] = IF IsWhole(s) THEN Processed(s, p) ELSE s]
              /\ received' = [received EXCEPT ![e] =
                        IF IsWhole(s) /\ p \notin {Ping, Pong} THEN Append(@, p) ELSE @]
              /\ stream' = [Sent(e, PingOrPong(e)) EXCEPT ![e] = Rest(e, n)]
              /\ open' = open /\ reset' = reset
BY DEF Iterate, Read, Rest

LEMMA IterateTypes ==
    ASSUME TypeOK, NEW e \in Ends, NEW n \in 0..Len(stream[e]), Iterate(e, n)
    PROVE  TypeOK'
<1> DEFINE s == Read(e, n)
           p == FirstPacket(s)
           t == IF IsWhole(s) THEN Processed(s, p) ELSE s
<1>1. /\ alive' = alive /\ sent' = sent /\ timed_out' = timed_out
      /\ iterated' = [iterated EXCEPT ![e] = TRUE]
    BY DEF Iterate
<1>2. CASE CloseSocket(e, PingOrPong(e)) /\ received' = received
    BY <1>1, <1>2, ClosedTypes, PingOrPongType DEF TypeOK
<1>3. CASE /\ ~(IsWhole(s) /\ p = Bye)
           /\ socket' = [socket EXCEPT ![e] = t]
           /\ received' = [received EXCEPT ![e] =
                 IF IsWhole(s) /\ p \notin {Ping, Pong} THEN Append(@, p) ELSE @]
           /\ stream' = [Sent(e, PingOrPong(e)) EXCEPT ![e] = Rest(e, n)]
           /\ open' = open /\ reset' = reset
    <2>1. s \in Socket
        BY ReadProperties DEF Socket
    <2>2. Len(s.buffer) <= BufferSize
        <3>1. n <= CanReceive(e) /\ BufferSize \in Nat
            BY SizesAssumption DEF Iterate
        <3>2. Len(socket[e].buffer) <= BufferSize /\ Len(socket[e].buffer) \in Nat
              /\ Len(stream[e]) \in Nat
            BY SocketTypes DEF TypeOK
        <3> QED BY SMTT(20), <3>1, <3>2, ReadProperties DEF CanReceive, Least
    <2>3. ASSUME IsWhole(s)
          PROVE  /\ Processed(s, p) \in Socket
                 /\ Len(Processed(s, p).buffer) <= BufferSize
                 /\ p \notin {Ping, Pong} => p \in Packets \cup {Garbage}
        <3>1. WithoutFirst(s) \in Seq(Byte) /\ Len(WithoutFirst(s)) <= BufferSize
            BY <2>2, <2>3, TakenProperties, SizesAssumption, ReadProperties, LenProperties
        <3>2. p \in Kinds \cup {Garbage}
            BY <2>3, TakenProperties
        <3> HIDE DEF s, p
        <3>3. Processed(s, p) \in Socket /\ Processed(s, p).buffer = WithoutFirst(s)
            BY <2>1, <3>1 DEF Processed, Socket
        <3> QED BY <1>3, <2>3, <3>1, <3>2, <3>3 DEF Kinds
    <2>4. t \in Socket /\ Len(t.buffer) <= BufferSize
        BY <2>1, <2>2, <2>3
    <2> HIDE DEF t
    <2>5. socket' \in [Ends -> Socket] /\ \A f \in Ends : Len(socket'[f].buffer) <= BufferSize
        BY <1>3, <2>4 DEF TypeOK
    <2>6. received' \in [Ends -> Seq(Packets \cup {Garbage})]
        <3>1. received[e] \in Seq(Packets \cup {Garbage})
            BY DEF TypeOK
        <3>2. CASE IsWhole(s) /\ p \notin {Ping, Pong}
            <4>1. Append(received[e], p) \in Seq(Packets \cup {Garbage})
                BY <2>3, <3>1, <3>2, AppendProperties
            <4> QED BY <1>3, <3>2, <4>1 DEF TypeOK
        <3>3. CASE ~(IsWhole(s) /\ p \notin {Ping, Pong})
            BY <1>3, <3>3 DEF TypeOK
        <3> QED BY <3>2, <3>3
    <2>7. Sent(e, PingOrPong(e)) \in [Ends -> Seq(Byte)]
        <3>1. stream[Other(e)] \in Seq(Byte)
            BY EndsProperties DEF TypeOK
        <3>2. stream[Other(e)] \o PingOrPong(e) \in Seq(Byte)
            BY <3>1, PingOrPongType, ConcatProperties
        <3> QED BY <3>2, EndsProperties DEF Sent, TypeOK
    <2>8. stream' \in [Ends -> Seq(Byte)]
        BY <1>3, <2>7, ReadProperties
    <2> QED BY <1>1, <1>3, <2>5, <2>6, <2>8 DEF TypeOK
<1> QED BY <1>2, <1>3, IterateCases

LEMMA TickTypes ==
    ASSUME TypeOK, Tick
    PROVE  TypeOK'
<1>1. ASSUME NEW e \in Ends
      PROVE  [socket[e] EXCEPT !.age = Least(@ + 1, DisconnectAfter + 1)] \in Socket
             /\ [socket[e] EXCEPT !.age = Least(@ + 1, DisconnectAfter + 1)].buffer = socket[e].buffer
    <2>1. Least(socket[e].age + 1, DisconnectAfter + 1) \in 0..(DisconnectAfter + 1)
        BY SocketTypes, TimesAssumption DEF Least
    <2> QED BY <2>1, SocketTypes DEF Socket
<1>2. socket' \in [Ends -> Socket] /\ \A e \in Ends : Len(socket'[e].buffer) <= BufferSize
    BY <1>1 DEF Tick, TypeOK
<1> QED BY <1>2 DEF Tick, TypeOK, historyVars

LEMMA VanishTypes ==
    ASSUME TypeOK, NEW e \in Ends, Vanish(e)
    PROVE  TypeOK'
<1>1. stream[Other(e)] \in Seq(Byte) /\ <<>> \in Seq(Byte)
    BY EndsProperties, EmptySeq DEF TypeOK
<1>2. PICK rest \in Prefixes(stream[Other(e)]) :
        stream' = [stream EXCEPT ![e] = <<>>, ![Other(e)] = rest]
    BY DEF Vanish
<1>3. stream' \in [Ends -> Seq(Byte)]
    BY <1>1, <1>2, PrefixTypes DEF TypeOK
<1> QED BY <1>3 DEF Vanish, TypeOK, historyVars

LEMMA StepTypes == TypeOK /\ [Next]_vars => TypeOK'
<1> SUFFICES ASSUME TypeOK, [Next]_vars
             PROVE  TypeOK'
    OBVIOUS
<1>1. <<>> \in Seq(Byte)
    BY EmptySeq
<1>2. ASSUME NEW e \in Ends, NEW size \in PacketSizes, WriteToSocket(e, size)
      PROVE  TypeOK'
    BY <1>2, WriteTypes
<1>3. ASSUME NEW e \in Ends, IterateSome(e)
      PROVE  TypeOK'
    BY <1>3, IterateTypes DEF IterateSome
<1>4. ASSUME NEW e \in Ends, PingTimeout(e)
      PROVE  TypeOK'
    <2>1. CloseSocket(e, <<>>)
        BY <1>4 DEF PingTimeout
    <2> QED BY <1>1, <1>4, <2>1, ClosedTypes DEF PingTimeout, TypeOK
<1>5. ASSUME NEW e \in Ends, Fail(e) \/ Disconnect(e)
      PROVE  TypeOK'
    <2>1. CloseSocket(e, <<>>) /\ UNCHANGED <<alive, historyVars, iterated>>
        BY <1>5 DEF Fail, Disconnect
    <2> QED BY <1>1, <2>1, ClosedTypes DEF TypeOK, historyVars
<1>6. ASSUME NEW e \in Ends, Vanish(e)
      PROVE  TypeOK'
    BY <1>6, VanishTypes
<1>7. CASE UNCHANGED vars
    BY <1>7 DEF vars, historyVars, TypeOK
<1> QED BY <1>2, <1>3, <1>4, <1>5, <1>6, <1>7, TickTypes DEF Next

\* No buffer overflows, no time leaves its bounds, and what is passed on is a
\* packet or what is taken for one.
THEOREM TypeCorrect == Spec => []TypeOK
<1>1. Init => TypeOK
    BY InitTypes
<1>2. TypeOK /\ [Next]_vars => TypeOK'
    BY StepTypes
<1> QED BY <1>1, <1>2, PTL DEF Spec

-----------------------------------------------------------------------------
(* Packets in a sequence of bytes *)

Starts(q, k, p) == k \in 1..Len(q) /\ q[k] = <<p, 1>>

Has(q, p) == \E k \in 1..Len(q) : Starts(q, k, p)

\* Packet after packet, whole but for the last one.
Framed(q) ==
    \A k \in 1..Len(q) :
        LET p == q[k][1]
            i == q[k][2] IN
        /\ i \in 1..Total(p) /\ i <= k
        /\ \A j \in 1..Total(p) : k - i + j <= Len(q) => q[k - i + j] = <<p, j>>
        /\ k - i + Total(p) + 1 <= Len(q) => q[k - i + Total(p) + 1][2] = 1

\* The last one is whole too.
Ended(q) == \A k \in 1..Len(q) : k - q[k][2] + Total(q[k][1]) <= Len(q)

\* The packets in q are those of s after the first n, from the next one on.
InOrder(q, n, s) ==
    \A k \in 1..Len(q) : \A p \in Packets :
        Starts(q, k, p) =>
            /\ p.id \in (n + 1)..Len(s) /\ s[p.id] = p
            /\ \A m \in (n + 1)..(p.id - 1) : \E j \in 1..(k - 1) : Starts(q, j, s[m])
            /\ \A j \in 1..(k - 1) : \A other \in Packets :
                  Starts(q, j, other) => other.id < p.id

\* The ids are the positions.
Numbered(s) == \A m \in 1..Len(s) : s[m].id = m

\* None of them is missing.
Present(q, n, s) == \A m \in (n + 1)..Len(s) : Has(q, s[m])

LEMMA ByteProperties ==
    ASSUME NEW q \in Seq(Byte), NEW k \in 1..Len(q)
    PROVE  /\ q[k] = <<q[k][1], q[k][2]>>
           /\ q[k][1] \in Kinds /\ q[k][2] \in Nat
           /\ Total(q[k][1]) \in Nat \ {0}
<1>1. q[k] \in Kinds \X Nat
    BY ElementOfSeq DEF Byte, Kinds
<1> QED BY <1>1, KindProperties

\* Nothing, and the start of a sequence, are framed.
LEMMA EmptyIsFramed ==
    ASSUME NEW n \in Nat, NEW s, Len(s) \in Nat, Len(s) <= n
    PROVE  Framed(<<>>) /\ Ended(<<>>) /\ InOrder(<<>>, n, s) /\ Present(<<>>, n, s)
<1>1. Len(<<>>) = 0
    BY EmptySeq
<1> QED BY <1>1 DEF Framed, Ended, InOrder, Present

LEMMA PrefixProperties ==
    ASSUME NEW q \in Seq(Byte), NEW rest \in Prefixes(q)
    PROVE  /\ rest \in Seq(Byte) /\ Len(rest) <= Len(q) /\ Len(rest) \in Nat
           /\ \A i \in 1..Len(rest) : i \in 1..Len(q) /\ rest[i] = q[i]
<1>1. PICK n \in 0..Len(q) : rest = SubSeq(q, 1, n)
    BY DEF Prefixes
<1>2. Len(q) \in Nat /\ n \in Int /\ n <= Len(q)
    BY <1>1, LenProperties
<1>3. rest \in Seq(Byte) /\ Len(rest) = n /\ \A i \in 1..Len(rest) : rest[i] = q[1 + i - 1]
    BY <1>1, <1>2, PartIsSeq
<1> QED BY <1>2, <1>3

LEMMA PrefixKeeps ==
    ASSUME NEW q \in Seq(Byte), NEW rest \in Prefixes(q),
           NEW n \in Nat, NEW s \in Seq(Packets)
    PROVE  /\ Framed(q) => Framed(rest)
           /\ InOrder(q, n, s) => InOrder(rest, n, s)
<1>1. /\ rest \in Seq(Byte) /\ Len(rest) <= Len(q) /\ Len(rest) \in Nat /\ Len(q) \in Nat
      /\ \A i \in 1..Len(rest) : i \in 1..Len(q) /\ rest[i] = q[i]
    BY PrefixProperties, LenProperties
<1>2. ASSUME Framed(q)
      PROVE  Framed(rest)
    <2> SUFFICES ASSUME NEW k \in 1..Len(rest)
                 PROVE  LET p == rest[k][1]
                            i == rest[k][2] IN
                        /\ i \in 1..Total(p) /\ i <= k
                        /\ \A j \in 1..Total(p) :
                              k - i + j <= Len(rest) => rest[k - i + j] = <<p, j>>
                        /\ k - i + Total(p) + 1 <= Len(rest) =>
                              rest[k - i + Total(p) + 1][2] = 1
        BY DEF Framed
    <2> DEFINE p == q[k][1]
               i == q[k][2]
    <2>1. k \in 1..Len(q) /\ rest[k] = q[k] /\ Total(p) \in Nat \ {0} /\ i \in Nat
        BY <1>1, ByteProperties
    <2>2. /\ i \in 1..Total(p) /\ i <= k
          /\ \A j \in 1..Total(p) : k - i + j <= Len(q) => q[k - i + j] = <<p, j>>
          /\ k - i + Total(p) + 1 <= Len(q) => q[k - i + Total(p) + 1][2] = 1
        BY <1>2, <2>1 DEF Framed
    <2> HIDE DEF p, i
    <2>3. ASSUME NEW j \in 1..Total(p), k - i + j <= Len(rest)
          PROVE  rest[k - i + j] = <<p, j>>
        <3>1. k - i + j \in 1..Len(rest)
            BY <1>1, <2>1, <2>2, <2>3
        <3> QED BY <1>1, <2>2, <2>3, <3>1
    <2>4. ASSUME k - i + Total(p) + 1 <= Len(rest)
          PROVE  rest[k - i + Total(p) + 1][2] = 1
        <3>1. k - i + Total(p) + 1 \in 1..Len(rest)
            BY <1>1, <2>1, <2>2, <2>4
        <3> QED BY <1>1, <2>2, <2>4, <3>1
    <2> QED BY <2>1, <2>2, <2>3, <2>4 DEF p, i
<1>3. ASSUME InOrder(q, n, s)
      PROVE  InOrder(rest, n, s)
    <2> SUFFICES ASSUME NEW k \in 1..Len(rest), NEW p \in Packets, Starts(rest, k, p)
                 PROVE  /\ p.id \in (n + 1)..Len(s) /\ s[p.id] = p
                        /\ \A m \in (n + 1)..(p.id - 1) :
                              \E j \in 1..(k - 1) : Starts(rest, j, s[m])
                        /\ \A j \in 1..(k - 1) : \A other \in Packets :
                              Starts(rest, j, other) => other.id < p.id
        BY DEF InOrder
    <2>1. \A j \in 1..k : j \in 1..Len(rest) /\ j \in 1..Len(q)
        BY <1>1
    <2>2. \A j \in 1..k : \A other : Starts(rest, j, other) <=> Starts(q, j, other)
        BY <1>1, <2>1 DEF Starts
    <2>3. k \in 1..k /\ \A j \in 1..(k - 1) : j \in 1..k
        BY <1>1
    <2>4. Starts(q, k, p) /\ k \in 1..Len(q)
        BY <2>1, <2>2, <2>3
    <2>5. /\ p.id \in (n + 1)..Len(s) /\ s[p.id] = p
          /\ \A m \in (n + 1)..(p.id - 1) : \E j \in 1..(k - 1) : Starts(q, j, s[m])
          /\ \A j \in 1..(k - 1) : \A other \in Packets :
                Starts(q, j, other) => other.id < p.id
        BY <1>3, <2>4 DEF InOrder
    <2> QED BY <2>2, <2>3, <2>5
<1> QED BY <1>2, <1>3

LEMMA ExtendedProperties ==
    ASSUME NEW q \in Seq(Byte), NEW p \in Kinds
    PROVE  /\ q \o Bytes(p) \in Seq(Byte)
           /\ Len(q) \in Nat /\ Len(q \o Bytes(p)) = Len(q) + Total(p)
           /\ \A i \in 1..Len(q) : (q \o Bytes(p))[i] = q[i]
           /\ \A i \in 1..Total(p) : (q \o Bytes(p))[Len(q) + i] = <<p, i>>
           /\ \A k \in 1..Len(q \o Bytes(p)) :
                 k \in 1..Len(q) \/ \E i \in 1..Total(p) : k = Len(q) + i
           /\ \A k \in 1..Len(q) : k \in 1..Len(q \o Bytes(p))
<1>1. Bytes(p) \in Seq(Byte) /\ Len(Bytes(p)) = Total(p)
      /\ \A i \in 1..Total(p) : Bytes(p)[i] = <<p, i>>
    BY BytesProperties
<1>2. Len(q) \in Nat /\ Total(p) \in Nat
    BY LenProperties, KindProperties
<1>3. /\ q \o Bytes(p) \in Seq(Byte) /\ Len(q \o Bytes(p)) = Len(q) + Total(p)
      /\ \A i \in 1..(Len(q) + Total(p)) :
            (q \o Bytes(p))[i] = IF i <= Len(q) THEN q[i] ELSE Bytes(p)[i - Len(q)]
    BY <1>1, ConcatProperties
<1>4. \A i \in 1..Total(p) : (q \o Bytes(p))[Len(q) + i] = <<p, i>>
    <2> TAKE i \in 1..Total(p)
    <2>1. Len(q) + i \in 1..(Len(q) + Total(p)) /\ ~(Len(q) + i <= Len(q))
          /\ Len(q) + i - Len(q) = i
        BY <1>2
    <2> QED BY <1>1, <1>3, <2>1
<1>5. \A k \in 1..(Len(q) + Total(p)) : k \in 1..Len(q) \/ \E i \in 1..Total(p) : k = Len(q) + i
    <2> TAKE k \in 1..(Len(q) + Total(p))
    <2>1. CASE k <= Len(q)
        BY <1>2, <2>1
    <2>2. CASE ~(k <= Len(q))
        <3>1. k - Len(q) \in 1..Total(p) /\ k = Len(q) + (k - Len(q))
            BY <1>2, <2>2
        <3> QED BY <3>1
    <2> QED BY <2>1, <2>2
<1>6. \A k \in 1..Len(q) : k \in 1..(Len(q) + Total(p)) /\ k <= Len(q)
    BY <1>2
<1> QED BY <1>2, <1>3, <1>4, <1>5, <1>6

\* Another packet goes after the last one.
LEMMA ExtendedIsFramed ==
    ASSUME NEW q \in Seq(Byte), NEW p \in Kinds, Framed(q), Ended(q)
    PROVE  Framed(q \o Bytes(p)) /\ Ended(q \o Bytes(p))
<1> DEFINE x == q \o Bytes(p)
<1>1. /\ x \in Seq(Byte)
      /\ Len(q) \in Nat /\ Len(x) = Len(q) + Total(p)
      /\ \A i \in 1..Len(q) : x[i] = q[i]
      /\ \A i \in 1..Total(p) : x[Len(q) + i] = <<p, i>>
      /\ \A k \in 1..Len(x) : k \in 1..Len(q) \/ \E i \in 1..Total(p) : k = Len(q) + i
    BY ExtendedProperties
<1>2. Total(p) \in Nat \ {0}
    BY KindProperties
<1> HIDE DEF x
<1>3. ASSUME NEW k \in 1..Len(x)
      PROVE  LET r == x[k][1]
                 i == x[k][2] IN
             /\ i \in 1..Total(r) /\ i <= k
             /\ \A j \in 1..Total(r) : k - i + j <= Len(x) => x[k - i + j] = <<r, j>>
             /\ k - i + Total(r) + 1 <= Len(x) => x[k - i + Total(r) + 1][2] = 1
             /\ k - i + Total(r) <= Len(x)
    <2>1. CASE k \in 1..Len(q)
        <3> DEFINE r == q[k][1]
                   i == q[k][2]
        <3>1. x[k] = q[k] /\ Total(r) \in Nat \ {0} /\ i \in Nat
            BY <1>1, <2>1, ByteProperties
        <3>2. /\ i \in 1..Total(r) /\ i <= k
              /\ \A j \in 1..Total(r) : k - i + j <= Len(q) => q[k - i + j] = <<r, j>>
              /\ k - i + Total(r) + 1 <= Len(q) => q[k - i + Total(r) + 1][2] = 1
            BY <2>1 DEF Framed
        <3>3. k - i + Total(r) <= Len(q)
            BY <2>1 DEF Ended
        <3> HIDE DEF r, i
        <3>4. ASSUME NEW j \in 1..Total(r)
              PROVE  x[k - i + j] = <<r, j>>
            <4>1. k - i + j <= Len(q) /\ k - i + j \in 1..Len(q)
                BY <1>1, <2>1, <3>1, <3>2, <3>3
            <4> QED BY <1>1, <3>2, <4>1
        <3>5. x[k - i + Total(r) + 1][2] = 1
            <4>1. CASE k - i + Total(r) + 1 <= Len(q)
                <5>1. k - i + Total(r) + 1 \in 1..Len(q)
                    BY <1>1, <2>1, <3>1, <3>2, <4>1
                <5> QED BY <1>1, <3>2, <4>1, <5>1
            <4>2. CASE ~(k - i + Total(r) + 1 <= Len(q))
                <5>1. k - i + Total(r) + 1 = Len(q) + 1
                    BY <1>1, <2>1, <3>1, <3>2, <3>3, <4>2
                <5>2. 1 \in 1..Total(p)
                    BY <1>2
                <5>3. x[Len(q) + 1] = <<p, 1>>
                    BY <1>1, <5>2
                <5> QED BY <5>1, <5>3
            <4> QED BY <4>1, <4>2
        <3>6. k - i + Total(r) <= Len(x)
            BY <1>1, <1>2, <2>1, <3>1, <3>2, <3>3
        <3> QED BY <3>1, <3>2, <3>4, <3>5, <3>6 DEF r, i
    <2>2. ASSUME NEW i \in 1..Total(p), k = Len(q) + i
          PROVE  /\ x[k] = <<p, i>>
                 /\ i <= k
                 /\ \A j \in 1..Total(p) : x[k - i + j] = <<p, j>>
                 /\ ~(k - i + Total(p) + 1 <= Len(x))
                 /\ k - i + Total(p) <= Len(x)
        <3>1. k - i = Len(q)
            BY <1>1, <1>2, <2>2
        <3>2. i <= k /\ ~(k - i + Total(p) + 1 <= Len(x)) /\ k - i + Total(p) <= Len(x)
            BY <1>1, <1>2, <2>2, <3>1
        <3>3. ASSUME NEW j \in 1..Total(p)
              PROVE  x[k - i + j] = <<p, j>>
            <4>1. k - i + j = Len(q) + j
                BY <3>1
            <4>2. x[Len(q) + j] = <<p, j>>
                BY <1>1
            <4> QED BY <4>1, <4>2
        <3>4. x[k] = <<p, i>>
            BY <1>1, <2>2
        <3> QED BY <3>2, <3>3, <3>4
    <2>3. CASE \E i \in 1..Total(p) : k = Len(q) + i
        <3>1. PICK i \in 1..Total(p) : k = Len(q) + i
            BY <2>3
        <3>2. x[k][1] = p /\ x[k][2] = i
            BY <2>2, <3>1
        <3> QED BY <2>2, <3>1, <3>2
    <2> QED BY <1>1, <2>1, <2>3
<1> QED BY <1>3 DEF Framed, Ended, x

\* What starts in q with p after it.
LEMMA ExtendedStarts ==
    ASSUME NEW q \in Seq(Byte), NEW p \in Kinds
    PROVE  /\ \A k \in 1..Len(q) : \A r : Starts(q \o Bytes(p), k, r) <=> Starts(q, k, r)
           /\ \A k \in 1..Len(q \o Bytes(p)) : \A r :
                 Starts(q \o Bytes(p), k, r) => Starts(q, k, r) \/ (k = Len(q) + 1 /\ r = p)
           /\ Starts(q \o Bytes(p), Len(q) + 1, p)
<1> DEFINE x == q \o Bytes(p)
<1>1. /\ Len(q) \in Nat /\ Len(x) = Len(q) + Total(p)
      /\ \A i \in 1..Len(q) : x[i] = q[i] /\ i \in 1..Len(x)
      /\ \A i \in 1..Total(p) : x[Len(q) + i] = <<p, i>>
      /\ \A k \in 1..Len(x) : k \in 1..Len(q) \/ \E i \in 1..Total(p) : k = Len(q) + i
    BY ExtendedProperties
<1>2. Total(p) \in Nat \ {0}
    BY KindProperties
<1> HIDE DEF x
<1>3. \A k \in 1..Len(q) : \A r : Starts(x, k, r) <=> Starts(q, k, r)
    BY <1>1 DEF Starts
<1>4. ASSUME NEW k \in 1..Len(x), NEW r, Starts(x, k, r)
      PROVE  Starts(q, k, r) \/ (k = Len(q) + 1 /\ r = p)
    <2>1. CASE k \in 1..Len(q)
        BY <1>3, <1>4, <2>1
    <2>2. CASE \E i \in 1..Total(p) : k = Len(q) + i
        <3>1. PICK i \in 1..Total(p) : k = Len(q) + i
            BY <2>2
        <3>2. x[k] = <<p, i>> /\ x[k] = <<r, 1>>
            BY <1>1, <1>4, <3>1 DEF Starts
        <3> QED BY <3>1, <3>2
    <2> QED BY <1>1, <2>1, <2>2
<1>5. 1 \in 1..Total(p) /\ Len(q) + 1 \in 1..Len(x)
    BY <1>1, <1>2
<1>6. Starts(x, Len(q) + 1, p)
    BY <1>1, <1>5 DEF Starts
<1> QED BY <1>3, <1>4, <1>6 DEF x

\* A ping, a pong or a bye is none of the packets in question.
LEMMA ExtendedByOther ==
    ASSUME NEW q \in Seq(Byte), NEW p \in {Ping, Pong, Bye},
           NEW n \in Nat, NEW s \in Seq(Packets)
    PROVE  /\ InOrder(q, n, s) => InOrder(q \o Bytes(p), n, s)
           /\ Present(q, n, s) => Present(q \o Bytes(p), n, s)
<1> DEFINE x == q \o Bytes(p)
<1>1. p \in Kinds /\ p \notin Packets
    BY KindProperties DEF Kinds
<1>2. /\ \A k \in 1..Len(q) : \A r : Starts(x, k, r) <=> Starts(q, k, r)
      /\ \A k \in 1..Len(x) : \A r :
            Starts(x, k, r) => Starts(q, k, r) \/ (k = Len(q) + 1 /\ r = p)
    BY <1>1, ExtendedStarts
<1>3. Len(q) \in Nat /\ \A k \in 1..Len(q) : k \in 1..Len(x)
    BY <1>1, ExtendedProperties
<1> HIDE DEF x
<1>4. ASSUME InOrder(q, n, s)
      PROVE  InOrder(x, n, s)
    <2> SUFFICES ASSUME NEW k \in 1..Len(x), NEW r \in Packets, Starts(x, k, r)
                 PROVE  /\ r.id \in (n + 1)..Len(s) /\ s[r.id] = r
                        /\ \A m \in (n + 1)..(r.id - 1) :
                              \E j \in 1..(k - 1) : Starts(x, j, s[m])
                        /\ \A j \in 1..(k - 1) : \A other \in Packets :
                              Starts(x, j, other) => other.id < r.id
        BY DEF InOrder
    <2>1. Starts(q, k, r)
        BY <1>1, <1>2
    <2>2. k \in 1..Len(q) /\ \A j \in 1..(k - 1) : j \in 1..Len(q)
        BY <1>3, <2>1 DEF Starts
    <2>3. \A j \in 1..(k - 1) : \A other : Starts(x, j, other) <=> Starts(q, j, other)
        BY <1>2, <2>2
    <2>4. /\ r.id \in (n + 1)..Len(s) /\ s[r.id] = r
          /\ \A m \in (n + 1)..(r.id - 1) : \E j \in 1..(k - 1) : Starts(q, j, s[m])
          /\ \A j \in 1..(k - 1) : \A other \in Packets :
                Starts(q, j, other) => other.id < r.id
        BY <1>4, <2>1, <2>2 DEF InOrder
    <2> QED BY <2>3, <2>4
<1>5. ASSUME Present(q, n, s)
      PROVE  Present(x, n, s)
    BY <1>2, <1>3, <1>5 DEF Present, Has
<1> QED BY <1>4, <1>5 DEF x

\* The next packet, when none is missing.
LEMMA ExtendedByNext ==
    ASSUME NEW q \in Seq(Byte), NEW n \in Nat, NEW s \in Seq(Packets), NEW p \in Packets,
           p.id = Len(s) + 1, n <= Len(s), InOrder(q, n, s), Present(q, n, s)
    PROVE  InOrder(q \o Bytes(p), n, Append(s, p)) /\ Present(q \o Bytes(p), n, Append(s, p))
<1> DEFINE x == q \o Bytes(p)
           t == Append(s, p)
<1>1. p \in Kinds
    BY DEF Kinds
<1>2. /\ \A k \in 1..Len(q) : \A r : Starts(x, k, r) <=> Starts(q, k, r)
      /\ \A k \in 1..Len(x) : \A r :
            Starts(x, k, r) => Starts(q, k, r) \/ (k = Len(q) + 1 /\ r = p)
      /\ Starts(x, Len(q) + 1, p)
    BY <1>1, ExtendedStarts
<1>3. Len(q) \in Nat /\ \A k \in 1..Len(q) : k \in 1..Len(x)
    BY <1>1, ExtendedProperties
<1>4. Len(q) + 1 \in 1..Len(x)
    BY <1>2 DEF Starts
<1>5. Len(s) \in Nat /\ Len(t) = Len(s) + 1 /\ (\A i \in 1..Len(s) : t[i] = s[i])
      /\ t[Len(s) + 1] = p
    BY AppendProperties, LenProperties
<1> HIDE DEF x, t
<1>6. ASSUME NEW k \in 1..Len(x), NEW r \in Packets, Starts(q, k, r)
      PROVE  /\ r.id \in (n + 1)..Len(t) /\ t[r.id] = r
             /\ \A m \in (n + 1)..(r.id - 1) : \E j \in 1..(k - 1) : Starts(x, j, t[m])
             /\ \A j \in 1..(k - 1) : \A other \in Packets :
                   Starts(x, j, other) => other.id < r.id
    <2>1. k \in 1..Len(q) /\ \A j \in 1..(k - 1) : j \in 1..Len(q)
        BY <1>3, <1>6 DEF Starts
    <2>2. \A j \in 1..(k - 1) : \A other : Starts(x, j, other) <=> Starts(q, j, other)
        BY <1>2, <2>1
    <2>3. /\ r.id \in (n + 1)..Len(s) /\ s[r.id] = r
          /\ \A m \in (n + 1)..(r.id - 1) : \E j \in 1..(k - 1) : Starts(q, j, s[m])
          /\ \A j \in 1..(k - 1) : \A other \in Packets :
                Starts(q, j, other) => other.id < r.id
        BY <1>6, <2>1 DEF InOrder
    <2>4. \A m \in (n + 1)..(r.id - 1) : m \in 1..Len(s)
        BY <1>5, <2>3
    <2>5. r.id \in 1..Len(s) /\ r.id \in (n + 1)..Len(t)
        BY <1>5, <2>3
    <2> QED BY <1>5, <2>2, <2>3, <2>4, <2>5
<1>7. ASSUME NEW m \in (n + 1)..Len(s)
      PROVE  \E j \in 1..Len(q) : Starts(x, j, t[m])
    <2>1. PICK j \in 1..Len(q) : Starts(q, j, s[m])
        BY <1>7 DEF Present, Has
    <2>2. t[m] = s[m]
        BY <1>5, <1>7
    <2> QED BY <1>2, <2>1, <2>2
<1>8. /\ p.id \in (n + 1)..Len(t) /\ t[p.id] = p
      /\ \A m \in (n + 1)..(p.id - 1) : \E j \in 1..Len(q) : Starts(x, j, t[m])
      /\ \A j \in 1..Len(q) : \A other \in Packets : Starts(x, j, other) => other.id < p.id
    <2>1. p.id - 1 = Len(s) /\ p.id \in (n + 1)..Len(t)
        BY <1>3, <1>5
    <2>2. ASSUME NEW j \in 1..Len(q), NEW other \in Packets, Starts(x, j, other)
          PROVE  other.id < p.id
        <3>1. Starts(q, j, other)
            BY <1>2, <2>2
        <3>2. other.id \in (n + 1)..Len(s)
            BY <2>2, <3>1 DEF InOrder
        <3> QED BY <1>5, <3>2
    <2>3. t[p.id] = p
        BY <1>5
    <2>4. \A m \in (n + 1)..(p.id - 1) : \E j \in 1..Len(q) : Starts(x, j, t[m])
        BY <1>7, <2>1
    <2> QED BY <2>1, <2>2, <2>3, <2>4
<1>9. InOrder(x, n, t)
    <2> SUFFICES ASSUME NEW k \in 1..Len(x), NEW r \in Packets, Starts(x, k, r)
                 PROVE  /\ r.id \in (n + 1)..Len(t) /\ t[r.id] = r
                        /\ \A m \in (n + 1)..(r.id - 1) :
                              \E j \in 1..(k - 1) : Starts(x, j, t[m])
                        /\ \A j \in 1..(k - 1) : \A other \in Packets :
                              Starts(x, j, other) => other.id < r.id
        BY DEF InOrder
    <2>1. CASE Starts(q, k, r)
        BY <1>6, <2>1
    <2>2. CASE k = Len(q) + 1 /\ r = p
        <3>1. k - 1 = Len(q)
            BY <1>3, <2>2
        <3> QED BY <1>8, <2>2, <3>1
    <2> QED BY <1>2, <2>1, <2>2
<1>10. Present(x, n, t)
    <2> SUFFICES ASSUME NEW m \in (n + 1)..Len(t)
                 PROVE  Has(x, t[m])
        BY DEF Present
    <2>1. CASE m \in (n + 1)..Len(s)
        BY <1>3, <1>7, <2>1 DEF Has
    <2>2. CASE m = Len(s) + 1
        BY <1>2, <1>4, <1>5, <2>2 DEF Has
    <2> QED BY <1>5, <2>1, <2>2
<1> QED BY <1>9, <1>10 DEF x, t

\* The first packet of a framed sequence.
LEMMA FirstProperties ==
    ASSUME NEW q \in Seq(Byte), Framed(q), q # <<>>
    PROVE  LET p == q[1][1] IN
           /\ 1 \in 1..Len(q) /\ p \in Kinds /\ Total(p) \in Nat \ {0}
           /\ \A j \in 1..Total(p) : j <= Len(q) => q[j] = <<p, j>>
           /\ q[1] = <<p, 1>>
           /\ Ended(q) => Total(p) <= Len(q)
<1> DEFINE p == q[1][1]
           i == q[1][2]
<1>1. Len(q) \in Nat \ {0}
    BY EmptySeq
<1>2. 1 \in 1..Len(q)
    BY <1>1
<1>3. q[1] = <<p, i>> /\ p \in Kinds /\ Total(p) \in Nat \ {0} /\ i \in Nat
    BY <1>2, ByteProperties
<1>4. /\ i \in 1..Total(p) /\ i <= 1
      /\ \A j \in 1..Total(p) : 1 - i + j <= Len(q) => q[1 - i + j] = <<p, j>>
      /\ Ended(q) => 1 - i + Total(p) <= Len(q)
    BY <1>2 DEF Framed, Ended
<1> HIDE DEF p, i
<1>5. i = 1
    BY <1>3, <1>4
<1>6. \A j \in 1..Total(p) : 1 - i + j = j
    BY <1>5
<1>7. \A j \in 1..Total(p) : j <= Len(q) => q[j] = <<p, j>>
    BY <1>4, <1>6
<1>8. Ended(q) => Total(p) <= Len(q)
    BY <1>3, <1>4, <1>5
<1> QED BY <1>2, <1>3, <1>5, <1>7, <1>8 DEF p

\* x is q without its first n bytes.
Dropped(q, n, x) ==
    /\ x \in Seq(Byte)
    /\ Len(x) = Len(q) - n
    /\ \A k \in 1..Len(x) : x[k] = q[k + n]

\* When the first packet is taken out, the next one is first.
LEMMA DroppedIsFramed ==
    ASSUME NEW q \in Seq(Byte), Framed(q), q # <<>>, NEW x, NEW p \in Kinds,
           q[1][1] = p, Dropped(q, Total(p), x)
    PROVE  Framed(x) /\ (Ended(q) => Ended(x))
<1> DEFINE n == Total(p)
<1>1. n \in Nat \ {0} /\ Len(q) \in Nat /\ Len(x) \in Nat /\ x \in Seq(Byte)
      /\ Len(x) = Len(q) - n /\ \A k \in 1..Len(x) : x[k] = q[k + n]
    BY KindProperties, LenProperties DEF Dropped
<1>2. \A j \in 1..n : j <= Len(q) => q[j] = <<p, j>>
    BY FirstProperties
<1> HIDE DEF n
<1>3. ASSUME NEW k \in 1..Len(x)
      PROVE  LET r == x[k][1]
                 i == x[k][2] IN
             /\ i \in 1..Total(r) /\ i <= k
             /\ \A j \in 1..Total(r) : k - i + j <= Len(x) => x[k - i + j] = <<r, j>>
             /\ k - i + Total(r) + 1 <= Len(x) => x[k - i + Total(r) + 1][2] = 1
             /\ Ended(q) => k - i + Total(r) <= Len(x)
    <2> DEFINE r == q[k + n][1]
               i == q[k + n][2]
    <2>1. k + n \in 1..Len(q) /\ x[k] = q[k + n]
        BY <1>1
    <2>2. Total(r) \in Nat \ {0} /\ i \in Nat /\ q[k + n] = <<r, i>>
        BY <2>1, ByteProperties
    <2>3. /\ i \in 1..Total(r) /\ i <= k + n
          /\ \A j \in 1..Total(r) : (k + n) - i + j <= Len(q) => q[(k + n) - i + j] = <<r, j>>
          /\ (k + n) - i + Total(r) + 1 <= Len(q) => q[(k + n) - i + Total(r) + 1][2] = 1
          /\ Ended(q) => (k + n) - i + Total(r) <= Len(q)
        BY <2>1 DEF Framed, Ended
    <2> HIDE DEF r, i
    <2>4. i <= k
        <3> SUFFICES ASSUME ~(i <= k)
                     PROVE  FALSE
            OBVIOUS
        <3>1. (k + n) - i + 1 \in 1..n /\ (k + n) - i + 1 <= Len(q) /\ 1 \in 1..Total(r)
            BY <1>1, <2>1, <2>2, <2>3
        <3>2. q[(k + n) - i + 1] = <<r, 1>>
            BY <2>3, <3>1
        <3>3. q[(k + n) - i + 1] = <<p, (k + n) - i + 1>>
            BY <1>2, <3>1
        <3>4. r = p /\ (k + n) - i + 1 = 1
            BY <3>2, <3>3
        <3> QED BY <1>1, <2>2, <2>3, <3>4 DEF n
    <2>5. ASSUME NEW j \in 1..Total(r), k - i + j <= Len(x)
          PROVE  x[k - i + j] = <<r, j>>
        <3>1. k - i + j \in 1..Len(x) /\ (k - i + j) + n = (k + n) - i + j
              /\ (k + n) - i + j <= Len(q)
            BY <1>1, <2>2, <2>4, <2>5
        <3> QED BY <1>1, <2>3, <3>1
    <2>6. ASSUME k - i + Total(r) + 1 <= Len(x)
          PROVE  x[k - i + Total(r) + 1][2] = 1
        <3>1. k - i + Total(r) + 1 \in 1..Len(x)
              /\ (k - i + Total(r) + 1) + n = (k + n) - i + Total(r) + 1
              /\ (k + n) - i + Total(r) + 1 <= Len(q)
            BY SMTT(20), <1>1, <2>2, <2>4, <2>6
        <3> QED BY <1>1, <2>3, <3>1
    <2>7. Ended(q) => k - i + Total(r) <= Len(x)
        BY <1>1, <2>2, <2>3
    <2>8. x[k][1] = r /\ x[k][2] = i
        BY <2>1, <2>2
    <2> QED BY <2>3, <2>4, <2>5, <2>6, <2>7, <2>8
<1> QED BY <1>3 DEF Framed, Ended

\* The packets of q but for the first, p, which is n bytes long, are those of x.
Shifted(q, n, x, p) ==
    /\ n \in Nat \ {0} /\ Len(x) \in Nat /\ Len(q) = Len(x) + n
    /\ Starts(q, 1, p)
    /\ \A k \in 1..Len(x) : \A r : Starts(x, k, r) <=> Starts(q, k + n, r)
    /\ \A k \in 1..Len(q) : \A r :
          Starts(q, k, r) => (k = 1 /\ r = p) \/ k - n \in 1..Len(x)

LEMMA DroppedStarts ==
    ASSUME NEW q \in Seq(Byte), Framed(q), q # <<>>, NEW x, NEW p \in Kinds,
           q[1][1] = p, Dropped(q, Total(p), x)
    PROVE  Shifted(q, Total(p), x, p)
<1> DEFINE n == Total(p)
<1>1. n \in Nat \ {0} /\ Len(q) \in Nat /\ Len(x) \in Nat
      /\ Len(x) = Len(q) - n /\ \A k \in 1..Len(x) : x[k] = q[k + n]
    BY KindProperties, LenProperties DEF Dropped
<1>2. /\ 1 \in 1..Len(q) /\ q[1] = <<p, 1>>
      /\ \A j \in 1..n : j <= Len(q) => q[j] = <<p, j>>
    BY FirstProperties
<1> HIDE DEF n
<1>3. \A k \in 1..Len(x) : \A r : Starts(x, k, r) <=> Starts(q, k + n, r)
    <2> TAKE k \in 1..Len(x)
    <2>1. k + n \in 1..Len(q)
        BY <1>1
    <2> QED BY <1>1, <2>1 DEF Starts
<1>4. ASSUME NEW k \in 1..Len(q), NEW r, Starts(q, k, r), ~(k - n \in 1..Len(x))
      PROVE  k = 1 /\ r = p
    <2>1. k \in 1..n /\ k <= Len(q)
        BY <1>1, <1>4
    <2>2. q[k] = <<p, k>> /\ q[k] = <<r, 1>>
        BY <1>2, <1>4, <2>1 DEF Starts
    <2> QED BY <2>2
<1>5. Shifted(q, n, x, p)
    BY <1>1, <1>2, <1>3, <1>4 DEF Starts, Shifted
<1> QED BY <1>5 DEF n

\* Taking out the first packet leaves the others.
LEMMA HasDropped ==
    ASSUME NEW q \in Seq(Byte), Framed(q), q # <<>>, NEW x, NEW p \in Kinds,
           q[1][1] = p, Dropped(q, Total(p), x)
    PROVE  \A other : other # p /\ Has(q, other) => Has(x, other)
<1> DEFINE d == Total(p)
<1>d. Shifted(q, d, x, p)
    BY DroppedStarts
<1> HIDE DEF d
<1>1. /\ d \in Nat \ {0} /\ Len(x) \in Nat /\ Len(q) = Len(x) + d
      /\ Starts(q, 1, p)
      /\ \A k \in 1..Len(x) : \A r : Starts(x, k, r) <=> Starts(q, k + d, r)
      /\ \A k \in 1..Len(q) : \A r :
            Starts(q, k, r) => (k = 1 /\ r = p) \/ k - d \in 1..Len(x)
    BY <1>d DEF Shifted
<1> SUFFICES ASSUME NEW other, other # p, Has(q, other)
             PROVE  Has(x, other)
    OBVIOUS
<1>2. PICK k \in 1..Len(q) : Starts(q, k, other)
    BY DEF Has
<1>3. k - d \in 1..Len(x)
    BY <1>1, <1>2
<1>4. (k - d) + d = k
    BY <1>1
<1>5. Starts(x, k - d, other)
    BY <1>1, <1>2, <1>3, <1>4
<1> QED BY <1>3, <1>5 DEF Has

\* A ping, a pong or a bye is taken out.
LEMMA DroppedOther ==
    ASSUME NEW q \in Seq(Byte), Framed(q), q # <<>>, NEW x, NEW p \in Kinds \ Packets,
           q[1][1] = p, Dropped(q, Total(p), x), NEW n \in Nat, NEW s \in Seq(Packets)
    PROVE  /\ InOrder(q, n, s) => InOrder(x, n, s)
           /\ Present(q, n, s) => Present(x, n, s)
<1> DEFINE d == Total(p)
<1>d. Shifted(q, d, x, p)
    BY DroppedStarts
<1> HIDE DEF d
<1>1. /\ d \in Nat \ {0} /\ Len(x) \in Nat /\ Len(q) = Len(x) + d
      /\ \A k \in 1..Len(x) : \A r : Starts(x, k, r) <=> Starts(q, k + d, r)
      /\ \A k \in 1..Len(q) : \A r :
            Starts(q, k, r) => (k = 1 /\ r = p) \/ k - d \in 1..Len(x)
    BY <1>d DEF Shifted
<1>2. p \notin Packets
    OBVIOUS
<1>3. ASSUME NEW k \in 1..Len(q), NEW r \in Packets, Starts(q, k, r)
      PROVE  k - d \in 1..Len(x) /\ Starts(x, k - d, r)
    <2>1. k - d \in 1..Len(x)
        BY <1>1, <1>2, <1>3
    <2>2. (k - d) + d = k
        BY <1>1
    <2> QED BY <1>1, <1>3, <2>1, <2>2
<1>4. ASSUME InOrder(q, n, s)
      PROVE  InOrder(x, n, s)
    <2> SUFFICES ASSUME NEW k \in 1..Len(x), NEW r \in Packets, Starts(x, k, r)
                 PROVE  /\ r.id \in (n + 1)..Len(s) /\ s[r.id] = r
                        /\ \A m \in (n + 1)..(r.id - 1) :
                              \E j \in 1..(k - 1) : Starts(x, j, s[m])
                        /\ \A j \in 1..(k - 1) : \A other \in Packets :
                              Starts(x, j, other) => other.id < r.id
        BY DEF InOrder
    <2>1. PICK i \in 1..Len(q) : i = k + d /\ Starts(q, i, r)
        <3>1. k + d \in 1..Len(q) /\ Starts(q, k + d, r)
            BY <1>1
        <3> QED BY <3>1
    <2>2. /\ r.id \in (n + 1)..Len(s) /\ s[r.id] = r
          /\ \A m \in (n + 1)..(r.id - 1) : \E j \in 1..(i - 1) : Starts(q, j, s[m])
          /\ \A j \in 1..(i - 1) : \A other \in Packets :
                Starts(q, j, other) => other.id < r.id
        BY <1>4, <2>1 DEF InOrder
    <2>3. ASSUME NEW m \in (n + 1)..(r.id - 1)
          PROVE  \E j \in 1..(k - 1) : Starts(x, j, s[m])
        <3>1. PICK j \in 1..(i - 1) : Starts(q, j, s[m])
            BY <2>2, <2>3
        <3>2. s[m] \in Packets
            <4>1. Len(s) \in Nat /\ r.id \in Nat
                BY LenProperties, KindProperties
            <4>2. m \in 1..Len(s)
                BY <2>2, <2>3, <4>1
            <4> QED BY <4>2, ElementOfSeq
        <3>3. j \in 1..Len(q)
            BY <3>1 DEF Starts
        <3>4. j - d \in 1..Len(x) /\ Starts(x, j - d, s[m])
            BY <1>3, <3>1, <3>2, <3>3
        <3>5. j - d \in 1..(k - 1)
            BY <1>1, <2>1, <3>1, <3>4
        <3> QED BY <3>4, <3>5
    <2>4. ASSUME NEW j \in 1..(k - 1), NEW other \in Packets, Starts(x, j, other)
          PROVE  other.id < r.id
        <3>1. j \in 1..Len(x) /\ j + d \in 1..(i - 1)
            BY <1>1, <2>1, <2>4
        <3>2. Starts(q, j + d, other)
            BY <1>1, <2>4, <3>1
        <3> QED BY <2>2, <3>1, <3>2
    <2> QED BY <2>2, <2>3, <2>4
<1>5. ASSUME Present(q, n, s)
      PROVE  Present(x, n, s)
    <2> SUFFICES ASSUME NEW m \in (n + 1)..Len(s)
                 PROVE  Has(x, s[m])
        BY DEF Present
    <2>1. PICK k \in 1..Len(q) : Starts(q, k, s[m])
        BY <1>5 DEF Present, Has
    <2>2. s[m] \in Packets
        <3>1. Len(s) \in Nat
            BY LenProperties
        <3>2. m \in 1..Len(s)
            BY <3>1
        <3> QED BY <3>2, ElementOfSeq
    <2> QED BY <1>3, <2>1, <2>2 DEF Has
<1> QED BY <1>4, <1>5

IsAt(s, m, p) == m \in 1..Len(s) /\ s[m] = p

\* The first of the packets in question is taken out: it is the next one.
LEMMA DroppedNext ==
    ASSUME NEW q \in Seq(Byte), Framed(q), q # <<>>, NEW x, NEW p \in Kinds, p \in Packets,
           q[1][1] = p, Dropped(q, Total(p), x), NEW n \in Nat, NEW s \in Seq(Packets),
           Numbered(s), InOrder(q, n, s)
    PROVE  /\ IsAt(s, n + 1, p)
           /\ InOrder(x, n + 1, s)
           /\ Present(q, n, s) => Present(x, n + 1, s)
<1> DEFINE d == Total(p)
<1>d. Shifted(q, d, x, p)
    BY DroppedStarts
<1> HIDE DEF d
<1>2. /\ d \in Nat \ {0} /\ Len(x) \in Nat /\ Len(q) = Len(x) + d
      /\ Starts(q, 1, p)
      /\ \A k \in 1..Len(x) : \A r : Starts(x, k, r) <=> Starts(q, k + d, r)
      /\ \A k \in 1..Len(q) : \A r :
            Starts(q, k, r) => (k = 1 /\ r = p) \/ k - d \in 1..Len(x)
    BY <1>d DEF Shifted
<1>3. Len(s) \in Nat /\ p.id \in Nat
    BY LenProperties, KindProperties
<1>4. 1 \in 1..Len(q)
    BY <1>2
<1>5. /\ p.id \in (n + 1)..Len(s) /\ s[p.id] = p
      /\ \A m \in (n + 1)..(p.id - 1) : \E j \in 1..(1 - 1) : Starts(q, j, s[m])
    BY <1>2, <1>4 DEF InOrder
<1>6. p.id = n + 1
    <2> SUFFICES ASSUME p.id # n + 1
                 PROVE  FALSE
        OBVIOUS
    <2>1. n + 1 \in (n + 1)..(p.id - 1)
        BY <1>3, <1>5
    <2>2. PICK j \in 1..(1 - 1) : TRUE
        BY <1>5, <2>1
    <2> QED BY <2>2
<1>7. IsAt(s, n + 1, p)
    BY <1>3, <1>5, <1>6 DEF IsAt
<1>8. ASSUME NEW k \in 1..Len(q), NEW r, r # p, Starts(q, k, r)
      PROVE  k - d \in 1..Len(x) /\ Starts(x, k - d, r)
    <2>1. k - d \in 1..Len(x)
        BY <1>2, <1>8
    <2>2. (k - d) + d = k
        BY <1>2
    <2> QED BY <1>2, <1>8, <2>1, <2>2
<1>9. InOrder(x, n + 1, s)
    <2> SUFFICES ASSUME NEW k \in 1..Len(x), NEW r \in Packets, Starts(x, k, r)
                 PROVE  /\ r.id \in (n + 1 + 1)..Len(s) /\ s[r.id] = r
                        /\ \A m \in (n + 1 + 1)..(r.id - 1) :
                              \E j \in 1..(k - 1) : Starts(x, j, s[m])
                        /\ \A j \in 1..(k - 1) : \A other \in Packets :
                              Starts(x, j, other) => other.id < r.id
        BY DEF InOrder
    <2>1. PICK i \in 1..Len(q) : i = k + d /\ Starts(q, i, r)
        <3>1. k + d \in 1..Len(q) /\ Starts(q, k + d, r)
            BY <1>2
        <3> QED BY <3>1
    <2>2. /\ r.id \in (n + 1)..Len(s) /\ s[r.id] = r
          /\ \A m \in (n + 1)..(r.id - 1) : \E j \in 1..(i - 1) : Starts(q, j, s[m])
          /\ \A j \in 1..(i - 1) : \A other \in Packets :
                Starts(q, j, other) => other.id < r.id
        BY <2>1 DEF InOrder
    <2>3. r.id \in Nat /\ p.id < r.id
        <3>1. 1 \in 1..(i - 1)
            BY <1>2, <2>1
        <3> QED BY <1>2, <2>2, <3>1, KindProperties
    <2>4. ASSUME NEW m \in (n + 1 + 1)..(r.id - 1)
          PROVE  \E j \in 1..(k - 1) : Starts(x, j, s[m])
        <3>1. m \in (n + 1)..(r.id - 1) /\ m \in 1..Len(s)
            BY <1>3, <2>2, <2>3, <2>4
        <3>2. PICK j \in 1..(i - 1) : Starts(q, j, s[m])
            BY <2>2, <3>1
        <3>3. j \in 1..Len(q)
            BY <3>2 DEF Starts
        <3>4. s[m] # p
            BY <1>3, <1>6, <3>1, <2>4 DEF Numbered
        <3>5. j - d \in 1..Len(x) /\ Starts(x, j - d, s[m])
            BY <1>8, <3>2, <3>3, <3>4
        <3>6. j - d \in 1..(k - 1)
            BY <1>2, <2>1, <3>2, <3>5
        <3> QED BY <3>5, <3>6
    <2>5. ASSUME NEW j \in 1..(k - 1), NEW other \in Packets, Starts(x, j, other)
          PROVE  other.id < r.id
        <3>1. j \in 1..Len(x) /\ j + d \in 1..(i - 1)
            BY <1>2, <2>1, <2>5
        <3>2. Starts(q, j + d, other)
            BY <1>2, <2>5, <3>1
        <3> QED BY <2>2, <3>1, <3>2
    <2>6. r.id \in (n + 1 + 1)..Len(s)
        BY <1>3, <1>6, <2>2, <2>3
    <2> QED BY <2>2, <2>4, <2>5, <2>6
<1>10. ASSUME Present(q, n, s)
       PROVE  Present(x, n + 1, s)
    <2> SUFFICES ASSUME NEW m \in (n + 1 + 1)..Len(s)
                 PROVE  Has(x, s[m])
        BY DEF Present
    <2>1. m \in (n + 1)..Len(s) /\ m \in 1..Len(s) /\ m # n + 1
        BY <1>3
    <2>2. PICK k \in 1..Len(q) : Starts(q, k, s[m])
        BY <1>10, <2>1 DEF Present, Has
    <2>3. s[m] # p
        BY <1>6, <1>10, <2>1 DEF Numbered
    <2> QED BY <1>8, <2>2, <2>3 DEF Has
<1> QED BY <1>7, <1>9, <1>10

-----------------------------------------------------------------------------
(* What is on its way *)

\* q is what remains of the packets s when those of r have been passed on;
\* whole: and the sender is still there.
Carried(q, r, s, whole) ==
    /\ Len(r) <= Len(s)
    /\ Framed(q)
    /\ InOrder(q, Len(r), s)
    /\ whole => Ended(q) /\ Present(q, Len(r), s)

Carries(e) == Carried(Pipe(e), received[e], sent[Other(e)], Runs(Other(e)))

ConnInv ==
    /\ \A e \in Ends : Numbered(sent[e])
    /\ \A e \in Ends : Runs(e) => Carries(e)

\* Between two packets a ping, a pong or nothing is written.
Outs == {<<>>, Bytes(Ping), Bytes(Pong)}

LEMMA OutTypes == \A out \in Outs : out \in Seq(Byte)
BY BytesProperties, EmptySeq DEF Outs, Kinds

LEMMA OutIsCarried ==
    ASSUME NEW q \in Seq(Byte), NEW r, NEW s \in Seq(Packets), NEW out \in Outs,
           Len(r) \in Nat, Carried(q, r, s, TRUE)
    PROVE  Carried(q \o out, r, s, TRUE)
<1>1. CASE out = <<>>
    <2>1. q \o out = q
        BY <1>1, ConcatEmptySeq
    <2> QED BY <2>1
<1>2. ASSUME NEW p \in {Ping, Pong}, out = Bytes(p)
      PROVE  Carried(q \o out, r, s, TRUE)
    <2>1. p \in Kinds /\ p \in {Ping, Pong, Bye}
        BY DEF Kinds
    <2>2. Framed(q) /\ Ended(q) /\ InOrder(q, Len(r), s) /\ Present(q, Len(r), s)
        BY DEF Carried
    <2>3. Framed(q \o Bytes(p)) /\ Ended(q \o Bytes(p))
        BY <2>1, <2>2, ExtendedIsFramed
    <2>4. InOrder(q \o Bytes(p), Len(r), s) /\ Present(q \o Bytes(p), Len(r), s)
        BY <2>1, <2>2, ExtendedByOther
    <2> QED BY <1>2, <2>3, <2>4 DEF Carried
<1> QED BY <1>1, <1>2 DEF Outs

\* The sender writes a packet.
LEMMA NextIsCarried ==
    ASSUME NEW q \in Seq(Byte), NEW r, NEW s \in Seq(Packets), NEW p \in Packets,
           Len(r) \in Nat, p.id = Len(s) + 1, Carried(q, r, s, TRUE)
    PROVE  Carried(q \o Bytes(p), r, Append(s, p), TRUE)
<1>1. p \in Kinds
    BY DEF Kinds
<1>2. /\ Framed(q) /\ Ended(q) /\ InOrder(q, Len(r), s) /\ Present(q, Len(r), s)
      /\ Len(r) <= Len(s)
    BY DEF Carried
<1>3. Framed(q \o Bytes(p)) /\ Ended(q \o Bytes(p))
    BY <1>1, <1>2, ExtendedIsFramed
<1>4. InOrder(q \o Bytes(p), Len(r), Append(s, p)) /\ Present(q \o Bytes(p), Len(r), Append(s, p))
    BY <1>2, ExtendedByNext
<1>5. Len(r) <= Len(Append(s, p))
    BY <1>2, AppendProperties, LenProperties
<1> QED BY <1>3, <1>4, <1>5 DEF Carried

\* A prefix of what y goes on with, after b.
LEMMA PrefixAfter ==
    ASSUME NEW b \in Seq(Byte), NEW y \in Seq(Byte), NEW rest \in Prefixes(y)
    PROVE  b \o rest \in Prefixes(b \o y)
<1>1. PICK n \in 0..Len(y) : rest = SubSeq(y, 1, n)
    BY DEF Prefixes
<1>2. Len(y) \in Nat /\ Len(b) \in Nat /\ n \in Int /\ n <= Len(y) /\ n \in Nat
    BY <1>1, LenProperties
<1>3. rest \in Seq(Byte) /\ Len(rest) = n /\ \A i \in 1..n : rest[i] = y[i]
    <2>1. rest \in Seq(Byte) /\ Len(rest) = n /\ \A i \in 1..Len(rest) : rest[i] = y[1 + i - 1]
        BY <1>1, <1>2, PartIsSeq
    <2> QED BY <1>2, <2>1
<1>4. /\ b \o rest \in Seq(Byte) /\ Len(b \o rest) = Len(b) + n
      /\ \A i \in 1..(Len(b) + n) :
            (b \o rest)[i] = IF i <= Len(b) THEN b[i] ELSE rest[i - Len(b)]
    BY <1>3, ConcatProperties
<1>5. /\ b \o y \in Seq(Byte) /\ Len(b \o y) = Len(b) + Len(y)
      /\ \A i \in 1..(Len(b) + Len(y)) :
            (b \o y)[i] = IF i <= Len(b) THEN b[i] ELSE y[i - Len(b)]
    BY ConcatProperties
<1> DEFINE x == SubSeq(b \o y, 1, Len(b) + n)
<1>6. x \in Seq(Byte) /\ Len(x) = Len(b) + n /\ \A i \in 1..(Len(b) + n) : x[i] = (b \o y)[i]
    <2>1. Len(b) + n \in Int /\ Len(b) + n <= Len(b \o y)
        BY <1>2, <1>5
    <2>2. x \in Seq(Byte) /\ Len(x) = Len(b) + n
          /\ \A i \in 1..Len(x) : x[i] = (b \o y)[1 + i - 1]
        BY <1>2, <1>5, <2>1, PartIsSeq
    <2> HIDE DEF x
    <2> QED BY <1>2, <2>2
<1> HIDE DEF x
<1>7. \A i \in 1..(Len(b) + n) : x[i] = (b \o rest)[i]
    <2> TAKE i \in 1..(Len(b) + n)
    <2>1. i \in 1..(Len(b) + Len(y))
        BY <1>2
    <2>2. CASE i <= Len(b)
        BY <1>4, <1>5, <1>6, <2>1, <2>2
    <2>3. CASE ~(i <= Len(b))
        <3>1. i - Len(b) \in 1..n
            BY <1>2, <2>3
        <3> QED BY <1>3, <1>4, <1>5, <1>6, <2>1, <2>3, <3>1
    <2> QED BY <2>2, <2>3
<1>8. x = b \o rest
    BY <1>4, <1>6, <1>7, SeqEqual
<1>9. Len(b) + n \in 0..Len(b \o y)
    BY <1>2, <1>5
<1> QED BY <1>8, <1>9 DEF x, Prefixes

\* The sender closes its socket, or is gone: some end of what was on its way
\* is lost.
LEMMA CutIsCarried ==
    ASSUME NEW b \in Seq(Byte), NEW y \in Seq(Byte), NEW out \in Outs,
           NEW r, NEW s \in Seq(Packets), Len(r) \in Nat, Carried(b \o y, r, s, TRUE)
    PROVE  /\ \A rest \in Prefixes(y) : Carried(b \o rest, r, s, FALSE)
           /\ \A rest \in Prefixes(y \o out \o Bytes(Bye)) : Carried(b \o rest, r, s, FALSE)
<1>1. ASSUME NEW q \in Seq(Byte), Framed(b \o q), InOrder(b \o q, Len(r), s),
             NEW rest \in Prefixes(q)
      PROVE  Carried(b \o rest, r, s, FALSE)
    <2>1. b \o rest \in Prefixes(b \o q) /\ b \o q \in Seq(Byte)
        BY PrefixAfter, ConcatProperties
    <2>2. Framed(b \o rest) /\ InOrder(b \o rest, Len(r), s)
        BY <1>1, <2>1, PrefixKeeps
    <2>3. Len(r) <= Len(s)
        BY DEF Carried
    <2> QED BY <2>2, <2>3 DEF Carried
<1>2. \A rest \in Prefixes(y) : Carried(b \o rest, r, s, FALSE)
    BY <1>1 DEF Carried
<1>3. out \in Seq(Byte) /\ Bye \in Kinds
    BY OutTypes DEF Kinds
<1>4. b \o y \in Seq(Byte) /\ Bytes(Bye) \in Seq(Byte) /\ y \o out \in Seq(Byte)
      /\ (b \o y) \o out \in Seq(Byte) /\ y \o out \o Bytes(Bye) \in Seq(Byte)
    BY <1>3, BytesProperties, ConcatProperties
<1>5. b \o (y \o out \o Bytes(Bye)) = ((b \o y) \o out) \o Bytes(Bye)
    <2>1. b \o ((y \o out) \o Bytes(Bye)) = (b \o (y \o out)) \o Bytes(Bye)
        BY SMTT(20), <1>4, BytesAssociative
    <2>2. b \o (y \o out) = (b \o y) \o out
        BY <1>3, BytesAssociative
    <2> QED BY <2>1, <2>2
<1>6. Carried((b \o y) \o out, r, s, TRUE)
    BY <1>4, OutIsCarried
<1>7. Framed(((b \o y) \o out) \o Bytes(Bye))
    BY <1>3, <1>4, <1>6, ExtendedIsFramed DEF Carried
<1>8. InOrder(((b \o y) \o out) \o Bytes(Bye), Len(r), s)
    BY <1>4, <1>6, ExtendedByOther DEF Carried
<1>9. \A rest \in Prefixes(y \o out \o Bytes(Bye)) : Carried(b \o rest, r, s, FALSE)
    BY <1>1, <1>4, <1>5, <1>7, <1>8
<1> QED BY <1>2, <1>9

-----------------------------------------------------------------------------
(* Steps *)

LEMMA PipeTypes ==
    ASSUME NEW e \in Ends, TypeOK
    PROVE  /\ Pipe(e) \in Seq(Byte)
           /\ sent[e] \in Seq(Packets) /\ sent[Other(e)] \in Seq(Packets)
           /\ received[e] \in Seq(Packets \cup {Garbage})
           /\ Len(received[e]) \in Nat /\ Len(sent[e]) \in Nat
<1>1. socket[e].buffer \in Seq(Byte) /\ stream[e] \in Seq(Byte)
    BY SocketTypes
<1>2. sent[e] \in Seq(Packets) /\ sent[Other(e)] \in Seq(Packets)
      /\ received[e] \in Seq(Packets \cup {Garbage})
    BY EndsProperties DEF TypeOK
<1> QED BY <1>1, <1>2, ConcatProperties, LenProperties DEF Pipe

LEMMA PingOrPongOut ==
    ASSUME NEW e \in Ends, TypeOK, RoomEnough
    PROVE  /\ PingOrPong(e) = IF SendsPing(e) THEN Bytes(Ping)
                              ELSE IF SendsPong(e) THEN Bytes(Pong)
                              ELSE <<>>
           /\ PingOrPong(e) \in Outs
<1>1. Other(e) \in Ends /\ Ping \in Kinds /\ Pong \in Kinds
    BY EndsProperties DEF Kinds
<1>2. Written(e, Ping) = Bytes(Ping) /\ Written(e, Pong) = Bytes(Pong)
    BY <1>1, WrittenProperties DEF RoomEnough
<1> QED BY <1>2 DEF PingOrPong, Outs

\* What Iterate takes off the pipe.
LEMMA IterateReads ==
    ASSUME NEW e \in Ends, TypeOK, NEW n \in 0..Len(stream[e]), Iterate(e, n),
           Framed(Pipe(e)), ~(IsWhole(Read(e, n)) /\ FirstPacket(Read(e, n)) = Bye)
    PROVE  LET s == Read(e, n) IN
           \/ /\ ~IsWhole(s) /\ socket'[e] = s
              /\ Pipe(e)' = Pipe(e) /\ received'[e] = received[e]
           \/ \E p \in Kinds \ {Bye} :
                 /\ IsWhole(s) /\ socket'[e] = Processed(s, p) /\ s.buffer # <<>>
                 /\ Pipe(e) # <<>> /\ Pipe(e)[1][1] = p
                 /\ Dropped(Pipe(e), Total(p), Pipe(e)')
                 /\ received'[e] = IF p \in Packets THEN Append(received[e], p) ELSE received[e]
<1> DEFINE s == Read(e, n)
           rest == Rest(e, n)
           q == Pipe(e)
<1>1. /\ socket' = [socket EXCEPT ![e] = IF IsWhole(s) THEN Processed(s, FirstPacket(s)) ELSE s]
      /\ received' = [received EXCEPT ![e] =
            IF IsWhole(s) /\ FirstPacket(s) \notin {Ping, Pong} THEN Append(@, FirstPacket(s)) ELSE @]
      /\ stream' = [Sent(e, PingOrPong(e)) EXCEPT ![e] = rest]
    BY IterateCases
<1>2. /\ s.buffer \in Seq(Byte) /\ rest \in Seq(Byte) /\ s.buffer \o rest = q
      /\ q \in Seq(Byte)
    BY ReadProperties, PipeTypes
<1>3. stream'[e] = rest
    BY <1>1 DEF Sent, TypeOK
<1>4. /\ socket'[e] = IF IsWhole(s) THEN Processed(s, FirstPacket(s)) ELSE s
      /\ received'[e] = IF IsWhole(s) /\ FirstPacket(s) \notin {Ping, Pong}
                        THEN Append(received[e], FirstPacket(s)) ELSE received[e]
    BY <1>1 DEF TypeOK
<1>5. CASE ~IsWhole(s)
    BY <1>2, <1>3, <1>4, <1>5 DEF Pipe
<1>6. CASE IsWhole(s)
    <2> DEFINE p == s.buffer[1][1]
               b == s.buffer
               w == WithoutFirst(s)
    <2>1. /\ p \in Kinds /\ b # <<>> /\ Total(p) \in Nat \ {0} /\ Total(p) <= Len(b)
          /\ w \in Seq(Byte) /\ Len(w) = Len(b) - Total(p)
        BY <1>6, TakenProperties
    <2>2. w = SubSeq(b, Total(p) + 1, Len(b)) /\ b \in Seq(Byte) /\ Len(b) \in Nat
          /\ b \o rest = q
        BY <1>2, LenProperties DEF WithoutFirst
    <2>3. FirstPacket(s) = IF SubSeq(b, 1, Total(p)) = Bytes(p) THEN p ELSE Garbage
        BY DEF FirstPacket
    <2> HIDE DEF b, w, p
    <2>4. /\ Len(q) = Len(b) + Len(rest) /\ Len(rest) \in Nat
          /\ \A i \in 1..(Len(b) + Len(rest)) :
                q[i] = IF i <= Len(b) THEN b[i] ELSE rest[i - Len(b)]
        <3>1. /\ Len(b \o rest) = Len(b) + Len(rest) /\ Len(rest) \in Nat
              /\ \A i \in 1..(Len(b) + Len(rest)) :
                    (b \o rest)[i] = IF i <= Len(b) THEN b[i] ELSE rest[i - Len(b)]
            BY <1>2, <2>2, ConcatProperties, LenProperties
        <3> HIDE DEF rest, q
        <3> QED BY <2>2, <3>1
    <2>5. 1 \in 1..(Len(b) + Len(rest)) /\ 1 <= Len(b) /\ Total(p) <= Len(q)
        BY <2>1, <2>2, <2>4
    <2>6. q # <<>>
        BY <1>2, <2>4, <2>5, EmptySeq
    <2>7. q[1] = b[1]
        BY <2>4, <2>5
    <2>8. q[1][1] = p
        BY <2>7 DEF p, b
    <2>9. \A j \in 1..Total(p) : q[j] = <<p, j>>
        <3>1. \A j \in 1..Total(q[1][1]) : j <= Len(q) => q[j] = <<q[1][1], j>>
            BY <1>2, <2>6, FirstProperties
        <3> HIDE DEF q
        <3>2. \A j \in 1..Total(p) : j <= Len(q)
            BY <2>1, <2>2, <2>4
        <3> QED BY <2>8, <3>1, <3>2
    <2>10. SubSeq(b, 1, Total(p)) = Bytes(p)
        <3>1. SubSeq(b, 1, Total(p)) \in Seq(Byte) /\ Len(SubSeq(b, 1, Total(p))) = Total(p)
              /\ \A i \in 1..Total(p) : SubSeq(b, 1, Total(p))[i] = b[i]
            <4>1. SubSeq(b, 1, Total(p)) \in Seq(Byte) /\ Len(SubSeq(b, 1, Total(p))) = Total(p)
                  /\ \A i \in 1..Len(SubSeq(b, 1, Total(p))) :
                        SubSeq(b, 1, Total(p))[i] = b[1 + i - 1]
                BY <2>1, <2>2, PartIsSeq
            <4> QED BY <2>1, <4>1
        <3>2. \A i \in 1..Total(p) : b[i] = q[i]
            BY <2>1, <2>2, <2>4
        <3>3. \A i \in 1..Total(p) : SubSeq(b, 1, Total(p))[i] = Bytes(p)[i]
            BY <2>1, <2>9, <3>1, <3>2, BytesProperties
        <3> QED BY <2>1, <3>1, <3>3, BytesProperties, SeqEqual
    <2>11. FirstPacket(s) = p
        BY <2>3, <2>10
    <2>12. p # Bye /\ p \in Kinds \ {Bye}
        BY <1>6, <2>1, <2>11
    <2>13. p \notin {Ping, Pong} <=> p \in Packets
        BY <2>12, KindProperties DEF Kinds
    <2>14. socket'[e] = Processed(s, p)
        BY <1>4, <1>6, <2>11
    <2> DEFINE v == w \o rest
    <2> HIDE DEF v
    <2>15. Pipe(e)' = v
        BY <1>3, <2>14 DEF Pipe, Processed, w, v
    <2>16. /\ v \in Seq(Byte) /\ Len(v) = Len(w) + Len(rest)
           /\ \A i \in 1..(Len(w) + Len(rest)) :
                 v[i] = IF i <= Len(w) THEN w[i] ELSE rest[i - Len(w)]
        BY <1>2, <2>1, ConcatProperties DEF v
    <2>17. \A i \in 1..Len(w) : w[i] = b[i + Total(p)]
        <3>1. \A i \in 1..Len(w) : w[i] = b[Total(p) + 1 + i - 1]
            BY <2>1, <2>2, PartIsSeq
        <3>2. \A i \in 1..Len(w) : Total(p) + 1 + i - 1 = i + Total(p)
            BY <2>1, <2>2
        <3> QED BY <3>1, <3>2
    <2>18. \A k \in 1..Len(v) : v[k] = q[k + Total(p)]
        <3> TAKE k \in 1..Len(v)
        <3>1. k + Total(p) \in 1..(Len(b) + Len(rest))
            BY SMTT(20), <2>1, <2>2, <2>4, <2>16
        <3>2. CASE k <= Len(w)
            <4>1. k \in 1..Len(w) /\ k + Total(p) <= Len(b)
                BY <2>1, <2>2, <2>16, <3>2
            <4>2. v[k] = w[k] /\ w[k] = b[k + Total(p)]
                BY <2>16, <2>17, <3>2, <4>1
            <4>3. q[k + Total(p)] = b[k + Total(p)]
                BY <2>4, <3>1, <4>1
            <4> QED BY <4>2, <4>3
        <3>3. CASE ~(k <= Len(w))
            <4> HIDE DEF rest, q
            <4>1. PICK i \in 1..(Len(b) + Len(rest)) : i = k + Total(p)
                BY <3>1
            <4>2. ~(i <= Len(b)) /\ k - Len(w) = i - Len(b)
                BY SMTT(20), <2>1, <2>2, <2>4, <2>16, <3>3, <4>1
            <4>3. v[k] = rest[k - Len(w)]
                BY <2>16, <3>3
            <4>4. q[i] = rest[i - Len(b)]
                BY <2>4, <4>2
            <4> QED BY <4>1, <4>2, <4>3, <4>4
        <3> QED BY <3>2, <3>3
    <2>19. Len(v) = Len(q) - Total(p)
        BY <2>1, <2>2, <2>4, <2>16
    <2>20. Dropped(q, Total(p), Pipe(e)')
        BY <2>15, <2>16, <2>18, <2>19 DEF Dropped
    <2>21. received'[e] = IF p \in Packets THEN Append(received[e], p) ELSE received[e]
        BY <1>4, <1>6, <2>11, <2>13
    <2>22. s.buffer # <<>>
        BY <2>1 DEF b
    <2> QED BY <1>6, <2>6, <2>8, <2>12, <2>14, <2>20, <2>21, <2>22
<1> QED BY <1>5, <1>6

\* What Iterate of e writes, on the pipe of the other end.
LEMMA IterateWrites ==
    ASSUME NEW e \in Ends, TypeOK, NEW n \in 0..Len(stream[e]), Iterate(e, n),
           ~(IsWhole(Read(e, n)) /\ FirstPacket(Read(e, n)) = Bye)
    PROVE  LET o == Other(e) IN
           /\ socket'[o] = socket[o] /\ received'[o] = received[o]
           /\ Runs(o) => Pipe(o)' = Pipe(o) \o PingOrPong(e)
           /\ \A f \in Ends : Runs(f)' = Runs(f)
           /\ sent' = sent
<1> DEFINE o == Other(e)
<1>1. o \in Ends /\ o # e
    BY EndsProperties
<1>2. /\ socket'[o] = socket[o] /\ received'[o] = received[o]
      /\ stream' = [Sent(e, PingOrPong(e)) EXCEPT ![e] = Rest(e, n)]
      /\ open' = open
    BY <1>1, IterateCases DEF TypeOK
<1>3. ASSUME Runs(o)
      PROVE  Pipe(o)' = Pipe(o) \o PingOrPong(e)
    <2>1. stream'[o] = stream[o] \o PingOrPong(e)
        BY <1>1, <1>2, <1>3 DEF Sent, TypeOK
    <2>2. socket[o].buffer \in Seq(Byte) /\ stream[o] \in Seq(Byte) /\ PingOrPong(e) \in Seq(Byte)
        BY <1>1, SocketTypes, PingOrPongType
    <2>3. Pipe(o)' = socket[o].buffer \o (stream[o] \o PingOrPong(e))
        BY <1>2, <2>1 DEF Pipe
    <2>4. socket[o].buffer \o (stream[o] \o PingOrPong(e))
            = (socket[o].buffer \o stream[o]) \o PingOrPong(e)
        BY <2>2, BytesAssociative
    <2> QED BY <2>3, <2>4 DEF Pipe
<1>4. alive' = alive /\ sent' = sent
    BY DEF Iterate
<1> QED BY <1>2, <1>3, <1>4 DEF Runs

\* An end whose socket is closed leaves the other a part of what was coming.
LEMMA ClosedPipe ==
    ASSUME NEW e \in Ends, TypeOK, NEW out, CloseSocket(e, out), Runs(Other(e))
    PROVE  LET o == Other(e) IN
           /\ \E rest \in Prefixes(stream[o] \o out \o Bytes(Bye)) :
                 Pipe(o)' = socket[o].buffer \o rest
           /\ open'[o] = open[o] /\ ~open'[e]
           /\ socket'[o] = socket[o]
<1> DEFINE o == Other(e)
<1>1. o \in Ends /\ o # e
    BY EndsProperties
<1>2. PICK rest \in Prefixes(stream[o] \o out \o Bytes(Bye)) :
        stream' = [stream EXCEPT ![e] = <<>>, ![o] = IF Runs(o) THEN rest ELSE <<>>]
    BY DEF CloseSocket
<1>3. stream'[o] = rest
    BY <1>1, <1>2 DEF TypeOK
<1>4. socket'[o] = socket[o] /\ open'[o] = open[o] /\ ~open'[e]
    BY <1>1 DEF CloseSocket, TypeOK
<1> QED BY <1>3, <1>4 DEF Pipe

LEMMA CloseKeepsConn ==
    ASSUME NEW e \in Ends, TypeOK, ConnInv, NEW out \in Outs, Runs(e), CloseSocket(e, out),
           alive' = alive, sent' = sent, received' = received
    PROVE  ConnInv'
<1> DEFINE o == Other(e)
<1>1. o \in Ends /\ Other(o) = e /\ \A f \in Ends : f = e \/ f = o
    BY EndsProperties
<1>2. ~Runs(e)'
    BY DEF CloseSocket, TypeOK, Runs
<1>3. Runs(o)' => Runs(o)
    BY <1>1, EndsProperties DEF CloseSocket, TypeOK, Runs
<1>4. ASSUME Runs(o)
      PROVE  Carries(o)'
    <2>1. PICK rest \in Prefixes(stream[o] \o out \o Bytes(Bye)) :
            Pipe(o)' = socket[o].buffer \o rest
        BY <1>4, ClosedPipe
    <2>2. Carried(Pipe(o), received[o], sent[e], TRUE)
        BY <1>1, <1>4 DEF ConnInv, Carries, Carried
    <2>3. /\ socket[o].buffer \in Seq(Byte) /\ stream[o] \in Seq(Byte)
          /\ sent[e] \in Seq(Packets) /\ Len(received[o]) \in Nat
        BY <1>1, SocketTypes, PipeTypes
    <2>4. Carried(Pipe(o)', received[o], sent[e], FALSE)
        BY <2>1, <2>2, <2>3, CutIsCarried DEF Pipe
    <2> QED BY <1>1, <1>2, <2>4 DEF Carries, Carried
<1> QED BY <1>1, <1>2, <1>3, <1>4 DEF ConnInv

LEMMA VanishKeepsConn ==
    ASSUME NEW e \in Ends, TypeOK, ConnInv, Vanish(e)
    PROVE  ConnInv'
<1> DEFINE o == Other(e)
<1>1. o \in Ends /\ Other(o) = e /\ o # e /\ \A f \in Ends : f = e \/ f = o
    BY EndsProperties
<1>2. ~Runs(e)' /\ Runs(e) /\ sent' = sent /\ received' = received /\ socket' = socket
    BY DEF Vanish, TypeOK, Runs, historyVars
<1>3. Runs(o)' => Runs(o)
    BY <1>1 DEF Vanish, TypeOK, Runs
<1>4. ASSUME Runs(o)
      PROVE  Carries(o)'
    <2>1. PICK rest \in Prefixes(stream[o]) : stream' = [stream EXCEPT ![e] = <<>>, ![o] = rest]
        BY DEF Vanish
    <2>2. Pipe(o)' = socket[o].buffer \o rest
        BY <1>1, <1>2, <2>1 DEF TypeOK, Pipe
    <2>3. Carried(Pipe(o), received[o], sent[e], TRUE)
        BY <1>1, <1>2, <1>4 DEF ConnInv, Carries, Carried
    <2>4. /\ socket[o].buffer \in Seq(Byte) /\ stream[o] \in Seq(Byte)
          /\ sent[e] \in Seq(Packets) /\ Len(received[o]) \in Nat
        BY <1>1, SocketTypes, PipeTypes
    <2>5. <<>> \in Outs
        BY DEF Outs
    <2>6. Carried(Pipe(o)', received[o], sent[e], FALSE)
        BY <2>2, <2>3, <2>4, <2>5, CutIsCarried DEF Pipe
    <2> QED BY <1>1, <1>2, <2>6 DEF Carries, Carried
<1> QED BY <1>1, <1>2, <1>3, <1>4 DEF ConnInv

LEMMA WriteKeepsConn ==
    ASSUME NEW e \in Ends, NEW size \in PacketSizes, TypeOK, RoomEnough, ConnInv,
           WriteToSocket(e, size)
    PROVE  /\ ConnInv'
           /\ \E p \in Packets : sent' = [sent EXCEPT ![e] = Append(@, p)]
           /\ Runs(Other(e)) =>
                 \E p \in Packets : Pipe(Other(e))' = Pipe(Other(e)) \o Bytes(p)
<1> DEFINE o == Other(e)
           p == [type |-> "packet", id |-> Len(sent[e]) + 1, size |-> size]
<1>1. o \in Ends /\ Other(o) = e /\ o # e /\ \A f \in Ends : f = e \/ f = o
    BY EndsProperties
<1>2. p \in Packets /\ p.id = Len(sent[e]) + 1
    BY WriteTypes
<1>3. /\ Runs(e) /\ \A f \in Ends : Runs(f)' = Runs(f)
      /\ sent' = [sent EXCEPT ![e] = Append(@, p)]
      /\ stream' = Sent(e, Written(e, p))
      /\ socket' = socket /\ received' = received
    BY DEF WriteToSocket, Runs
<1> HIDE DEF p
<1>4. Written(e, p) = Bytes(p)
    BY <1>1, <1>2, WrittenProperties DEF Kinds, RoomEnough
<1>5. sent[e] \in Seq(Packets) /\ Len(sent[e]) \in Nat /\ sent[o] \in Seq(Packets)
    BY <1>1, PipeTypes
<1>6. sent'[e] = Append(sent[e], p) /\ sent'[o] = sent[o]
    BY <1>1, <1>3 DEF TypeOK
<1>7. Numbered(sent'[e])
    <2>1. Numbered(sent[e])
        BY DEF ConnInv
    <2> QED BY <1>2, <1>5, <1>6, <2>1, AppendProperties DEF Numbered
<1>8. ASSUME Runs(o)
      PROVE  Pipe(o)' = Pipe(o) \o Bytes(p) /\ Carries(o)'
    <2>1. stream'[o] = stream[o] \o Bytes(p)
        BY <1>1, <1>3, <1>4, <1>8 DEF Sent, TypeOK
    <2>2. socket[o].buffer \in Seq(Byte) /\ stream[o] \in Seq(Byte) /\ Bytes(p) \in Seq(Byte)
        BY <1>1, <1>2, SocketTypes, BytesProperties DEF Kinds
    <2>3. Pipe(o)' = socket[o].buffer \o (stream[o] \o Bytes(p))
        BY <1>3, <2>1 DEF Pipe
    <2>4. Pipe(o)' = Pipe(o) \o Bytes(p)
        <3>1. socket[o].buffer \o (stream[o] \o Bytes(p))
                = (socket[o].buffer \o stream[o]) \o Bytes(p)
            BY <2>2, BytesAssociative
        <3> QED BY <2>3, <3>1 DEF Pipe
    <2>5. Carried(Pipe(o), received[o], sent[e], TRUE)
        BY <1>1, <1>3, <1>8 DEF ConnInv, Carries, Carried
    <2>6. Pipe(o) \in Seq(Byte) /\ Len(received[o]) \in Nat
        BY <1>1, PipeTypes
    <2>7. Carried(Pipe(o)', received[o], sent'[e], TRUE)
        BY <1>2, <1>5, <1>6, <2>4, <2>5, <2>6, NextIsCarried
    <2> QED BY <1>1, <1>3, <2>4, <2>7 DEF Carries, Carried
<1>9. Carries(e) => Carries(e)'
    <2>1. stream'[e] = stream[e]
        BY <1>1, <1>3 DEF Sent, TypeOK
    <2>2. Pipe(e)' = Pipe(e)
        BY <1>3, <2>1 DEF Pipe
    <2> QED BY <1>1, <1>3, <1>6, <2>2 DEF Carries
<1>10. ConnInv'
    <2>1. \A f \in Ends : Numbered(sent'[f])
        BY <1>1, <1>6, <1>7 DEF ConnInv
    <2>2. \A f \in Ends : Runs(f)' => Carries(f)'
        BY <1>1, <1>3, <1>8, <1>9 DEF ConnInv
    <2> QED BY <2>1, <2>2 DEF ConnInv
<1> QED BY <1>2, <1>3, <1>8, <1>10

\* What e passes on: nothing, or the next packet.
PassesOn(e) ==
    \/ received'[e] = received[e]
    \/ /\ Len(received[e]) + 1 \in 1..Len(sent[Other(e)])
       /\ received'[e] = Append(received[e], sent[Other(e)][Len(received[e]) + 1])

LEMMA ReadKeepsConn ==
    ASSUME NEW e \in Ends, TypeOK, ConnInv, NEW n \in 0..Len(stream[e]), Iterate(e, n),
           ~(IsWhole(Read(e, n)) /\ FirstPacket(Read(e, n)) = Bye)
    PROVE  Carries(e)' /\ PassesOn(e)
<1> DEFINE o == Other(e)
           s == sent[o]
           r == received[e]
           q == Pipe(e)
<1>1. o \in Ends /\ Other(o) = e
    BY EndsProperties
<1>2. s \in Seq(Packets) /\ Len(r) \in Nat /\ q \in Seq(Byte)
      /\ r \in Seq(Packets \cup {Garbage})
    BY PipeTypes
<1>3. Runs(e) /\ Numbered(s) /\ Carried(q, r, s, Runs(o))
    BY <1>1 DEF Iterate, ConnInv, Carries
<1>4. Framed(q) /\ InOrder(q, Len(r), s) /\ Len(r) <= Len(s)
      /\ (Runs(o) => Ended(q) /\ Present(q, Len(r), s))
    BY <1>3 DEF Carried
<1>5. sent'[o] = s /\ (Runs(o)' = Runs(o))
    BY <1>1, IterateWrites
<1>6. CASE Pipe(e)' = q /\ received'[e] = r
    BY <1>3, <1>5, <1>6 DEF Carries, PassesOn
<1>7. ASSUME NEW p \in Kinds \ {Bye}, q # <<>>, q[1][1] = p, Dropped(q, Total(p), Pipe(e)'),
             received'[e] = IF p \in Packets THEN Append(r, p) ELSE r
      PROVE  Carries(e)' /\ PassesOn(e)
    <2> DEFINE x == Pipe(e)'
    <2>1. Framed(x) /\ (Ended(q) => Ended(x))
        BY <1>2, <1>4, <1>7, DroppedIsFramed
    <2>2. CASE p \notin Packets
        <3>1. p \in Kinds \ Packets
            BY <2>2
        <3>2. InOrder(x, Len(r), s) /\ (Present(q, Len(r), s) => Present(x, Len(r), s))
            BY <1>2, <1>4, <1>7, <3>1, DroppedOther
        <3>3. received'[e] = r
            BY <1>7, <2>2
        <3>4. Carried(x, r, s, Runs(o))
            BY <1>4, <2>1, <3>2 DEF Carried
        <3> QED BY <1>5, <3>3, <3>4 DEF Carries, PassesOn
    <2>3. CASE p \in Packets
        <3>1. /\ Len(r) + 1 \in 1..Len(s) /\ s[Len(r) + 1] = p
              /\ InOrder(x, Len(r) + 1, s)
              /\ Present(q, Len(r), s) => Present(x, Len(r) + 1, s)
            <4>1. /\ q \in Seq(Byte) /\ s \in Seq(Packets) /\ Len(r) \in Nat
                  /\ Framed(q) /\ InOrder(q, Len(r), s) /\ Numbered(s)
                BY <1>2, <1>3, <1>4
            <4>2. p \in Kinds /\ q # <<>> /\ q[1][1] = p /\ Dropped(q, Total(p), x)
                BY <1>7
            <4> HIDE DEF q, r, s, x
            <4>3. /\ IsAt(s, Len(r) + 1, p) /\ InOrder(x, Len(r) + 1, s)
                  /\ Present(q, Len(r), s) => Present(x, Len(r) + 1, s)
                BY <2>3, <4>1, <4>2, DroppedNext
            <4> QED BY <4>3 DEF IsAt
        <3>2. received'[e] = Append(r, p) /\ Len(received'[e]) = Len(r) + 1
            BY <1>2, <1>7, <2>3, AppendProperties
        <3>3. Carried(x, received'[e], s, Runs(o))
            BY <1>2, <1>4, <2>1, <3>1, <3>2 DEF Carried
        <3>4. PassesOn(e)
            BY <3>1, <3>2 DEF PassesOn
        <3> QED BY <1>5, <3>3, <3>4 DEF Carries
    <2> QED BY <2>2, <2>3
<1> QED BY <1>4, <1>6, <1>7, IterateReads

LEMMA IterateKeepsConn ==
    ASSUME NEW e \in Ends, TypeOK, RoomEnough, ConnInv,
           NEW n \in 0..Len(stream[e]), Iterate(e, n)
    PROVE  ConnInv' /\ PassesOn(e) /\ received'[Other(e)] = received[Other(e)] /\ sent' = sent
           /\ Runs(Other(e))' = Runs(Other(e))
           /\ (Runs(e)' \/ received' = received)
<1> DEFINE o == Other(e)
           closes == IsWhole(Read(e, n)) /\ FirstPacket(Read(e, n)) = Bye
<1>1. o \in Ends /\ Other(o) = e /\ o # e /\ \A f \in Ends : f = e \/ f = o
    BY EndsProperties
<1>2. alive' = alive /\ sent' = sent /\ Runs(e)
    BY DEF Iterate
<1>3. CASE closes
    <2>1. CloseSocket(e, PingOrPong(e)) /\ received' = received
        BY <1>3, IterateCases
    <2>2. ConnInv'
        BY <1>2, <2>1, PingOrPongOut, CloseKeepsConn
    <2>3. Runs(o)' = Runs(o)
        BY <1>1, <1>2, <2>1 DEF CloseSocket, TypeOK, Runs
    <2> QED BY <1>2, <2>1, <2>2, <2>3 DEF PassesOn
<1>4. CASE ~closes
    <2>1. Carries(e)' /\ PassesOn(e)
        BY <1>4, ReadKeepsConn
    <2>2. /\ received'[o] = received[o]
          /\ Runs(o) => Pipe(o)' = Pipe(o) \o PingOrPong(e)
          /\ \A f \in Ends : Runs(f)' = Runs(f)
        BY <1>4, IterateWrites
    <2>3. ASSUME Runs(o)
          PROVE  Carries(o)'
        <3>1. Carried(Pipe(o), received[o], sent[e], TRUE)
            BY <1>1, <1>2, <2>3 DEF ConnInv, Carries, Carried
        <3>2. Pipe(o) \in Seq(Byte) /\ sent[e] \in Seq(Packets) /\ Len(received[o]) \in Nat
            BY <1>1, PipeTypes
        <3>3. Carried(Pipe(o)', received[o], sent[e], TRUE)
            BY <2>2, <2>3, <3>1, <3>2, PingOrPongOut, OutIsCarried
        <3> QED BY <1>1, <1>2, <2>2, <3>3 DEF Carries, Carried
    <2>4. ConnInv'
        BY <1>1, <1>2, <2>1, <2>2, <2>3 DEF ConnInv
    <2> QED BY <1>1, <1>2, <2>1, <2>2, <2>4
<1> QED BY <1>3, <1>4

LEMMA InitConn == Init => ConnInv
<1> SUFFICES ASSUME Init
             PROVE  ConnInv
    OBVIOUS
<1>1. \A e \in Ends : Pipe(e) = <<>> /\ sent[e] = <<>> /\ received[e] = <<>>
    BY ConcatEmptySeq, EmptySeq DEF Init, Pipe, NewSocket
<1>2. Len(<<>>) = 0
    BY EmptySeq
<1>3. Framed(<<>>) /\ Ended(<<>>) /\ InOrder(<<>>, 0, <<>>) /\ Present(<<>>, 0, <<>>)
    BY <1>2, EmptyIsFramed
<1>4. \A e \in Ends : Other(e) \in Ends
    BY EndsProperties
<1> QED BY <1>1, <1>2, <1>3, <1>4 DEF ConnInv, Carries, Carried, Numbered

LEMMA SameKeepsConn ==
    ASSUME ConnInv, \A e \in Ends : Pipe(e)' = Pipe(e) /\ Runs(e)' = Runs(e),
           sent' = sent, received' = received
    PROVE  ConnInv'
<1>1. \A e \in Ends : Other(e) \in Ends
    BY EndsProperties
<1> QED BY <1>1 DEF ConnInv, Carries

LEMMA TickPipes ==
    ASSUME TypeOK, Tick
    PROVE  \A e \in Ends : Pipe(e)' = Pipe(e) /\ Runs(e)' = Runs(e)
                           /\ socket'[e].buffer = socket[e].buffer
<1> TAKE e \in Ends
<1>1. socket'[e].buffer = socket[e].buffer
    BY SocketTypes DEF Tick, Socket
<1> QED BY <1>1 DEF Tick, Pipe, Runs

LEMMA StepConn == TypeOK /\ RoomEnough /\ ConnInv /\ [Next]_vars => ConnInv'
<1> SUFFICES ASSUME TypeOK, RoomEnough, ConnInv, [Next]_vars
             PROVE  ConnInv'
    OBVIOUS
<1>1. <<>> \in Outs
    BY DEF Outs
<1>2. ASSUME NEW e \in Ends, PingTimeout(e) \/ Fail(e) \/ Disconnect(e)
      PROVE  ConnInv'
    <2>1. Runs(e) /\ CloseSocket(e, <<>>) /\ alive' = alive /\ sent' = sent
          /\ received' = received
        BY <1>2 DEF PingTimeout, Fail, Disconnect, historyVars
    <2> QED BY <1>1, <2>1, CloseKeepsConn
<1>3. ASSUME NEW e \in Ends, IterateSome(e)
      PROVE  ConnInv'
    BY <1>3, IterateKeepsConn DEF IterateSome
<1>4. CASE Tick
    BY <1>4, TickPipes, SameKeepsConn DEF Tick, historyVars
<1>5. CASE UNCHANGED vars
    <2>1. \A e \in Ends : Pipe(e)' = Pipe(e) /\ Runs(e)' = Runs(e)
        BY <1>5 DEF vars, Pipe, Runs
    <2> QED BY <1>5, <2>1, SameKeepsConn DEF vars, historyVars
<1>6. ASSUME NEW e \in Ends, NEW size \in PacketSizes, WriteToSocket(e, size)
      PROVE  ConnInv'
    BY <1>6, WriteKeepsConn
<1> QED BY <1>2, <1>3, <1>4, <1>5, <1>6, VanishKeepsConn DEF Next

\* While there is room, what is on its way is packets, whole and in order:
\* the inductive invariant.
THEOREM PacketsStayWhole == Spec /\ []RoomEnough => []ConnInv
<1>1. Init => TypeOK /\ ConnInv
    BY InitTypes, InitConn
<1>2. TypeOK /\ RoomEnough /\ ConnInv /\ [Next]_vars => TypeOK' /\ ConnInv'
    BY StepTypes, StepConn
<1> QED BY <1>1, <1>2, PTL DEF Spec

-----------------------------------------------------------------------------
(* The queue *)

LEMMA StepQueue ==
    ASSUME TypeOK, RoomEnough, ConnInv, [Next]_vars
    PROVE  [Queue!Next]_(Queue!vars)
<1> USE DEF Queue!vars
<1>1. "client" \in Ends /\ "server" \in Ends
      /\ Other("client") = "server" /\ Other("server") = "client"
    BY DEF Ends, Other
<1>2. ASSUME NEW e \in Ends, PingTimeout(e) \/ Fail(e) \/ Disconnect(e) \/ Vanish(e)
      PROVE  [Queue!Next]_(Queue!vars)
    <2>1. sent' = sent /\ received' = received /\ Runs(e) /\ ~Runs(e)'
        BY <1>2 DEF PingTimeout, Fail, Disconnect, Vanish, CloseSocket, historyVars, TypeOK, Runs
    <2>2. CASE e = "server"
        BY <2>1, <2>2 DEF Queue!Next, Queue!Close
    <2>3. CASE e = "client"
        <3>1. Runs("server")' = Runs("server")
            BY <1>1, <1>2, <2>3
               DEF PingTimeout, Fail, Disconnect, Vanish, CloseSocket, historyVars, TypeOK, Runs
        <3> QED BY <2>1, <3>1
    <2> QED BY <2>2, <2>3 DEF Ends
<1>3. ASSUME NEW e \in Ends, NEW n \in 0..Len(stream[e]), Iterate(e, n)
      PROVE  [Queue!Next]_(Queue!vars)
    <2>1. /\ PassesOn(e) /\ received'[Other(e)] = received[Other(e)] /\ sent' = sent
          /\ Runs(Other(e))' = Runs(Other(e))
          /\ Runs(e)' \/ received' = received
          /\ Runs(e)
        BY <1>3, IterateKeepsConn DEF Iterate
    <2>2. CASE e = "client"
        BY <1>1, <2>1, <2>2
    <2>3. CASE e = "server"
        <3>1. /\ sent' = sent /\ Runs("server")
              /\ Runs("server")' \/ received' = received
              /\ \/ received'["server"] = received["server"]
                 \/ /\ Len(received["server"]) + 1 \in 1..Len(sent["client"])
                    /\ received'["server"] = Append(received["server"],
                                                    sent["client"][Len(received["server"]) + 1])
            BY <1>1, <2>1, <2>3 DEF PassesOn
        <3>2. CASE ~Runs("server")'
            <4>1. Queue!Close
                BY <3>1, <3>2 DEF Queue!Close
            <4> QED BY <4>1 DEF Queue!Next
        <3>3. CASE Runs("server")' /\ received'["server"] = received["server"]
            <4>1. Runs("server")' = Runs("server")
                BY <3>1, <3>3 DEF Runs
            <4> QED BY <3>1, <3>3, <4>1
        <3>4. CASE /\ Runs("server")'
                   /\ Len(received["server"]) + 1 \in 1..Len(sent["client"])
                   /\ received'["server"] = Append(received["server"],
                                                   sent["client"][Len(received["server"]) + 1])
            <4>1. Len(received["server"]) \in Nat /\ Len(sent["client"]) \in Nat
                BY <1>1, PipeTypes
            <4>2. Len(received["server"]) < Len(sent["client"])
                BY <3>4, <4>1
            <4>3. Runs("server")' = Runs("server")
                BY <3>1, <3>4 DEF Runs
            <4>4. Queue!Receive
                BY <3>1, <3>4, <4>2, <4>3 DEF Queue!Receive
            <4> QED BY <4>4 DEF Queue!Next
        <3> QED BY <3>1, <3>2, <3>3, <3>4
    <2> QED BY <2>2, <2>3 DEF Ends
<1>4. CASE Tick
    <2>1. sent' = sent /\ received' = received
        BY <1>4 DEF Tick, historyVars
    <2> QED BY <1>1, <1>4, <2>1, TickPipes
<1>5. CASE UNCHANGED vars
    BY <1>5 DEF vars, historyVars, Runs
<1>6. ASSUME NEW e \in Ends, NEW size \in PacketSizes, WriteToSocket(e, size)
      PROVE  [Queue!Next]_(Queue!vars)
    <2>1. PICK p \in Packets : sent' = [sent EXCEPT ![e] = Append(@, p)]
        BY <1>6, WriteKeepsConn
    <2>2. received' = received /\ Runs("server")' = Runs("server")
        BY <1>6 DEF WriteToSocket, Runs
    <2>3. CASE e = "client"
        <3>1. sent'["client"] = Append(sent["client"], p)
            BY <1>1, <2>1, <2>3 DEF TypeOK
        <3>2. Queue!Send(p)
            BY <2>2, <3>1 DEF Queue!Send
        <3> QED BY <3>2 DEF Queue!Next
    <2>4. CASE e = "server"
        <3>1. sent'["client"] = sent["client"]
            BY <1>1, <2>1, <2>4 DEF TypeOK
        <3> QED BY <2>2, <3>1
    <2> QED BY <2>3, <2>4 DEF Ends
<1> QED BY <1>2, <1>3, <1>4, <1>5, <1>6 DEF Next, IterateSome

\* While there is room, packets are passed on whole, in order, none lost and
\* none twice, however the bytes are cut, until the receiver is closed
\* (ReadFromSocket, ProcessData): the queue of PacketQueue but for its fairness.
THEOREM PacketsInOrder == Spec /\ []RoomEnough => Queue!Init /\ [][Queue!Next]_(Queue!vars)
<1>1. Init => Queue!Init
    BY DEF Init, Queue!Init, Ends, Runs
<1>2. TypeOK /\ RoomEnough /\ ConnInv /\ [Next]_vars => [Queue!Next]_(Queue!vars)
    BY StepQueue
<1> QED BY <1>1, <1>2, TypeCorrect, PacketsStayWhole, PTL DEF Spec

-----------------------------------------------------------------------------
(* Pings *)

\* The programs are on time, and patient enough: a ping is wanted in the second
\* after SEND_PING_AFTER, sent in the next one, and answered in the third.
Timely == Punctual /\ SendPingAfter + 3 <= DisconnectAfter

\* After a second without data nothing is left to be taken out.
Clean(e) ==
    /\ socket[e].age > 0 => socket[e].buffer = <<>>
    /\ socket[e].ping_needed => socket[e].buffer = <<>>
    /\ socket[e].pong_needed => ~socket[e].ping_needed

Asks(e) ==
    /\ \/ socket[e].age >= SendPingAfter + 1 /\ iterated[e]
       \/ socket[e].age >= SendPingAfter + 2
       => socket[e].ping_needed \/ socket[e].ping_sent
    /\ \/ socket[e].age >= SendPingAfter + 2 /\ iterated[e]
       \/ socket[e].age >= SendPingAfter + 3
       => socket[e].ping_sent

\* A ping without a pong is on its way, has arrived, or its pong is on its way.
IsAnswered(e) ==
    /\ socket[e].ping_sent =>
          \/ Has(Pipe(Other(e)), Ping)
          \/ socket[Other(e)].pong_needed
          \/ Has(Pipe(e), Pong)
    /\ socket[e].age >= SendPingAfter + 3 =>
          \/ Has(Pipe(e), Pong)
          \/ ~iterated[Other(e)] /\ socket[Other(e)].pong_needed

Patient(e) == Clean(e) /\ Asks(e) /\ IsAnswered(e) /\ socket[e].age <= SendPingAfter + 3

PingInv ==
    Timely =>
        /\ \A e \in Ends : Runs(e) /\ Runs(Other(e)) => Patient(e)
        /\ \A e \in Ends : timed_out[e] => ~Runs(Other(e))

LEMMA HasExtended ==
    ASSUME NEW q \in Seq(Byte), NEW p \in Kinds
    PROVE  /\ \A r : Has(q, r) => Has(q \o Bytes(p), r)
           /\ Has(q \o Bytes(p), p)
<1>1. \A k \in 1..Len(q) : k \in 1..Len(q \o Bytes(p))
    BY ExtendedProperties
<1>2. \A k \in 1..Len(q) : \A r : Starts(q \o Bytes(p), k, r) <=> Starts(q, k, r)
    BY ExtendedStarts
<1>3. Starts(q \o Bytes(p), Len(q) + 1, p)
    BY ExtendedStarts
<1>4. Len(q) + 1 \in 1..Len(q \o Bytes(p))
    BY <1>3 DEF Starts
<1> QED BY <1>1, <1>2, <1>3, <1>4 DEF Has

LEMMA HasAfterOut ==
    ASSUME NEW q \in Seq(Byte), NEW out \in Outs
    PROVE  /\ \A r : Has(q, r) => Has(q \o out, r)
           /\ \A p \in {Ping, Pong} : out = Bytes(p) => Has(q \o out, p)
<1>1. Ping \in Kinds /\ Pong \in Kinds
    BY DEF Kinds
<1>2. CASE out = <<>>
    <2>1. q \o out = q
        BY <1>2, ConcatEmptySeq
    <2>2. ASSUME NEW p \in {Ping, Pong}, out = Bytes(p)
          PROVE  FALSE
        <3>1. Len(Bytes(p)) # 0
            BY <1>1, BytesProperties, KindProperties
        <3> QED BY <1>2, <2>2, <3>1, EmptySeq
    <2> QED BY <2>1, <2>2
<1>3. ASSUME NEW p \in {Ping, Pong}, out = Bytes(p)
      PROVE  Has(q \o out, p) /\ \A r : Has(q, r) => Has(q \o out, r)
    BY <1>1, <1>3, HasExtended
<1> QED BY <1>2, <1>3 DEF Outs

LEMMA HasNot == \A p : ~Has(<<>>, p)
<1>1. Len(<<>>) = 0
    BY EmptySeq
<1> QED BY <1>1 DEF Has

\* When everything is read and nothing is cut off, nothing is left.
LEMMA AllReadIsNothing ==
    ASSUME NEW e \in Ends, TypeOK, Framed(Pipe(e)), Ended(Pipe(e)), HasReadAll(e)
    PROVE  socket[e].buffer = <<>> /\ Pipe(e) = <<>>
<1> DEFINE q == Pipe(e)
           b == socket[e].buffer
<1>1. q \in Seq(Byte) /\ b \in Seq(Byte) /\ Len(b) \in Nat
    BY PipeTypes, SocketTypes
<1>2. q = b /\ ~IsWhole(socket[e])
    BY <1>1, ConcatEmptySeq DEF HasReadAll, Pipe
<1>3. ~(Len(b) >= HeaderSize /\ Len(b) >= Total(b[1][1]))
    BY <1>2 DEF IsWhole
<1> HIDE DEF q, b
<1>4. Framed(b) /\ Ended(b)
    BY <1>2 DEF q
<1>5. CASE b # <<>>
    <2>1. b[1][1] \in Kinds /\ Total(b[1][1]) <= Len(b)
        BY <1>1, <1>4, <1>5, FirstProperties
    <2>2. HeaderSize <= Total(b[1][1]) /\ Total(b[1][1]) \in Nat /\ HeaderSize \in Nat
        BY <2>1, KindProperties
    <2> QED BY <1>1, <1>3, <2>1, <2>2
<1> QED BY <1>2, <1>5 DEF q, b

\* What Iterate does to the state of the pings: p is the packet that it takes
\* out, or nothing (Garbage).
Pinged(e, n, p) ==
    /\ socket'[e].age = IF n = 0 THEN socket[e].age ELSE 0
    /\ socket'[e].ping_sent <=> (socket[e].ping_sent \/ SendsPing(e)) /\ p # Pong
    /\ socket'[e].pong_needed <=> p = Ping
    /\ socket'[e].ping_needed <=>
          n = 0 /\ (socket[e].ping_needed
                    \/ (socket[e].age > SendPingAfter /\ ~(socket[e].ping_sent \/ SendsPing(e))))
    /\ socket'[e].age > 0 \/ socket'[e].ping_needed => socket'[e].buffer = <<>> /\ p = Garbage
    /\ \A r : r # p /\ Has(Pipe(e), r) => Has(Pipe(e)', r)

LEMMA GarbageProperties == Garbage # Ping /\ Garbage # Pong /\ Ping # Pong
BY DEF Garbage, Ping, Pong

LEMMA IteratePings ==
    ASSUME NEW e \in Ends, TypeOK, NEW n \in 0..Len(stream[e]), Iterate(e, n),
           Framed(Pipe(e)), Clean(e),
           ~(IsWhole(Read(e, n)) /\ FirstPacket(Read(e, n)) = Bye)
    PROVE  \E p : Pinged(e, n, p)
<1> DEFINE s == Read(e, n)
           x == socket[e]
<1>1. /\ s \in Socket
      /\ n = 0 => s.buffer = x.buffer
      /\ s.age = IF n = 0 THEN x.age ELSE 0
      /\ s.ping_sent <=> x.ping_sent \/ SendsPing(e)
      /\ s.pong_needed <=> n = 0 /\ x.pong_needed /\ ~SendsPong(e)
      /\ s.ping_needed <=>
            n = 0 /\ (x.ping_needed \/ (x.age > SendPingAfter /\ ~s.ping_sent))
    BY ReadProperties DEF Socket
<1>2. SendPingAfter \in Nat /\ x.age \in Nat
    BY SocketTypes, TimesAssumption
<1>3. ~s.pong_needed
    <2>1. x.pong_needed => SendsPong(e)
        BY DEF Clean, SendsPing, SendsPong
    <2> QED BY <1>1, <2>1
<1>4. s.age > 0 \/ s.ping_needed => s.buffer = <<>>
    <2>1. s.age > 0 => s.buffer = <<>>
        BY <1>1, <1>2 DEF Clean
    <2>2. s.ping_needed => s.buffer = <<>>
        BY <1>1, <1>2 DEF Clean
    <2> QED BY <2>1, <2>2
<1>5. CASE ~IsWhole(s) /\ socket'[e] = s /\ Pipe(e)' = Pipe(e)
    <2>1. Pinged(e, n, Garbage)
        <3> HIDE DEF s
        <3> QED BY <1>1, <1>3, <1>4, <1>5, GarbageProperties DEF Pinged
    <2> QED BY <2>1
<1>6. ASSUME NEW p \in Kinds \ {Bye}, socket'[e] = Processed(s, p), s.buffer # <<>>,
             Pipe(e) # <<>>, Pipe(e)[1][1] = p, Dropped(Pipe(e), Total(p), Pipe(e)')
      PROVE  \E r : Pinged(e, n, r)
    <2>1. ~(s.age > 0) /\ ~s.ping_needed
        BY <1>4, <1>6
    <2>2. /\ socket'[e].age = s.age
          /\ socket'[e].ping_needed <=> s.ping_needed
          /\ socket'[e].pong_needed <=> s.pong_needed \/ p = Ping
          /\ socket'[e].ping_sent <=> s.ping_sent /\ p # Pong
        <3> HIDE DEF s
        <3> QED BY <1>1, <1>6 DEF Processed, Socket
    <2>3. \A r : r # p /\ Has(Pipe(e), r) => Has(Pipe(e)', r)
        <3>1. Pipe(e) \in Seq(Byte) /\ p \in Kinds
            BY <1>6, PipeTypes
        <3> QED BY <1>6, <3>1, HasDropped
    <2>4. Pinged(e, n, p)
        <3> HIDE DEF s
        <3> QED BY <1>1, <1>3, <2>1, <2>2, <2>3 DEF Pinged
    <2> QED BY <2>4
<1> QED BY <1>5, <1>6, IterateReads

\* The end that iterates: a ping is sent in time, and answered or still answered.
LEMMA IteratePatience ==
    ASSUME NEW e \in Ends, TypeOK, RoomEnough, NEW n \in 0..Len(stream[e]), Iterate(e, n),
           Framed(Pipe(e)), Runs(Other(e)), Patient(e),
           ~(IsWhole(Read(e, n)) /\ FirstPacket(Read(e, n)) = Bye)
    PROVE  Patient(e)'
<1> DEFINE o == Other(e)
           x == socket[e]
           y == socket'[e]
<1>1. o \in Ends /\ o # e
    BY EndsProperties
<1>2. Clean(e) /\ Asks(e) /\ IsAnswered(e) /\ x.age <= SendPingAfter + 3
    BY DEF Patient
<1>3. PICK p : Pinged(e, n, p)
    BY <1>2, IteratePings
<1>4. SendPingAfter \in Nat /\ x.age \in Nat /\ n \in Nat
    BY SocketTypes, TimesAssumption
<1>5. /\ y.age = IF n = 0 THEN x.age ELSE 0
      /\ y.ping_sent <=> (x.ping_sent \/ SendsPing(e)) /\ p # Pong
      /\ y.pong_needed <=> p = Ping
      /\ y.ping_needed <=>
            n = 0 /\ (x.ping_needed
                      \/ (x.age > SendPingAfter /\ ~(x.ping_sent \/ SendsPing(e))))
      /\ y.age > 0 \/ y.ping_needed => y.buffer = <<>> /\ p = Garbage
      /\ \A r : r # p /\ Has(Pipe(e), r) => Has(Pipe(e)', r)
    BY <1>3 DEF Pinged
<1>6. /\ socket'[o] = socket[o]
      /\ Pipe(o)' = Pipe(o) \o PingOrPong(e)
    BY IterateWrites
<1>7. iterated'[e] /\ iterated'[o] = iterated[o]
    BY <1>1 DEF Iterate, TypeOK
<1>8. /\ \A r : Has(Pipe(o), r) => Has(Pipe(o)', r)
      /\ SendsPing(e) => Has(Pipe(o)', Ping)
    BY <1>1, <1>6, PipeTypes, PingOrPongOut, HasAfterOut
<1>9. x.ping_needed => x.ping_sent \/ SendsPing(e)
    BY DEF SendsPing
<1>10. y.age > 0 => n = 0 /\ y.age = x.age /\ p = Garbage
    BY <1>4, <1>5
<1> HIDE DEF x, y
<1>11. Clean(e)'
    <2>1. y.pong_needed => ~y.ping_needed
        BY <1>5, GarbageProperties
    <2> QED BY <1>5, <2>1 DEF Clean, y
<1>12. Asks(e)'
    <2>1. y.age >= SendPingAfter + 1 => y.ping_needed \/ y.ping_sent
        BY <1>4, <1>5, <1>10, GarbageProperties
    <2>2. y.age >= SendPingAfter + 2 => y.ping_sent
        <3>1. x.age >= SendPingAfter + 2 => x.ping_needed \/ x.ping_sent
            BY <1>2 DEF Asks, x
        <3> QED BY <1>4, <1>5, <1>9, <1>10, <3>1, GarbageProperties
    <2>3. /\ y.age >= SendPingAfter + 2 => y.age >= SendPingAfter + 1
          /\ y.age >= SendPingAfter + 3 => y.age >= SendPingAfter + 2
        BY <1>4, <1>5
    <2> QED BY <2>1, <2>2, <2>3 DEF Asks, y
<1>13. IsAnswered(e)'
    <2>1. ASSUME y.ping_sent
          PROVE  Has(Pipe(o)', Ping) \/ socket'[o].pong_needed \/ Has(Pipe(e)', Pong)
        <3>1. x.ping_sent => Has(Pipe(o), Ping) \/ socket[o].pong_needed \/ Has(Pipe(e), Pong)
            BY <1>2 DEF IsAnswered, x
        <3> QED BY <1>5, <1>6, <1>8, <2>1, <3>1
    <2>2. ASSUME y.age >= SendPingAfter + 3
          PROVE  Has(Pipe(e)', Pong) \/ (~iterated'[o] /\ socket'[o].pong_needed)
        <3>1. y.age > 0
            BY <1>4, <1>5, <2>2
        <3>2. x.age >= SendPingAfter + 3 /\ p = Garbage
            BY <1>10, <2>2, <3>1
        <3>3. Has(Pipe(e), Pong) \/ (~iterated[o] /\ socket[o].pong_needed)
            BY <1>2, <3>2 DEF IsAnswered, x
        <3> QED BY <1>5, <1>6, <1>7, <3>2, <3>3, GarbageProperties
    <2> QED BY <2>1, <2>2 DEF IsAnswered, y
<1>14. y.age <= SendPingAfter + 3
    BY <1>2, <1>4, <1>5
<1> QED BY <1>11, <1>12, <1>13, <1>14 DEF Patient, y

\* The other end: its ping is answered by the next Iterate.
LEMMA IterateAnswers ==
    ASSUME NEW e \in Ends, TypeOK, RoomEnough, NEW n \in 0..Len(stream[e]), Iterate(e, n),
           Framed(Pipe(e)), Runs(Other(e)), Clean(e), Patient(Other(e)),
           ~(IsWhole(Read(e, n)) /\ FirstPacket(Read(e, n)) = Bye)
    PROVE  Patient(Other(e))'
<1> DEFINE o == Other(e)
           x == socket[e]
           y == socket'[e]
<1>1. o \in Ends /\ o # e /\ Other(o) = e
    BY EndsProperties
<1>2. Clean(o) /\ Asks(o) /\ IsAnswered(o) /\ socket[o].age <= SendPingAfter + 3
    BY DEF Patient
<1>3. PICK p : Pinged(e, n, p)
    BY IteratePings
<1>4. /\ y.pong_needed <=> p = Ping
      /\ \A r : r # p /\ Has(Pipe(e), r) => Has(Pipe(e)', r)
    BY <1>3 DEF Pinged
<1>5. /\ socket'[o] = socket[o]
      /\ Pipe(o)' = Pipe(o) \o PingOrPong(e)
    BY IterateWrites
<1>6. iterated'[o] = iterated[o]
    BY <1>1 DEF Iterate, TypeOK
<1>7. x.pong_needed => ~SendsPing(e) /\ SendsPong(e)
    BY DEF Clean, SendsPing, SendsPong
<1>8. /\ \A r : Has(Pipe(o), r) => Has(Pipe(o)', r)
      /\ x.pong_needed => Has(Pipe(o)', Pong)
    BY <1>1, <1>5, <1>7, PipeTypes, PingOrPongOut, HasAfterOut
<1>9. Clean(o)' /\ Asks(o)' /\ socket'[o].age <= SendPingAfter + 3
    BY <1>2, <1>5, <1>6 DEF Clean, Asks
<1>10. IsAnswered(o)'
    <2>1. socket'[o].ping_sent =>
            Has(Pipe(e)', Ping) \/ y.pong_needed \/ Has(Pipe(o)', Pong)
        <3>1. socket[o].ping_sent =>
                Has(Pipe(e), Ping) \/ x.pong_needed \/ Has(Pipe(o), Pong)
            BY <1>1, <1>2 DEF IsAnswered
        <3> QED BY <1>4, <1>5, <1>8, <3>1
    <2>2. socket'[o].age >= SendPingAfter + 3 => Has(Pipe(o)', Pong)
        <3>1. socket[o].age >= SendPingAfter + 3 => Has(Pipe(o), Pong) \/ x.pong_needed
            BY <1>1, <1>2 DEF IsAnswered
        <3> QED BY <1>5, <1>8, <3>1
    <2> QED BY <1>1, <2>1, <2>2 DEF IsAnswered
<1> QED BY <1>9, <1>10 DEF Patient

\* More in the pipes changes nothing.
LEMMA GrownPatience ==
    ASSUME NEW e \in Ends, Patient(e), iterated' = iterated,
           \A f \in Ends : socket'[f] = socket[f] /\ \A r : Has(Pipe(f), r) => Has(Pipe(f)', r)
    PROVE  Patient(e)'
<1> DEFINE o == Other(e)
<1>1. o \in Ends
    BY EndsProperties
<1>2. Clean(e)' /\ Asks(e)' /\ socket'[e].age <= SendPingAfter + 3
    BY DEF Patient, Clean, Asks
<1>3. IsAnswered(e)'
    <2>1. IsAnswered(e)
        BY DEF Patient
    <2> QED BY <1>1, <2>1 DEF IsAnswered
<1> QED BY <1>2, <1>3 DEF Patient

\* When a second ends, all that was on its way has been read, and each end has
\* had its turn: who waits, waits for what the other end does next.
LEMMA TickPatience ==
    ASSUME NEW e \in Ends, TypeOK, ConnInv, Timely, Tick, Runs(e), Runs(Other(e)),
           Patient(e)
    PROVE  Patient(e)'
<1> DEFINE o == Other(e)
           x == socket[e]
           y == socket'[e]
<1>1. o \in Ends /\ o # e /\ Other(o) = e
    BY EndsProperties
<1>2. Clean(e) /\ Asks(e) /\ IsAnswered(e) /\ x.age <= SendPingAfter + 3
    BY DEF Patient
<1>3. iterated[e] /\ iterated[o] /\ HasReadAll(e) /\ HasReadAll(o)
    BY <1>1 DEF Tick, Timely
<1>4. x.buffer = <<>> /\ Pipe(e) = <<>> /\ Pipe(o) = <<>>
    <2>1. Framed(Pipe(e)) /\ Ended(Pipe(e)) /\ Framed(Pipe(o)) /\ Ended(Pipe(o))
        BY <1>1 DEF ConnInv, Carries, Carried
    <2> QED BY <1>1, <1>3, <2>1, AllReadIsNothing
<1>5. ~Has(Pipe(e), Pong) /\ ~Has(Pipe(o), Ping)
    BY <1>4, HasNot
<1>6. SendPingAfter \in Nat /\ DisconnectAfter \in Nat /\ x.age \in Nat
      /\ SendPingAfter + 3 <= DisconnectAfter
    BY SocketTypes, TimesAssumption DEF Timely
<1>7. x.age <= SendPingAfter + 2
    <2>1. ~(x.age >= SendPingAfter + 3)
        BY <1>2, <1>3, <1>5 DEF IsAnswered
    <2> QED BY <1>6, <2>1
<1>8. /\ y.age = x.age + 1
      /\ y.buffer = x.buffer
      /\ y.ping_needed = x.ping_needed
      /\ y.pong_needed = x.pong_needed
      /\ y.ping_sent = x.ping_sent
    <2>1. y = [x EXCEPT !.age = Least(x.age + 1, DisconnectAfter + 1)]
        BY DEF Tick
    <2>2. Least(x.age + 1, DisconnectAfter + 1) = x.age + 1
        BY <1>6, <1>7 DEF Least
    <2>3. x \in Socket
        BY SocketTypes
    <2> HIDE DEF x, y
    <2> QED BY <2>1, <2>2, <2>3 DEF Socket
<1>9. socket'[o].pong_needed = socket[o].pong_needed
    <2>1. socket[o] \in Socket
        BY <1>1, SocketTypes
    <2> QED BY <1>1, <2>1 DEF Tick, Socket
<1>10. ~iterated'[e] /\ ~iterated'[o]
    BY <1>1 DEF Tick
<1> HIDE DEF x, y
<1>11. Clean(e)'
    BY <1>2, <1>4, <1>8 DEF Clean, x, y
<1>12. Asks(e)'
    <2>1. y.age >= SendPingAfter + 2 => y.ping_needed \/ y.ping_sent
        <3>1. x.age >= SendPingAfter + 1 => x.ping_needed \/ x.ping_sent
            BY <1>2, <1>3 DEF Asks, x
        <3> QED BY <1>6, <1>8, <3>1
    <2>2. y.age >= SendPingAfter + 3 => y.ping_sent
        <3>1. x.age >= SendPingAfter + 2 => x.ping_sent
            BY <1>2, <1>3 DEF Asks, x
        <3> QED BY <1>6, <1>8, <3>1
    <2> QED BY <1>10, <2>1, <2>2 DEF Asks, y
<1>13. IsAnswered(e)'
    <2>1. x.ping_sent => socket[o].pong_needed
        BY <1>2, <1>5 DEF IsAnswered, x
    <2>2. y.age >= SendPingAfter + 3 => y.ping_sent
        BY <1>10, <1>12 DEF Asks, y
    <2> QED BY <1>8, <1>9, <1>10, <2>1, <2>2 DEF IsAnswered, y
<1>14. y.age <= SendPingAfter + 3
    BY <1>6, <1>7, <1>8
<1> QED BY <1>11, <1>12, <1>13, <1>14 DEF Patient, y

LEMMA InitPings == Init => PingInv
<1> SUFFICES ASSUME Init
             PROVE  PingInv
    OBVIOUS
<1>1. \A e \in Ends : /\ socket[e] = NewSocket
                      /\ ~timed_out[e] /\ ~iterated[e]
    BY DEF Init
<1>2. SendPingAfter \in Nat
    BY TimesAssumption
<1>3. /\ NewSocket.age = 0 /\ ~NewSocket.ping_needed /\ ~NewSocket.pong_needed
      /\ ~NewSocket.ping_sent
    BY DEF NewSocket
<1>4. \A e \in Ends : Patient(e)
    <2> TAKE e \in Ends
    <2>1. /\ socket[e].age = 0 /\ ~socket[e].ping_needed /\ ~socket[e].pong_needed
          /\ ~socket[e].ping_sent
        BY <1>1, <1>3
    <2>2. /\ ~(0 >= SendPingAfter + 1) /\ ~(0 >= SendPingAfter + 2)
          /\ ~(0 >= SendPingAfter + 3) /\ 0 <= SendPingAfter + 3 /\ ~(0 > 0)
        BY <1>2
    <2>3. Clean(e) /\ Asks(e) /\ IsAnswered(e)
        BY <2>1, <2>2 DEF Clean, Asks, IsAnswered
    <2> QED BY <2>1, <2>2, <2>3 DEF Patient
<1> QED BY <1>1, <1>4 DEF PingInv

\* A socket that is closed leaves nobody waiting.
LEMMA ClosedPings ==
    ASSUME NEW e \in Ends, ~Runs(e)', \A f \in Ends : Runs(f)' => Runs(f),
           PingInv, \A f \in Ends : timed_out'[f] =>
                       timed_out[f] \/ ~Timely \/ ~Runs(Other(f)) \/ Other(f) = e
    PROVE  PingInv'
<1>1. \A f \in Ends : Other(f) \in Ends /\ (f = e \/ Other(f) = e)
    BY EndsProperties
<1>2. Timely' = Timely
    BY DEF Timely
<1> QED BY <1>1, <1>2 DEF PingInv

LEMMA ReadKeepsPings ==
    ASSUME NEW e \in Ends, TypeOK, RoomEnough, ConnInv, PingInv, Timely,
           NEW n \in 0..Len(stream[e]), Iterate(e, n),
           ~(IsWhole(Read(e, n)) /\ FirstPacket(Read(e, n)) = Bye)
    PROVE  PingInv'
<1> DEFINE o == Other(e)
<1>1. o \in Ends /\ Other(o) = e /\ \A f \in Ends : f = e \/ f = o
    BY EndsProperties
<1>2. timed_out' = timed_out /\ Runs(e)
    BY DEF Iterate
<1>3. \A f \in Ends : Runs(f)' = Runs(f)
    BY IterateWrites
<1>4. ASSUME Runs(o)
      PROVE  Patient(e)' /\ Patient(o)'
    <2>1. Patient(e) /\ Patient(o) /\ Clean(e)
        BY <1>1, <1>2, <1>4 DEF PingInv, Patient
    <2>2. Framed(Pipe(e))
        BY <1>2 DEF ConnInv, Carries, Carried
    <2> QED BY <1>4, <2>1, <2>2, IteratePatience, IterateAnswers
<1>5. \A f \in Ends : Runs(f)' /\ Runs(Other(f))' => Patient(f)'
    BY <1>1, <1>3, <1>4
<1>6. \A f \in Ends : timed_out'[f] => ~Runs(Other(f))'
    BY <1>1, <1>2, <1>3 DEF PingInv
<1> QED BY <1>5, <1>6 DEF PingInv

LEMMA WriteKeepsPings ==
    ASSUME NEW e \in Ends, NEW size \in PacketSizes, TypeOK, RoomEnough, ConnInv, PingInv,
           Timely, WriteToSocket(e, size)
    PROVE  PingInv'
<1> DEFINE o == Other(e)
<1>1. o \in Ends /\ o # e /\ Other(o) = e /\ \A f \in Ends : f = e \/ f = o
    BY EndsProperties
<1>2. /\ socket' = socket /\ iterated' = iterated /\ timed_out' = timed_out
      /\ \A f \in Ends : Runs(f)' = Runs(f)
      /\ Pipe(e)' = Pipe(e)
    <2>1. /\ socket' = socket /\ iterated' = iterated /\ timed_out' = timed_out
          /\ open' = open /\ alive' = alive
          /\ stream'[e] = stream[e]
        BY <1>1 DEF WriteToSocket, Sent, TypeOK
    <2> QED BY <2>1 DEF Runs, Pipe
<1>3. ASSUME Runs(o)
      PROVE  \A r : Has(Pipe(o), r) => Has(Pipe(o)', r)
    <2>1. PICK p \in Packets : Pipe(o)' = Pipe(o) \o Bytes(p)
        BY <1>3, WriteKeepsConn
    <2> QED BY <1>1, <2>1, PipeTypes, HasExtended DEF Kinds
<1>4. ASSUME NEW f \in Ends, Runs(f)', Runs(Other(f))'
      PROVE  Patient(f)'
    <2>1. Patient(f)
        BY <1>1, <1>2, <1>4 DEF PingInv
    <2>2. Runs(o)
        BY <1>1, <1>2, <1>4
    <2>3. \A g \in Ends : socket'[g] = socket[g] /\ \A r : Has(Pipe(g), r) => Has(Pipe(g)', r)
        BY <1>1, <1>2, <1>3, <2>2
    <2> QED BY <1>2, <2>1, <2>3, GrownPatience
<1>5. \A f \in Ends : timed_out'[f] => ~Runs(Other(f))'
    BY <1>1, <1>2 DEF PingInv
<1> QED BY <1>4, <1>5 DEF PingInv

LEMMA StepPings == TypeOK /\ RoomEnough /\ ConnInv /\ PingInv /\ [Next]_vars => PingInv'
<1> SUFFICES ASSUME TypeOK, RoomEnough, ConnInv, PingInv, [Next]_vars, Timely
             PROVE  PingInv'
    BY DEF PingInv, Timely
<1>1. \A f \in Ends : Other(f) \in Ends /\ Other(f) # f /\ Other(Other(f)) = f
    BY EndsProperties
<1>2. ASSUME NEW e \in Ends, Fail(e) \/ Disconnect(e) \/ Vanish(e)
      PROVE  PingInv'
    <2>1. timed_out' = timed_out /\ ~Runs(e)' /\ \A f \in Ends : Runs(f)' => Runs(f)
        BY <1>2 DEF Fail, Disconnect, Vanish, CloseSocket, historyVars, TypeOK, Runs
    <2> QED BY <2>1, ClosedPings
<1>3. ASSUME NEW e \in Ends, PingTimeout(e)
      PROVE  PingInv'
    <2>1. ~Runs(e)' /\ \A f \in Ends : Runs(f)' => Runs(f)
        BY <1>3 DEF PingTimeout, CloseSocket, TypeOK, Runs
    <2>2. timed_out' = [timed_out EXCEPT ![e] = TRUE] /\ Runs(e) /\ socket[e].age > DisconnectAfter
        BY <1>3 DEF PingTimeout
    <2>3. ~Runs(Other(e))
        <3>1. SUFFICES ASSUME Runs(Other(e))
                       PROVE  FALSE
            OBVIOUS
        <3>2. socket[e].age <= SendPingAfter + 3
            BY <2>2, <3>1 DEF PingInv, Patient
        <3>3. SendPingAfter \in Nat /\ DisconnectAfter \in Nat /\ socket[e].age \in Nat
              /\ SendPingAfter + 3 <= DisconnectAfter
            BY SocketTypes, TimesAssumption DEF Timely
        <3> QED BY <2>2, <3>2, <3>3
    <2>4. \A f \in Ends : timed_out'[f] => timed_out[f] \/ ~Runs(Other(f))
        BY <2>2, <2>3 DEF TypeOK
    <2> QED BY <2>1, <2>4, ClosedPings
<1>4. ASSUME NEW e \in Ends, IterateSome(e)
      PROVE  PingInv'
    <2>1. PICK n \in 0..Len(stream[e]) : Iterate(e, n)
        BY <1>4 DEF IterateSome
    <2>2. CASE IsWhole(Read(e, n)) /\ FirstPacket(Read(e, n)) = Bye
        <3>1. CloseSocket(e, PingOrPong(e)) /\ timed_out' = timed_out /\ alive' = alive
            BY <2>1, <2>2, IterateCases DEF Iterate
        <3>2. ~Runs(e)' /\ \A f \in Ends : Runs(f)' => Runs(f)
            BY <3>1 DEF CloseSocket, TypeOK, Runs
        <3> QED BY <3>1, <3>2, ClosedPings
    <2> QED BY <2>1, <2>2, ReadKeepsPings
<1>5. CASE Tick
    <2>1. timed_out' = timed_out /\ \A f \in Ends : Runs(f)' = Runs(f)
        BY <1>5, TickPipes DEF Tick, historyVars
    <2>2. \A f \in Ends : Runs(f) /\ Runs(Other(f)) => Patient(f)'
        BY <1>5, TickPatience DEF PingInv
    <2> QED BY <1>1, <2>1, <2>2 DEF PingInv
<1>6. CASE UNCHANGED vars
    <2>1. /\ iterated' = iterated /\ timed_out' = timed_out
          /\ \A f \in Ends : /\ socket'[f] = socket[f] /\ Pipe(f)' = Pipe(f)
                             /\ Runs(f)' = Runs(f)
        BY <1>6 DEF vars, historyVars, Pipe, Runs
    <2>2. \A f \in Ends : Runs(f) /\ Runs(Other(f)) => Patient(f)'
        BY <2>1, GrownPatience DEF PingInv
    <2> QED BY <1>1, <2>1, <2>2 DEF PingInv
<1>7. ASSUME NEW e \in Ends, NEW size \in PacketSizes, WriteToSocket(e, size)
      PROVE  PingInv'
    BY <1>7, WriteKeepsPings
<1> QED BY <1>2, <1>3, <1>4, <1>5, <1>6, <1>7 DEF Next

\* While there is room, and when DISCONNECT_AFTER leaves three seconds more than
\* SEND_PING_AFTER, nobody is disconnected for the ping timeout while both
\* programs are running on time (MaybePing, MaybePingDo): a ping is answered
\* before its sender loses patience.
THEOREM PingsAreAnswered ==
    SendPingAfter + 3 <= DisconnectAfter /\ Spec /\ []RoomEnough => []TimeoutIsSilence
<1>1. Init => PingInv
    BY InitPings
<1>2. TypeOK /\ RoomEnough /\ ConnInv /\ PingInv /\ [Next]_vars => PingInv'
    BY StepPings
<1>3. SendPingAfter + 3 <= DisconnectAfter /\ PingInv => TimeoutIsSilence
    BY DEF PingInv, TimeoutIsSilence, Timely
<1> DEFINE Margin == SendPingAfter + 3 <= DisconnectAfter
<1>4. Margin => Margin'
    OBVIOUS
<1>5. Margin /\ PingInv => TimeoutIsSilence
    BY <1>3
<1> HIDE DEF Margin
<1>6. Margin /\ Spec /\ []RoomEnough => []TimeoutIsSilence
    BY <1>1, <1>2, <1>4, <1>5, TypeCorrect, PacketsStayWhole, PTL DEF Spec
<1> QED BY <1>6 DEF Margin
=============================================================================
