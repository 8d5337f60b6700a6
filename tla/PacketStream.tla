---------------------------- MODULE PacketStream ----------------------------
(***************************************************************************)
(* One connection of GLSMAC (network::simpletcp::SimpleTCP): how packets   *)
(* become a stream of bytes and packets again, how the two ends ping each  *)
(* other, and how a connection ends.  The client's m_client.socket and the *)
(* host's entry of m_server.client_sockets are the two ends.               *)
(*                                                                         *)
(* A byte is the packet it belongs to and its position in it.  The system  *)
(* (external) carries the bytes in order, hands over any part of what is   *)
(* on its way, takes only as many as fit, and, because the sockets have    *)
(* SO_LINGER with a timeout of 0 (network/impl/Posix.cpp:43), drops what   *)
(* it wants of what was on its way when an end closes.  Seconds are        *)
(* counted since last_data_at.  Not modelled: what the packets mean, and   *)
(* the two buffers that take turns.                                        *)
(***************************************************************************)
EXTENDS Naturals, Sequences

CONSTANTS
    HeaderSize,      \* bytes of the size that goes before a packet
    PacketSizes,     \* bytes of the packets that the game sends
    PingSize,        \* bytes of a ping, and of a pong
    BufferSize,      \* BUFFER_SIZE
    SystemBuffer,    \* bytes that the system takes before it refuses more
    SendPingAfter,   \* SEND_PING_AFTER
    DisconnectAfter, \* DISCONNECT_AFTER
    Punctual,        \* bytes arrive, and are read, within a second
    MaxSent          \* bound: packets that each end sends

Ends == {"client", "server"}
Other(e) == IF e = "client" THEN "server" ELSE "client"

ASSUME SizesAssumption ==
    /\ HeaderSize \in Nat \ {0}
    /\ PacketSizes \subseteq Nat \ {0}
    /\ PingSize \in Nat \ {0}
    /\ BufferSize \in Nat
    /\ SystemBuffer \in Nat
ASSUME TimesAssumption ==
    /\ SendPingAfter \in Nat
    /\ DisconnectAfter \in Nat
    /\ SendPingAfter < DisconnectAfter
    /\ Punctual \in BOOLEAN
    /\ MaxSent \in [Ends -> Nat]

Packets == [type : {"packet"}, id : 1..(MaxSent["client"] + MaxSent["server"]), size : PacketSizes]
Ping == [type |-> "ping", id |-> 0, size |-> PingSize]
Pong == [type |-> "pong", id |-> 0, size |-> PingSize]
Bye == [type |-> "bye", id |-> 0, size |-> 0]
Garbage == [type |-> "garbage", id |-> 0, size |-> 0]

Total(p) == HeaderSize + p.size
Bytes(p) == [i \in 1..Total(p) |-> <<p, i>>]
Byte == (Packets \cup {Ping, Pong, Bye}) \X Nat

VARIABLES
    socket,      \* remote_socket_data_t of an end
    open,        \* the end's socket is open
    stream,      \* bytes on their way to an end
    reset,       \* the system told an end that the other closed
    alive,       \* the program of an end runs and its network works
    sent,        \* history: packets that an end sent
    received,    \* history: packets that an end passed on
    timed_out,   \* history: an end closed because of the ping timeout
    iterated     \* an end iterated in this second

historyVars == <<sent, received, timed_out>>
vars == <<socket, open, stream, reset, alive, historyVars, iterated>>

Socket == [buffer : Seq(Byte), age : 0..(DisconnectAfter + 1), ping_needed : BOOLEAN,
           pong_needed : BOOLEAN, ping_sent : BOOLEAN]
NewSocket == [buffer |-> <<>>, age |-> 0, ping_needed |-> FALSE,
              pong_needed |-> FALSE, ping_sent |-> FALSE]

TypeOK ==
    /\ socket \in [Ends -> Socket]
    /\ \A e \in Ends : Len(socket[e].buffer) <= BufferSize
    /\ open \in [Ends -> BOOLEAN]
    /\ stream \in [Ends -> Seq(Byte)]
    /\ reset \in [Ends -> BOOLEAN]
    /\ alive \in [Ends -> BOOLEAN]
    /\ sent \in [Ends -> Seq(Packets)]
    /\ received \in [Ends -> Seq(Packets \cup {Garbage})]
    /\ timed_out \in [Ends -> BOOLEAN]
    /\ iterated \in [Ends -> BOOLEAN]

\* Both ends have connected: Connect of the client, accept of the host.
Init ==
    /\ socket = [e \in Ends |-> NewSocket]
    /\ open = [e \in Ends |-> TRUE]
    /\ stream = [e \in Ends |-> <<>>]
    /\ reset = [e \in Ends |-> FALSE]
    /\ alive = [e \in Ends |-> TRUE]
    /\ sent = [e \in Ends |-> <<>>]
    /\ received = [e \in Ends |-> <<>>]
    /\ timed_out = [e \in Ends |-> FALSE]
    /\ iterated = [e \in Ends |-> FALSE]

Prefixes(s) == {SubSeq(s, 1, n) : n \in 0..Len(s)}

Runs(e) == alive[e] /\ open[e]

-----------------------------------------------------------------------------
(* Ends of a connection *)

\* The socket of e is closed after what is in out was written to it: "bye"
\* goes last, and close() may drop any end of what has not arrived.
CloseSocket(e, out) ==
    /\ open' = [open EXCEPT ![e] = FALSE]
    /\ socket' = [socket EXCEPT ![e] = NewSocket]
    /\ \E rest \in Prefixes(stream[Other(e)] \o out \o Bytes(Bye)) :
        stream' = [stream EXCEPT ![e] = <<>>,
                                 ![Other(e)] = IF Runs(Other(e)) THEN rest ELSE <<>>]
    /\ reset' = [reset EXCEPT ![Other(e)] = TRUE]

\* The program is asked to disconnect.
Disconnect(e) ==
    /\ Runs(e)
    /\ CloseSocket(e, <<>>)
    /\ UNCHANGED <<alive, historyVars, iterated>>

\* The machine of e or its network is gone: nothing is sent any more, not even
\* that the connection is closed.
Vanish(e) ==
    /\ Runs(e)
    /\ alive' = [alive EXCEPT ![e] = FALSE]
    /\ \E rest \in Prefixes(stream[Other(e)]) :
        stream' = [stream EXCEPT ![e] = <<>>, ![Other(e)] = rest]
    /\ UNCHANGED <<socket, open, reset, historyVars, iterated>>

-----------------------------------------------------------------------------
(* Writing *)

\* Send takes what fits, the size first.  WriteToSocket reports success unless
\* the connection failed, whatever was taken.
Written(e, p) ==
    LET room == SystemBuffer - Len(stream[Other(e)]) IN
    SubSeq(Bytes(p), 1, IF room < Total(p) THEN room ELSE Total(p))

\* A packet to an end that is gone goes nowhere.
Sent(e, out) ==
    [stream EXCEPT ![Other(e)] = IF Runs(Other(e)) THEN @ \o out ELSE @]

WriteToSocket(e, size) ==
    LET p == [type |-> "packet", id |-> Len(sent[e]) + 1, size |-> size] IN
    /\ Runs(e)
    /\ ~reset[e]
    /\ Len(sent[e]) < MaxSent[e]
    /\ stream' = Sent(e, Written(e, p))
    /\ sent' = [sent EXCEPT ![e] = Append(@, p)]
    /\ UNCHANGED <<socket, open, reset, alive, received, timed_out, iterated>>

\* Send, or Receive, fails: the other end closed and nothing is left to read.
\* A write finds that out although there is something left.
Fail(e) ==
    /\ Runs(e)
    /\ reset[e]
    /\ CloseSocket(e, <<>>)
    /\ UNCHANGED <<alive, historyVars, iterated>>

-----------------------------------------------------------------------------
(* Iterate: MaybePingDo, then ReadFromSocket *)

PingTimeout(e) ==
    /\ Runs(e)
    /\ socket[e].age > DisconnectAfter
    /\ timed_out' = [timed_out EXCEPT ![e] = TRUE]
    /\ CloseSocket(e, <<>>)
    /\ UNCHANGED <<alive, sent, received, iterated>>

SendsPing(e) == socket[e].ping_needed /\ ~socket[e].ping_sent
SendsPong(e) == ~SendsPing(e) /\ socket[e].pong_needed

PingOrPong(e) ==
    IF SendsPing(e) THEN Written(e, Ping)
    ELSE IF SendsPong(e) THEN Written(e, Pong)
    ELSE <<>>

MaybePingDo(e) ==
    [socket[e] EXCEPT !.ping_sent = @ \/ SendsPing(e),
                      !.pong_needed = @ /\ ~SendsPong(e)]

\* Fault: what arrives does not count as a sign of life.
ReceiveAged(s, bytes) ==
    IF bytes = <<>>
    THEN [s EXCEPT !.ping_needed = @ \/ (s.age > SendPingAfter /\ ~s.ping_sent)]
    ELSE [s EXCEPT !.buffer = @ \o bytes, !.ping_needed = FALSE, !.pong_needed = FALSE]

\* Fault: any reading counts as a sign of life.
ReceiveRefreshed(s, bytes) ==
    [s EXCEPT !.buffer = @ \o bytes, !.age = 0, !.ping_needed = FALSE,
              !.pong_needed = @ /\ bytes = <<>>]

\* MaybePing, if nothing arrived.
Receive(s, bytes) ==
    IF bytes = <<>>
    THEN [s EXCEPT !.ping_needed = @ \/ (s.age > SendPingAfter /\ ~s.ping_sent)]
    ELSE [s EXCEPT !.buffer = @ \o bytes, !.age = 0,
                   !.ping_needed = FALSE, !.pong_needed = FALSE]

\* The first bytes of the buffer are a size, or are taken for one.
IsWhole(s) == Len(s.buffer) >= HeaderSize /\ Len(s.buffer) >= Total(s.buffer[1][1])

FirstPacket(s) ==
    LET p == s.buffer[1][1] IN
    IF SubSeq(s.buffer, 1, Total(p)) = Bytes(p) THEN p ELSE Garbage

\* Fault: all that was read is dropped with the first packet.
WithoutFirstAll(s) == <<>>

WithoutFirst(s) == SubSeq(s.buffer, Total(s.buffer[1][1]) + 1, Len(s.buffer))

Processed(s, p) ==
    [s EXCEPT !.buffer = WithoutFirst(s),
              !.pong_needed = @ \/ p = Ping,
              !.ping_sent = @ /\ p # Pong]

Least(a, b) == IF a < b THEN a ELSE b
\* Fault: what is in the buffer already is not taken into account.
CanReceiveAll(e) == Least(Len(stream[e]), BufferSize)

CanReceive(e) == Least(Len(stream[e]), BufferSize - Len(socket[e].buffer))

Iterate(e, n) ==
    LET out == PingOrPong(e)
        s == Receive(MaybePingDo(e), SubSeq(stream[e], 1, n))
        rest == SubSeq(stream[e], n + 1, Len(stream[e])) IN
    /\ Runs(e)
    /\ n <= CanReceive(e)
    /\ socket[e].age <= DisconnectAfter
    /\ ~(reset[e] /\ (stream[e] = <<>> \/ out # <<>>))
    /\ IF IsWhole(s) /\ FirstPacket(s) = Bye
       THEN CloseSocket(e, out) /\ UNCHANGED received
       ELSE /\ LET p == FirstPacket(s) IN
                /\ socket' = [socket EXCEPT ![e] = IF IsWhole(s) THEN Processed(s, p) ELSE s]
                /\ received' = [received EXCEPT ![e] =
                        IF IsWhole(s) /\ p \notin {Ping, Pong} THEN Append(@, p) ELSE @]
            /\ stream' = [Sent(e, out) EXCEPT ![e] = rest]
            /\ UNCHANGED <<open, reset>>
    /\ iterated' = [iterated EXCEPT ![e] = TRUE]
    /\ UNCHANGED <<alive, sent, timed_out>>

HasReadAll(e) == stream[e] = <<>> /\ ~IsWhole(socket[e])

\* A second passes.
Tick ==
    /\ Punctual => \A e \in Ends : Runs(e) => iterated[e] /\ HasReadAll(e)
    /\ socket' = [e \in Ends |->
            IF Runs(e) THEN [socket[e] EXCEPT !.age = Least(@ + 1, DisconnectAfter + 1)]
            ELSE socket[e]]
    /\ iterated' = [e \in Ends |-> FALSE]
    /\ UNCHANGED <<open, stream, reset, alive, historyVars>>

-----------------------------------------------------------------------------

IterateSome(e) == \E n \in 0..Len(stream[e]) : Iterate(e, n)

Next ==
    \/ Tick
    \/ \E e \in Ends :
        \/ \E size \in PacketSizes : WriteToSocket(e, size)
        \/ IterateSome(e)
        \/ PingTimeout(e) \/ Fail(e) \/ Disconnect(e) \/ Vanish(e)

Spec == Init /\ [][Next]_vars

\* What Iterate of an end comes to once all that was sent to it has arrived.
Proceed(e) ==
    \/ Iterate(e, CanReceive(e))
    \/ PingTimeout(e)
    \/ (stream[e] = <<>> \/ PingOrPong(e) # <<>>) /\ Fail(e)

\* A program iterates again and again, bytes arrive in the end, and the clock
\* advances; nobody has to send anything.
Fairness == WF_vars(Tick) /\ \A e \in Ends : WF_vars(Proceed(e))

FairSpec == Spec /\ Fairness
-----------------------------------------------------------------------------
(* Properties *)

\* Each direction is the queue that the game takes it for.  (The two ends are
\* alike, and either may be the one that receives.)
Queue == INSTANCE PacketQueue
    WITH sent <- sent["client"], received <- received["server"], open <- Runs("server")

IsPacketQueue == Queue!Spec

\* Nobody is disconnected for the ping timeout while both programs are running
\* on time: a ping is answered before its sender loses patience.
TimeoutIsSilence ==
    Punctual => \A e \in Ends : timed_out[e] => ~Runs(Other(e))

\* An end whose other end is gone, without a word, closes its socket as well.
SilenceEndsConnection == ~Runs("client") ~> ~Runs("server")
=============================================================================
