------------------------ MODULE ClientSessionsProofs ------------------------
(***************************************************************************)
(* Proofs about ClientSessions, for every number of accounts, slots,       *)
(* sockets, connections and packets.  TypeOK /\ SessionInv is inductive.   *)
(* Its parts are proved one by one: what is queued and who is known        *)
(* (NETWORK), then the slots and the table of cids (GAME).  The second     *)
(* part is about clients that GAME has kicked, whom the history variable   *)
(* of MCClientSessions remembers (SilenceInv).                             *)
(***************************************************************************)
EXTENDS MCClientSessions, SequenceTheorems, FiniteSetTheorems, WellFoundedInduction, TLAPS

IInv == TypeOK /\ SessionInv

-----------------------------------------------------------------------------
(* Queues of events *)

\* Kinds of events and requests, as the handlers build them.
LEMMA Members ==
    /\ \A type \in EventType, c \in Cids : [type |-> type, cid |-> c] \in Event
    /\ \A type \in EventType, c \in Cids : [type |-> type, cid |-> c] # Gap
    /\ Gap \in Event
    /\ \A e \in Event : e # Gap => e.cid \in Cids /\ e.type \in EventType
    /\ [op |-> "get_events"] \in Request
    /\ \A c \in Cids : [op |-> "request_auth", cid |-> c] \in Request
    /\ \A c \in Cids : [op |-> "disconnect_client", cid |-> c] \in Request
    /\ \A c \in Cids, s \in SlotNums :
        [op |-> "players", cid |-> c, slot_num |-> s] \in Request
<1>1. \A type \in EventType, c \in Cids : [type |-> type, cid |-> c] \in Event
    BY DEF Event
<1>2. \A type \in EventType : type # "gap"
    BY DEF EventType
<1>3. \A type \in EventType, c \in Cids : [type |-> type, cid |-> c] # Gap
    BY <1>2 DEF Gap
<1>4. Gap \in Event
    BY DEF Event
<1>5. \A e \in Event : e # Gap => e.cid \in Cids /\ e.type \in EventType
    BY DEF Event
<1>6. [op |-> "get_events"] \in Request
    BY DEF Request
<1>7. \A c \in Cids : /\ [op |-> "request_auth", cid |-> c] \in Request
                      /\ [op |-> "disconnect_client", cid |-> c] \in Request
    BY DEF Request
<1>8. \A c \in Cids, s \in SlotNums :
        [op |-> "players", cid |-> c, slot_num |-> s] \in Request
    BY DEF Request
<1> QED BY <1>1, <1>3, <1>4, <1>5, <1>6, <1>7, <1>8

\* A queue keeps its type when an event is appended.
LEMMA QueuedAppend ==
    ASSUME NEW q \in Seq(Event), NEW K, NEW ps, Queued(q, K, ps),
           NEW type \in EventType, NEW c \in Cids, c \in K,
           type = "game_event" => ps[c] # NoSlot
    PROVE  LET q2 == Append(q, [type |-> type, cid |-> c]) IN
           q2 \in Seq(Event) /\ Queued(q2, K, ps)
<1> DEFINE e == [type |-> type, cid |-> c]
<1>1. e \in Event
    BY Members
<1>2. /\ Append(q, e) \in Seq(Event)
      /\ Len(Append(q, e)) = Len(q) + 1
      /\ \A i \in 1..Len(q) : Append(q, e)[i] = q[i]
      /\ Append(q, e)[Len(q) + 1] = e
      /\ Len(q) \in Nat
    BY <1>1, AppendProperties, LenProperties
<1>3. e.cid = c /\ e.type = type
    OBVIOUS
<1> HIDE DEF e
<1>4. Queued(Append(q, e), K, ps)
    <2> SUFFICES ASSUME NEW i \in 1..(Len(q) + 1), Append(q, e)[i] # Gap
                 PROVE  /\ Append(q, e)[i].cid \in K
                        /\ Append(q, e)[i].type = "game_event" => ps[Append(q, e)[i].cid] # NoSlot
        BY <1>2 DEF Queued
    <2>1. CASE i \in 1..Len(q)
        BY <1>2, <2>1 DEF Queued
    <2>2. CASE i = Len(q) + 1
        BY <1>2, <1>3, <2>2
    <2> QED BY <1>2, <2>1, <2>2
<1> QED BY <1>2, <1>4 DEF e

\* ... when its head is taken,
LEMMA QueuedTail ==
    ASSUME NEW q \in Seq(Event), q # <<>>, NEW K, NEW ps, Queued(q, K, ps)
    PROVE  /\ Tail(q) \in Seq(Event) /\ Queued(Tail(q), K, ps)
           /\ Head(q) \in Event
           /\ Head(q) # Gap =>
                /\ Head(q).cid \in K
                /\ Head(q).type = "game_event" => ps[Head(q).cid] # NoSlot
<1>1. /\ Head(q) \in Event
      /\ Tail(q) \in Seq(Event)
      /\ Len(Tail(q)) = Len(q) - 1
      /\ \A i \in 1..Len(Tail(q)) : Tail(q)[i] = q[i + 1]
      /\ Len(q) \in Nat \ {0}
    BY HeadTailProperties, EmptySeq
<1>2. Head(q) = q[1]
    OBVIOUS
<1>3. Queued(Tail(q), K, ps)
    BY <1>1 DEF Queued
<1>4. 1 \in 1..Len(q)
    BY <1>1
<1> QED BY <1>1, <1>2, <1>3, <1>4 DEF Queued

\* ... when events of a client are dropped from it,
LEMMA QueuedInvalidate ==
    ASSUME NEW q \in Seq(Event), NEW K, NEW ps, Queued(q, K, ps), NEW c \in Cids
    PROVE  Invalidate(q, c) \in Seq(Event) /\ Queued(Invalidate(q, c), K, ps)
<1> DEFINE r == Invalidate(q, c)
<1>1. Len(q) \in Nat /\ \A i \in 1..Len(q) : q[i] \in Event
    BY LenProperties, ElementOfSeq
<1>2. \A i \in 1..Len(q) : r[i] = q[i] \/ r[i] = Gap
    BY DEF Invalidate
<1>3. r \in [1..Len(q) -> Event]
    BY <1>1, Members DEF Invalidate
<1>4. r \in Seq(Event)
    BY <1>1, <1>3, SeqDef
<1>5. Len(r) = Len(q)
    BY <1>1, <1>3, <1>4, LenProperties
<1> HIDE DEF r
<1>6. Queued(r, K, ps)
    BY <1>2, <1>5 DEF Queued
<1> QED BY <1>4, <1>6 DEF r

\* ... and when more cids are given out and more clients told their slot.
LEMMA QueuedLater ==
    ASSUME NEW q \in Seq(Event), NEW K, NEW K2, NEW ps, NEW ps2, Queued(q, K, ps),
           K \subseteq K2, \A c \in K : ps[c] # NoSlot => ps2[c] # NoSlot
    PROVE  Queued(q, K2, ps2)
BY DEF Queued

\* CloseClientSocket leaves a queue of events about known clients.
LEMMA ClosedQueue ==
    ASSUME TypeOK, CidsInv, QueuedInv, NEW c \in sockets, CloseClientSocket(c)
    PROVE  /\ events_out' \in Seq(Event) /\ Queued(events_out', Known, peer_slot)
           /\ sockets' \subseteq sockets
<1>1. c \in Cids /\ c \in Known /\ events_out \in Seq(Event)
    BY DEF TypeOK, CidsInv
<1> DEFINE q == Append(events_out, [type |-> "disconnect", cid |-> c])
<1>2. q \in Seq(Event) /\ Queued(q, Known, peer_slot)
    BY <1>1, QueuedAppend DEF EventType, QueuedInv
<1> HIDE DEF q
<1>3. Invalidate(q, c) \in Seq(Event) /\ Queued(Invalidate(q, c), Known, peer_slot)
    BY <1>1, <1>2, QueuedInvalidate
<1> QED BY <1>3 DEF CloseClientSocket, q

-----------------------------------------------------------------------------
(* The slot for a player *)

\* The loop over the slots ends at an open one, or beyond the last.
LEMMA FirstOpenIsOpen ==
    /\ FirstOpen \in 1..(NumSlots + 1)
    /\ FirstOpen \in SlotNums => slots[FirstOpen].state = "open"
<1> DEFINE T == {s \in 1..(NumSlots + 1) : s \in SlotNums => slots[s].state = "open"}
<1>1. NumSlots + 1 \in T /\ T \subseteq Nat
    BY SizeAssumption DEF SlotNums
<1>2. \E m \in T : \A y \in T : ~ (<<y, m>> \in OpToRel(<, Nat))
    BY <1>1, WFMin, NatLessThanWellFounded, Zenon
<1>3. PICK m \in T : \A y \in T : ~ (y < m)
    BY <1>1, <1>2 DEF OpToRel
<1>4. \A t \in 1..(m - 1) : slots[t].state # "open"
    BY <1>3, SizeAssumption DEF SlotNums
<1> QED BY <1>3, <1>4 DEF FirstOpen

\* An authentication that is not refused gets the open slot, in the lobby, or the
\* slot of the account, in the game; nobody is connected in it.
LEMMA AuthSlot ==
    ASSUME TypeOK, SlotsInv, NEW a \in Accounts, ~AuthRefused(a), NEW s, s = SlotForAuth(a)
    PROVE  /\ s \in SlotNums
           /\ ~slots[s].connected
           /\ game_state = "lobby" => slots[s].state = "open" /\ LinkedTo(a) = {}
           /\ game_state # "lobby" => slots[s].state = "player" /\ slots[s].account = a
<1>1. \A t \in LinkedTo(a) : ~slots[t].connected
    BY DEF AuthRefused
<1>2. CASE game_state = "lobby"
    <2>1. LinkedTo(a) = {}
        BY <1>1, <1>2, AccountAssumption DEF SlotsInv, LinkedTo
    <2>2. s = FirstOpen
        BY <1>2, <2>1, FirstOpenIsOpen, SizeAssumption DEF SlotForAuth
    <2>3. s \in SlotNums
        BY <1>2, <2>2, FirstOpenIsOpen, SizeAssumption DEF AuthRefused, SlotNums
    <2> QED BY <1>2, <2>1, <2>2, <2>3, FirstOpenIsOpen DEF SlotsInv
<1>3. CASE game_state # "lobby"
    <2>1. LinkedTo(a) # {}
        BY <1>3 DEF AuthRefused
    <2>2. s \in LinkedTo(a)
        BY <1>3, <2>1 DEF SlotForAuth
    <2>3. s \in SlotNums /\ slots[s].account = a
        BY <2>2 DEF LinkedTo
    <2>4. slots[s].state # "open"
        BY <2>3, AccountAssumption DEF SlotsInv
    <2>5. slots[s] \in Slot
        BY <2>3 DEF TypeOK
    <2>6. slots[s].state = "player"
        BY <2>4, <2>5 DEF Slot
    <2> QED BY <1>1, <1>3, <2>2, <2>3, <2>6
<1> QED BY <1>2, <1>3

-----------------------------------------------------------------------------
(* Types *)

\* What GAME handles is an event about a known client.
LEMMA Handled ==
    ASSUME IInv, NEW type \in EventType, Handles(type)
    PROVE  /\ Head(fetched).cid \in Cids
           /\ Head(fetched).cid \in Known
           /\ type = "game_event" => peer_slot[Head(fetched).cid] # NoSlot
           /\ fetched' = Tail(fetched) /\ fetched' \in Seq(Event)
           /\ Queued(fetched', Known, peer_slot)
<1>1. fetched \in Seq(Event) /\ fetched # <<>> /\ Queued(fetched, Known, peer_slot)
    BY DEF IInv, TypeOK, SessionInv, QueuedInv, Handles
<1>2. Head(fetched).type = type /\ fetched' = Tail(fetched)
    BY DEF Handles
<1>3. Head(fetched) # Gap
    BY <1>2 DEF Gap, EventType
<1> QED BY <1>1, <1>2, <1>3, QueuedTail, Members

\* Requests and closures are queued and taken one at a time.
LEMMA RequestQueue ==
    ASSUME TypeOK
    PROVE  /\ \A r \in Request : Append(requests, r) \in Seq(Request)
           /\ requests # <<>> => Head(requests) \in Request /\ Tail(requests) \in Seq(Request)
<1>1. requests \in Seq(Request)
    BY DEF TypeOK
<1> QED BY <1>1, AppendProperties, HeadTailProperties

LEMMA KickTypes ==
    ASSUME TypeOK, NEW c \in Cids, NEW t \in Threads, Kick(t, c)
    PROVE  ignored' \subseteq Cids /\ kicking' \in [Threads -> Cids \cup {NoCid}]
BY DEF TypeOK, Kick

LEMMA RequestTypes ==
    ASSUME TypeOK, requests # <<>>
    PROVE  LET r == Head(requests) IN
           /\ r.op \in {"request_auth", "disconnect_client", "players"} => r.cid \in Cids
           /\ r.op = "players" => r.slot_num \in SlotNums
<1>1. Head(requests) \in Request
    BY RequestQueue
<1> QED BY <1>1 DEF Request

LEMMA NetworkTypes ==
    ASSUME IInv,
           \/ \E a \in Accounts : Accept(a)
           \/ \E c \in Cids :
                \/ ReadAuth(c)
                \/ \E type \in {"game_event", "wrong"} : ReadPacket(c, type)
                \/ LosePeer(c)
           \/ ProcessRequest
    PROVE  TypeOK'
<1> USE DEF fetchVars, sessionVars, peerVars, networkVars, closureVars
<1>1. TypeOK /\ QueuedInv /\ CidsInv
    BY DEF IInv, SessionInv
<1>2. events_out \in Seq(Event)
    BY <1>1 DEF TypeOK
<1>3. \A type \in EventType, c \in Cids :
        Append(events_out, [type |-> type, cid |-> c]) \in Seq(Event)
    BY <1>2, Members, AppendProperties
<1>4. ASSUME NEW a \in Accounts, Accept(a) PROVE TypeOK'
    <2>1. next_cid \in Cids /\ next_cid' \in 1..(MaxConnections + 1)
        BY <1>4, SizeAssumption DEF Accept, Cids
    <2>2. events_out' \in Seq(Event)
        BY <1>3, <1>4, <2>1 DEF Accept, EventType
    <2> QED BY <1>1, <1>4, <2>1, <2>2 DEF Accept, TypeOK
<1>5. ASSUME NEW c \in Cids, ReadAuth(c) PROVE TypeOK'
    <2>1. events_out' \in Seq(Event)
        BY <1>3, <1>5 DEF ReadAuth, EventType
    <2> QED BY <1>1, <1>5, <2>1 DEF ReadAuth, TypeOK
<1>6. ASSUME NEW c \in Cids, NEW type \in {"game_event", "wrong"}, ReadPacket(c, type)
      PROVE  TypeOK'
    <2>1. events_out' \in Seq(Event)
        BY <1>3, <1>6 DEF ReadPacket, EventType
    <2>2. sent' \in 0..MaxPackets
        BY <1>1, <1>6, BoundAssumption DEF ReadPacket, TypeOK
    <2> QED BY <1>1, <1>6, <2>1, <2>2 DEF ReadPacket, TypeOK
<1>7. ASSUME NEW c \in Cids, LosePeer(c) PROVE TypeOK'
    <2>1. events_out' \in Seq(Event) /\ sockets' \subseteq sockets
        BY <1>1, <1>7, ClosedQueue DEF LosePeer
    <2> QED BY <1>1, <1>7, <2>1 DEF LosePeer, TypeOK
<1>8. CASE GetEvents
    <2>1. <<>> \in Seq(Event) /\ requests' \in Seq(Request)
        BY <1>1, <1>8, EmptySeq, RequestQueue DEF GetEvents
    <2> QED BY <1>1, <1>8, <2>1 DEF GetEvents, AfterFetch, TypeOK
<1>9. CASE SendRequestAuth
    <2>1. requests' \in Seq(Request)
        BY <1>1, <1>9, RequestQueue DEF SendRequestAuth
    <2> QED BY <1>1, <1>9, <2>1 DEF SendRequestAuth, TypeOK
<1>10. CASE SendPlayers
    <2>1. requests' \in Seq(Request) /\ Head(requests).slot_num \in SlotNums
        BY <1>1, <1>10, RequestQueue, RequestTypes DEF SendPlayers
    <2> QED BY <1>1, <1>10, <2>1 DEF SendPlayers, TypeOK
<1>11. CASE DisconnectClient
    <2>1. requests' \in Seq(Request)
        BY <1>1, <1>11, RequestQueue DEF DisconnectClient
    <2>2. events_out' \in Seq(Event) /\ sockets' \subseteq sockets
        <3>1. CASE Head(requests).cid \in sockets
            BY <1>1, <1>11, <3>1, ClosedQueue DEF DisconnectClient
        <3>2. CASE Head(requests).cid \notin sockets
            BY <1>2, <1>11, <3>2 DEF DisconnectClient
        <3> QED BY <3>1, <3>2
    <2> QED BY <1>1, <1>11, <2>1, <2>2 DEF DisconnectClient, TypeOK
<1> QED BY <1>4, <1>5, <1>6, <1>7, <1>8, <1>9, <1>10, <1>11 DEF ProcessRequest

LEMMA GameTypes ==
    ASSUME IInv, CreateGetEvents \/ ProcessEvent \/ EndBatch \/ ProcessAccumulations
                 \/ (\E t \in Threads : DisconnectKicked(t)) \/ StartGame
    PROVE  TypeOK'
<1> USE DEF fetchVars, sessionVars, peerVars, networkVars, closureVars
<1> DEFINE c == Head(fetched).cid
<1>1. TypeOK /\ SlotsInv /\ CidsInv
    BY DEF IInv, SessionInv
<1>2. CASE CreateGetEvents
    <2>1. requests' \in Seq(Request)
        BY <1>1, <1>2, Members, RequestQueue DEF CreateGetEvents
    <2> QED BY <1>1, <1>2, <2>1 DEF CreateGetEvents, TypeOK
<1>3. CASE Ignore
    <2>1. fetched' \in Seq(Event)
        BY <1>1, <1>3, HeadTailProperties DEF Ignore, TypeOK
    <2> QED BY <1>1, <1>3, <2>1 DEF Ignore, TypeOK
<1>4. CASE HandleConnect
    <2>1. c \in Cids /\ fetched' \in Seq(Event)
        BY <1>4, Handled DEF HandleConnect, EventType
    <2>2. requests' \in Seq(Request)
        BY <1>1, <1>4, <2>1, Members, RequestQueue DEF HandleConnect
    <2> QED BY <1>1, <1>4, <2>1, <2>2 DEF HandleConnect, TypeOK
<1>5. CASE RefuseAuth
    <2>1. c \in Cids /\ fetched' \in Seq(Event)
        BY <1>5, Handled DEF RefuseAuth, EventType
    <2>2. /\ ignored' \subseteq Cids /\ requests' \in Seq(Request)
          /\ kicking' \in [Threads -> Cids \cup {NoCid}]
        <3>1. CASE cid_slots[c] # NoSlot
            <4>1. ignored' = ignored /\ kicking' = kicking
                BY <1>5, <3>1 DEF RefuseAuth
            <4>2. requests' = Append(requests, [op |-> "disconnect_client", cid |-> c])
                BY <1>5, <3>1 DEF RefuseAuth
            <4> QED BY <1>1, <2>1, <4>1, <4>2, Members, RequestQueue DEF TypeOK
        <3>2. CASE cid_slots[c] = NoSlot
            <4>1. Kick("GAME", c) /\ requests' = requests
                BY <1>5, <3>2 DEF RefuseAuth
            <4> QED BY <1>1, <2>1, <4>1, KickTypes DEF Threads, TypeOK
        <3> QED BY <3>1, <3>2
    <2> QED BY <1>1, <1>5, <2>1, <2>2 DEF RefuseAuth, TypeOK
<1>6. CASE AcceptAuth
    <2> DEFINE s == SlotForAuth(account[c])
               new == [state |-> "player", account |-> account[c], cid |-> c, connected |-> TRUE]
    <2>1. c \in Cids /\ c \in Known /\ fetched' \in Seq(Event)
        BY <1>6, Handled DEF AcceptAuth, EventType
    <2>2. account[c] \in Accounts
        BY <1>1, <2>1 DEF CidsInv
    <2>3. s \in SlotNums
        BY <1>1, <1>6, <2>2, AuthSlot DEF AcceptAuth
    <2>4. new \in Slot
        BY <2>1, <2>2 DEF Slot
    <2>5. requests' \in Seq(Request)
        BY <1>1, <1>6, <2>1, <2>3, Members, RequestQueue DEF AcceptAuth
    <2>6. slots' = [slots EXCEPT ![s] = new] /\ cid_slots' = [cid_slots EXCEPT ![c] = s]
        BY <1>6 DEF AcceptAuth
    <2> HIDE DEF s, new, c
    <2>7. slots' \in [SlotNums -> Slot] /\ cid_slots' \in [Cids -> SlotNums \cup {NoSlot}]
        BY <1>1, <2>1, <2>3, <2>4, <2>6 DEF TypeOK
    <2> QED BY <1>1, <1>6, <2>1, <2>5, <2>7 DEF AcceptAuth, TypeOK
<1>7. CASE HandleDisconnect
    <2>1. c \in Cids /\ fetched' \in Seq(Event)
        BY <1>7, Handled DEF HandleDisconnect, EventType
    <2>2. OpenSlot \in Slot /\ \A x \in Slot : [x EXCEPT !.connected = FALSE] \in Slot
        BY DEF OpenSlot, Slot
    <2>3. slots' \in [SlotNums -> Slot] /\ cid_slots' \in [Cids -> SlotNums \cup {NoSlot}]
        <3>1. CASE cid_slots[c] = NoSlot
            BY <1>1, <1>7, <3>1 DEF HandleDisconnect, TypeOK
        <3>2. CASE cid_slots[c] # NoSlot
            <4>1. cid_slots[c] \in SlotNums
                BY <1>1, <2>1, <3>2 DEF TypeOK
            <4>2. Vacated(cid_slots[c]) \in Slot
                BY <1>1, <2>2, <4>1 DEF Vacated, TypeOK
            <4> QED BY <1>1, <1>7, <3>2, <4>1, <4>2 DEF HandleDisconnect, TypeOK
        <3> QED BY <3>1, <3>2
    <2> QED BY <1>1, <1>7, <2>1, <2>3 DEF HandleDisconnect, TypeOK
<1>8. CASE HandleWrong
    <2>1. c \in Cids /\ fetched' \in Seq(Event)
        BY <1>8, Handled DEF HandleWrong, EventType
    <2>2. ignored' \subseteq Cids /\ kicking' \in [Threads -> Cids \cup {NoCid}]
        BY <1>1, <1>8, <2>1, KickTypes DEF HandleWrong, Threads
    <2> QED BY <1>1, <1>8, <2>1, <2>2 DEF HandleWrong, TypeOK
<1>9. CASE HandleGameEvent
    <2>1. c \in Cids /\ fetched' \in Seq(Event)
        BY <1>9, Handled DEF HandleGameEvent, EventType
    <2>2. queueing' \in Closure
        BY <1>9, <2>1 DEF HandleGameEvent, Closure
    <2> QED BY <1>1, <1>9, <2>1, <2>2 DEF HandleGameEvent, TypeOK
<1>13. CASE Accumulate
    <2>1. queueing \in Closure /\ closures' = Append(closures, queueing) /\ closures \in Seq(Closure)
        BY <1>1, <1>13 DEF Accumulate, TypeOK
    <2>2. closures' \in Seq(Closure)
        BY <2>1, AppendProperties
    <2> QED BY <1>1, <1>13, <2>2 DEF Accumulate, TypeOK
<1>10. CASE EndBatch
    BY <1>1, <1>10 DEF EndBatch, TypeOK
<1>11. CASE RunClosure
    <2>1. Head(closures).cid \in Cids /\ closures' \in Seq(Closure)
        <3>1. closures \in Seq(Closure) /\ closures # <<>> /\ closures' = Tail(closures)
            BY <1>1, <1>11 DEF RunClosure, TypeOK
        <3>2. Head(closures) \in Closure /\ closures' \in Seq(Closure)
            BY <3>1, HeadTailProperties
        <3> QED BY <3>2 DEF Closure
    <2>2. ignored' \subseteq Cids /\ kicking' \in [Threads -> Cids \cup {NoCid}]
        <3>1. CASE Kick("MAIN", Head(closures).cid)
            BY <1>1, <2>1, <3>1, KickTypes DEF Threads
        <3>2. CASE UNCHANGED <<ignored, kicking>>
            BY <1>1, <3>2 DEF TypeOK
        <3> QED BY <1>11, <3>1, <3>2 DEF RunClosure
    <2> QED BY <1>1, <1>11, <2>1, <2>2 DEF RunClosure, TypeOK
<1>14. CASE EndAccumulations
    BY <1>1, <1>14 DEF EndAccumulations, TypeOK
<1>15. ASSUME NEW t \in Threads, DisconnectKicked(t)
       PROVE  TypeOK'
    <2>1. kicking[t] \in Cids
        BY <1>1, <1>15 DEF DisconnectKicked, TypeOK
    <2>2. requests' \in Seq(Request)
        BY <1>1, <1>15, <2>1, Members, RequestQueue DEF DisconnectKicked
    <2>3. kicking' \in [Threads -> Cids \cup {NoCid}]
        BY <1>1, <1>15 DEF DisconnectKicked, TypeOK
    <2> QED BY <1>1, <1>15, <2>2, <2>3 DEF DisconnectKicked, TypeOK
<1>12. CASE StartGame
    BY <1>1, <1>12 DEF StartGame, TypeOK
<1> QED BY <1>2, <1>3, <1>4, <1>5, <1>6, <1>7, <1>8, <1>9, <1>10, <1>11, <1>12, <1>13, <1>14, <1>15
        DEF ProcessEvent, ProcessAccumulations

-----------------------------------------------------------------------------
(* Queues and cids *)

LEMMA QueuesUnchanged ==
    ASSUME IInv, UNCHANGED <<next_cid, sockets, account, peer_slot, events_out, fetched>>,
           \A c \in Cids : cid_slots'[c] # NoSlot => cid_slots[c] # NoSlot
    PROVE  QueuedInv' /\ CidsInv'
BY DEF IInv, SessionInv, QueuedInv, CidsInv, Known

LEMMA NetworkQueues ==
    ASSUME IInv,
           \/ \E a \in Accounts : Accept(a)
           \/ \E c \in Cids :
                \/ ReadAuth(c)
                \/ \E type \in {"game_event", "wrong"} : ReadPacket(c, type)
                \/ LosePeer(c)
           \/ ProcessRequest
    PROVE  QueuedInv' /\ CidsInv'
<1> USE DEF fetchVars, sessionVars, peerVars, networkVars, closureVars
<1>1. /\ TypeOK /\ QueuedInv /\ CidsInv
      /\ events_out \in Seq(Event) /\ fetched \in Seq(Event)
      /\ Queued(events_out, Known, peer_slot) /\ Queued(fetched, Known, peer_slot)
    BY DEF IInv, SessionInv, QueuedInv, TypeOK
<1>2. ASSUME NEW a \in Accounts, Accept(a) PROVE QueuedInv' /\ CidsInv'
    <2>1. /\ next_cid \in Cids /\ next_cid' = next_cid + 1 /\ next_cid \in Nat
          /\ Known' = Known \cup {next_cid} /\ next_cid \notin Known
        BY <1>1, <1>2, SizeAssumption DEF Accept, Known, Cids
    <2>2. Queued(events_out, Known', peer_slot) /\ Queued(fetched, Known', peer_slot)
        BY <1>1, <2>1, QueuedLater
    <2>3. Queued(events_out', Known', peer_slot)
        <3>1. next_cid \in Known'
            BY <2>1
        <3>2. events_out' = Append(events_out, [type |-> "connect", cid |-> next_cid])
            BY <1>2 DEF Accept
        <3> QED BY <1>1, <2>1, <2>2, <3>1, <3>2, QueuedAppend DEF EventType
    <2>4. CidsInv'
        <3>1. account' = [account EXCEPT ![next_cid] = a] /\ sockets' = sockets \cup {next_cid}
            BY <1>2 DEF Accept
        <3>2. Known \subseteq Cids
            BY <1>1, SizeAssumption DEF Known, Cids, TypeOK
        <3> QED BY <1>1, <1>2, <2>1, <3>1, <3>2 DEF CidsInv, Accept, TypeOK
    <2> QED BY <1>2, <2>2, <2>3, <2>4 DEF QueuedInv, Accept
<1>3. ASSUME NEW c \in Cids, ReadAuth(c) PROVE QueuedInv' /\ CidsInv'
    <2>1. c \in Known /\ Known' = Known
        BY <1>1, <1>3 DEF ReadAuth, CidsInv, Known
    <2>2. Queued(events_out', Known, peer_slot)
        BY <1>1, <1>3, <2>1, QueuedAppend DEF ReadAuth, EventType
    <2> QED BY <1>1, <1>3, <2>1, <2>2 DEF ReadAuth, QueuedInv, CidsInv
<1>4. ASSUME NEW c \in Cids, NEW type \in {"game_event", "wrong"}, ReadPacket(c, type)
      PROVE  QueuedInv' /\ CidsInv'
    <2>1. c \in Known /\ Known' = Known /\ peer_slot[c] # NoSlot
        BY <1>1, <1>4 DEF ReadPacket, CidsInv, Known
    <2>2. Queued(events_out', Known, peer_slot)
        BY <1>1, <1>4, <2>1, QueuedAppend DEF ReadPacket, EventType
    <2> QED BY <1>1, <1>4, <2>1, <2>2 DEF ReadPacket, QueuedInv, CidsInv
<1>5. ASSUME NEW c \in Cids, LosePeer(c) PROVE QueuedInv' /\ CidsInv'
    <2>1. Queued(events_out', Known, peer_slot) /\ sockets' \subseteq sockets
        BY <1>1, <1>5, ClosedQueue DEF LosePeer
    <2>2. Known' = Known
        BY <1>5 DEF LosePeer, Known
    <2> QED BY <1>1, <1>5, <2>1, <2>2 DEF LosePeer, QueuedInv, CidsInv
<1>6. CASE GetEvents
    <2>1. Queued(<<>>, Known, peer_slot)
        BY DEF Queued
    <2>2. Known' = Known
        BY <1>6 DEF GetEvents, Known
    <2> QED BY <1>1, <1>6, <2>1, <2>2 DEF GetEvents, QueuedInv, CidsInv
<1>7. CASE SendRequestAuth
    BY <1>7, QueuesUnchanged DEF SendRequestAuth
<1>8. CASE SendPlayers
    <2>1. Known' = Known
        BY <1>8 DEF SendPlayers, Known
    <2>2. Head(requests).slot_num # NoSlot
        BY <1>1, <1>8, RequestTypes, SizeAssumption DEF SendPlayers, SlotNums, NoSlot
    <2>3. \A d \in Cids : peer_slot[d] # NoSlot => peer_slot'[d] # NoSlot
        BY <1>1, <1>8, <2>2 DEF SendPlayers, TypeOK
    <2>4. Known \subseteq Cids
        BY <1>1, SizeAssumption DEF Known, Cids, TypeOK
    <2>5. \A d \in Known : peer_slot[d] # NoSlot => peer_slot'[d] # NoSlot
        BY <2>3, <2>4
    <2>6. Queued(events_out, Known, peer_slot') /\ Queued(fetched, Known, peer_slot')
        BY <1>1, <2>5, QueuedLater
    <2> QED BY <1>1, <1>8, <2>1, <2>6 DEF SendPlayers, QueuedInv, CidsInv
<1>9. CASE DisconnectClient
    <2>1. Known' = Known
        BY <1>9 DEF DisconnectClient, Known
    <2>2. Queued(events_out', Known, peer_slot) /\ sockets' \subseteq sockets
        <3>1. CASE Head(requests).cid \in sockets
            BY <1>1, <1>9, <3>1, ClosedQueue DEF DisconnectClient
        <3>2. CASE Head(requests).cid \notin sockets
            BY <1>1, <1>9, <3>2 DEF DisconnectClient
        <3> QED BY <3>1, <3>2
    <2> QED BY <1>1, <1>9, <2>1, <2>2 DEF DisconnectClient, QueuedInv, CidsInv
<1> QED BY <1>2, <1>3, <1>4, <1>5, <1>6, <1>7, <1>8, <1>9 DEF ProcessRequest

LEMMA GameQueues ==
    ASSUME IInv, CreateGetEvents \/ ProcessEvent \/ EndBatch \/ ProcessAccumulations
                 \/ (\E t \in Threads : DisconnectKicked(t)) \/ StartGame
    PROVE  QueuedInv' /\ CidsInv'
<1> USE DEF fetchVars, sessionVars, peerVars, networkVars, closureVars
<1> DEFINE c == Head(fetched).cid
<1>1. /\ TypeOK /\ QueuedInv /\ CidsInv
      /\ fetched \in Seq(Event)
      /\ Queued(events_out, Known, peer_slot) /\ Queued(fetched, Known, peer_slot)
    BY DEF IInv, SessionInv, QueuedInv, TypeOK
<1>2. CASE \/ CreateGetEvents \/ EndBatch \/ ProcessAccumulations \/ StartGame \/ Accumulate
           \/ \E t \in Threads : DisconnectKicked(t)
    BY <1>2, QueuesUnchanged DEF CreateGetEvents, EndBatch, ProcessAccumulations, RunClosure,
        EndAccumulations, StartGame, Accumulate, DisconnectKicked
<1>3. CASE ProcessEvent /\ ~Accumulate
    <2>1. UNCHANGED <<next_cid, sockets, account, peer_slot, events_out>>
        BY <1>3 DEF ProcessEvent, Ignore, HandleConnect, RefuseAuth, AcceptAuth, HandleDisconnect,
                    HandleWrong, HandleGameEvent
    <2>2. fetched # <<>> /\ fetched' = Tail(fetched)
        BY <1>3 DEF ProcessEvent, Ignore, HandleConnect, RefuseAuth, AcceptAuth, HandleDisconnect,
                    HandleWrong, HandleGameEvent, Handles
    <2>3. Queued(fetched', Known, peer_slot)
        BY <1>1, <2>2, QueuedTail
    <2>4. Known' = Known
        BY <2>1 DEF Known
    <2>5. \A d \in Cids : cid_slots'[d] # NoSlot => d \in Known
        <3>1. CASE AcceptAuth
            <4>1. c \in Known /\ cid_slots' = [cid_slots EXCEPT ![c] = SlotForAuth(account[c])]
                BY <3>1, Handled DEF AcceptAuth, EventType
            <4> QED BY <1>1, <4>1 DEF CidsInv, TypeOK
        <3>2. CASE HandleDisconnect
            BY <1>1, <3>2 DEF HandleDisconnect, CidsInv, TypeOK
        <3>3. CASE ~AcceptAuth /\ ~HandleDisconnect
            <4>1. cid_slots' = cid_slots
                BY <1>3, <3>3 DEF ProcessEvent, Ignore, HandleConnect, RefuseAuth, HandleWrong,
                                  HandleGameEvent
            <4> QED BY <1>1, <4>1 DEF CidsInv
        <3> QED BY <3>1, <3>2, <3>3
    <2>6. QueuedInv'
        BY <1>1, <2>1, <2>3, <2>4 DEF QueuedInv
    <2>7. CidsInv'
        BY <1>1, <2>1, <2>4, <2>5 DEF CidsInv
    <2> QED BY <2>6, <2>7
<1> QED BY <1>2, <1>3

-----------------------------------------------------------------------------
(* Slots and the table of cids *)

LEMMA SlotsUnchanged ==
    ASSUME IInv, UNCHANGED <<sessionVars, game_state>>,
           \A c \in Cids : cid_slots[c] # NoSlot => account'[c] = account[c]
    PROVE  SlotsInv' /\ SessionsMatchSlots'
BY DEF IInv, SessionInv, SlotsInv, SessionsMatchSlots, sessionVars

\* The player gets a slot nobody is connected in, and which was linked to nobody else.
LEMMA AcceptAuthSlots ==
    ASSUME IInv, AcceptAuth
    PROVE  /\ SlotsInv' /\ SessionsMatchSlots'
           /\ \A s \in SlotNums :
                slots[s].state = "player" /\ slots'[s].state = "player" =>
                    slots'[s].account = slots[s].account
<1> DEFINE c == Head(fetched).cid
           a == account[c]
           s == SlotForAuth(a)
           new == [state |-> "player", account |-> a, cid |-> c, connected |-> TRUE]
<1>1. TypeOK /\ SlotsInv /\ SessionsMatchSlots /\ CidsInv
    BY DEF IInv, SessionInv
<1>2. /\ cid_slots[c] = NoSlot /\ ~AuthRefused(a)
      /\ cid_slots' = [cid_slots EXCEPT ![c] = s]
      /\ slots' = [slots EXCEPT ![s] = new]
      /\ UNCHANGED <<account, game_state>>
    BY DEF AcceptAuth, peerVars
<1>3. c \in Cids /\ a \in Accounts
    BY <1>1, Handled DEF AcceptAuth, EventType, CidsInv
<1>4. /\ s \in SlotNums
      /\ ~slots[s].connected
      /\ game_state = "lobby" => slots[s].state = "open" /\ LinkedTo(a) = {}
      /\ game_state # "lobby" => slots[s].state = "player" /\ slots[s].account = a
    BY <1>1, <1>2, <1>3, AuthSlot
<1>5. s # NoSlot
    BY <1>4, SizeAssumption DEF SlotNums, NoSlot
<1>6. /\ new.state = "player" /\ new.account = a /\ new.cid = c /\ new.connected = TRUE
    OBVIOUS
<1> HIDE DEF s, new, c, a
<1>7. /\ slots'[s] = new /\ \A t \in SlotNums \ {s} : slots'[t] = slots[t]
      /\ cid_slots'[c] = s /\ \A d \in Cids \ {c} : cid_slots'[d] = cid_slots[d]
    BY <1>1, <1>2, <1>3, <1>4 DEF TypeOK
<1>8. \A t \in SlotNums \ {s} : slots[t].account # a
    <2>1. CASE game_state = "lobby"
        BY <1>4, <2>1 DEF LinkedTo
    <2>2. CASE game_state # "lobby"
        BY <1>1, <1>3, <1>4, <2>2, AccountAssumption DEF SlotsInv
    <2> QED BY <2>1, <2>2
<1>9. SlotsInv'
    <2>1. \A t \in SlotNums : slots'[t].state = "open" =>
            ~slots'[t].connected /\ slots'[t].account = NoAccount
        BY <1>1, <1>6, <1>7 DEF SlotsInv
    <2>2. game_state' = "lobby" =>
            \A t \in SlotNums : slots'[t].account # NoAccount => slots'[t].connected
        BY <1>1, <1>2, <1>6, <1>7 DEF SlotsInv
    <2>3. \A t, u \in SlotNums :
            t # u /\ slots'[t].account # NoAccount => slots'[t].account # slots'[u].account
        BY <1>1, <1>3, <1>6, <1>7, <1>8 DEF SlotsInv
    <2> QED BY <2>1, <2>2, <2>3 DEF SlotsInv
<1>10. SessionsMatchSlots'
    <2>1. ASSUME NEW t \in SlotNums, slots'[t].connected
          PROVE  slots'[t].state = "player" /\ slots'[t].cid \in Cids /\ cid_slots'[slots'[t].cid] = t
        <3>1. CASE t = s
            BY <1>3, <1>6, <1>7, <3>1
        <3>2. CASE t # s
            <4>1. slots[t].state = "player" /\ slots[t].cid \in Cids /\ cid_slots[slots[t].cid] = t
                BY <1>1, <1>7, <2>1, <3>2 DEF SessionsMatchSlots
            <4>2. slots[t].cid # c
                BY <1>2, <4>1, SizeAssumption DEF SlotNums, NoSlot
            <4> QED BY <1>7, <3>2, <4>1, <4>2
        <3> QED BY <3>1, <3>2
    <2>2. ASSUME NEW d \in Cids, cid_slots'[d] # NoSlot
          PROVE  /\ slots'[cid_slots'[d]].connected /\ slots'[cid_slots'[d]].cid = d
                 /\ slots'[cid_slots'[d]].account = account'[d]
        <3>1. CASE d = c
            BY <1>2, <1>6, <1>7, <3>1 DEF a
        <3>2. CASE d # c
            <4>1. cid_slots'[d] = cid_slots[d] /\ cid_slots[d] \in SlotNums
                BY <1>1, <1>7, <2>2, <3>2 DEF TypeOK
            <4>2. /\ slots[cid_slots[d]].connected /\ slots[cid_slots[d]].cid = d
                  /\ slots[cid_slots[d]].account = account[d]
                BY <1>1, <2>2, <4>1 DEF SessionsMatchSlots
            <4> QED BY <1>2, <1>4, <1>7, <4>1, <4>2
        <3> QED BY <3>1, <3>2
    <2> QED BY <2>1, <2>2 DEF SessionsMatchSlots
<1>11. ASSUME NEW t \in SlotNums, slots[t].state = "player", slots'[t].state = "player"
       PROVE  slots'[t].account = slots[t].account
    BY <1>4, <1>6, <1>7, <1>11
<1> QED BY <1>9, <1>10, <1>11

\* The slot is opened or kept for its player, who is not connected any more.
LEMMA HandleDisconnectSlots ==
    ASSUME IInv, HandleDisconnect
    PROVE  /\ SlotsInv' /\ SessionsMatchSlots'
           /\ \A s \in SlotNums :
                slots[s].state = "player" /\ slots'[s].state = "player" =>
                    slots'[s].account = slots[s].account
<1> DEFINE c == Head(fetched).cid
           s == cid_slots[c]
           new == Vacated(s)
<1>1. TypeOK /\ SlotsInv /\ SessionsMatchSlots
    BY DEF IInv, SessionInv
<1>2. c \in Cids /\ UNCHANGED <<account, game_state>>
    BY Handled DEF HandleDisconnect, EventType, peerVars
<1>3. CASE s = NoSlot
    <2>1. UNCHANGED <<sessionVars, game_state, account>>
        BY <1>2, <1>3 DEF HandleDisconnect
    <2> QED BY <2>1, SlotsUnchanged DEF sessionVars
<1>4. CASE s # NoSlot
    <2>1. /\ cid_slots' = [cid_slots EXCEPT ![c] = NoSlot]
          /\ slots' = [slots EXCEPT ![s] = new]
        BY <1>4 DEF HandleDisconnect
    <2>2. s \in SlotNums /\ slots[s] \in Slot /\ slots[s].connected /\ slots[s].cid = c
        BY <1>1, <1>2, <1>4 DEF TypeOK, SessionsMatchSlots
    <2>3. /\ ~new.connected
          /\ new.state = "open" => new.account = NoAccount
          /\ game_state = "lobby" => new.account = NoAccount /\ new.state = "open"
          /\ game_state # "lobby" => new.account = slots[s].account
        <3>1. CASE game_state = "lobby"
            BY <3>1 DEF Vacated, OpenSlot
        <3>2. CASE game_state # "lobby"
            <4>1. new = [slots[s] EXCEPT !.connected = FALSE]
                BY <3>2 DEF Vacated
            <4>2. ~new.connected /\ new.state = slots[s].state /\ new.account = slots[s].account
                BY <2>2, <4>1 DEF Slot
            <4> QED BY <1>1, <2>2, <3>2, <4>2 DEF SlotsInv
        <3> QED BY <3>1, <3>2
    <2> HIDE DEF s, new, c
    <2>4. /\ slots'[s] = new /\ \A t \in SlotNums \ {s} : slots'[t] = slots[t]
          /\ cid_slots'[c] = NoSlot /\ \A d \in Cids \ {c} : cid_slots'[d] = cid_slots[d]
        BY <1>1, <1>2, <2>1, <2>2 DEF TypeOK
    <2>5. SlotsInv'
        <3>1. \A t \in SlotNums : slots'[t].state = "open" =>
                ~slots'[t].connected /\ slots'[t].account = NoAccount
            BY <1>1, <2>3, <2>4 DEF SlotsInv
        <3>2. game_state' = "lobby" =>
                \A t \in SlotNums : slots'[t].account # NoAccount => slots'[t].connected
            BY <1>1, <1>2, <2>3, <2>4 DEF SlotsInv
        <3>3. \A t \in SlotNums : slots'[t].account # NoAccount => slots'[t].account = slots[t].account
            BY <2>3, <2>4
        <3>4. \A t, u \in SlotNums :
                t # u /\ slots'[t].account # NoAccount => slots'[t].account # slots'[u].account
            BY <1>1, <3>3 DEF SlotsInv
        <3> QED BY <3>1, <3>2, <3>4 DEF SlotsInv
    <2>6. SessionsMatchSlots'
        <3>1. ASSUME NEW t \in SlotNums, slots'[t].connected
              PROVE  /\ slots'[t].state = "player" /\ slots'[t].cid \in Cids
                     /\ cid_slots'[slots'[t].cid] = t
            <4>1. t # s /\ slots'[t] = slots[t]
                BY <2>3, <2>4, <3>1
            <4>2. slots[t].state = "player" /\ slots[t].cid \in Cids /\ cid_slots[slots[t].cid] = t
                BY <1>1, <3>1, <4>1 DEF SessionsMatchSlots
            <4>3. slots[t].cid # c
                BY <4>1, <4>2 DEF s
            <4> QED BY <2>4, <4>1, <4>2, <4>3
        <3>2. ASSUME NEW d \in Cids, cid_slots'[d] # NoSlot
              PROVE  /\ slots'[cid_slots'[d]].connected /\ slots'[cid_slots'[d]].cid = d
                     /\ slots'[cid_slots'[d]].account = account'[d]
            <4>1. d # c /\ cid_slots'[d] = cid_slots[d]
                BY <2>4, <3>2
            <4>2. cid_slots[d] \in SlotNums
                BY <1>1, <3>2, <4>1 DEF TypeOK
            <4>3. /\ slots[cid_slots[d]].connected /\ slots[cid_slots[d]].cid = d
                  /\ slots[cid_slots[d]].account = account[d]
                BY <1>1, <3>2, <4>1 DEF SessionsMatchSlots
            <4>4. cid_slots[d] # s
                BY <2>2, <4>1, <4>3
            <4> QED BY <1>2, <2>4, <4>1, <4>2, <4>3, <4>4
        <3> QED BY <3>1, <3>2 DEF SessionsMatchSlots
    <2>7. ASSUME NEW t \in SlotNums, slots[t].state = "player", slots'[t].state = "player"
          PROVE  slots'[t].account = slots[t].account
        BY <2>3, <2>4, <2>7
    <2> QED BY <2>5, <2>6, <2>7
<1> QED BY <1>3, <1>4

\* All other steps leave slots and table alone, and the accounts of who is in it.
LEMMA OtherSlots ==
    ASSUME IInv, Next, ~AcceptAuth, ~HandleDisconnect
    PROVE  SlotsInv' /\ SessionsMatchSlots' /\ slots' = slots
<1> USE DEF fetchVars, sessionVars, peerVars, networkVars, closureVars
<1>1. CASE \E a \in Accounts : Accept(a)
    <2>1. TypeOK /\ CidsInv
        BY DEF IInv, SessionInv
    <2>2. next_cid \notin Known
        BY <2>1 DEF Known, TypeOK
    <2>3. \A c \in Cids : c # next_cid => account'[c] = account[c]
        BY <1>1, <2>1 DEF Accept, TypeOK
    <2>4. \A c \in Cids : cid_slots[c] # NoSlot => account'[c] = account[c]
        BY <2>1, <2>2, <2>3 DEF CidsInv
    <2>5. UNCHANGED <<sessionVars, game_state>>
        BY <1>1 DEF Accept
    <2> QED BY <2>4, <2>5, SlotsUnchanged
<1>2. CASE StartGame
    BY <1>2 DEF StartGame, IInv, SessionInv, SlotsInv, SessionsMatchSlots
<1>3. CASE ~StartGame /\ ~ \E a \in Accounts : Accept(a)
    <2>1. UNCHANGED <<sessionVars, game_state, account>>
        BY <1>3 DEF Next, ReadAuth, ReadPacket, LosePeer, ProcessRequest, GetEvents, SendRequestAuth,
                    SendPlayers, DisconnectClient, CreateGetEvents, ProcessEvent, Ignore,
                    HandleConnect, RefuseAuth, HandleWrong, HandleGameEvent, Accumulate, EndBatch,
                    ProcessAccumulations, RunClosure, EndAccumulations, DisconnectKicked
    <2> QED BY <2>1, SlotsUnchanged
<1> QED BY <1>1, <1>2, <1>3

-----------------------------------------------------------------------------
(* Theorems *)

LEMMA InitialInv == Init => IInv
<1> SUFFICES ASSUME Init PROVE IInv
    OBVIOUS
<1> USE DEF Init
<1>1. TypeOK
    <2>1. OpenSlot \in Slot
        BY DEF OpenSlot, Slot
    <2>2. sent \in 0..MaxPackets /\ next_cid \in 1..(MaxConnections + 1)
        BY BoundAssumption, SizeAssumption
    <2>3. NoClosure \in Closure \cup {NoClosure}
        OBVIOUS
    <2>4. <<>> \in Seq(Event) /\ <<>> \in Seq(Request) /\ <<>> \in Seq(Closure)
        BY EmptySeq
    <2> QED BY <2>1, <2>2, <2>3, <2>4 DEF TypeOK
<1>2. QueuedInv /\ CidsInv
    BY DEF QueuedInv, Queued, CidsInv, Known
<1>3. SlotsInv /\ SessionsMatchSlots
    BY DEF SlotsInv, SessionsMatchSlots, OpenSlot
<1> QED BY <1>1, <1>2, <1>3 DEF IInv, SessionInv

LEMMA InductiveInv == IInv /\ [Next]_vars => IInv'
<1> SUFFICES ASSUME IInv, [Next]_vars PROVE IInv'
    OBVIOUS
<1>1. CASE Next
    <2>1. TypeOK' /\ QueuedInv' /\ CidsInv'
        BY <1>1, NetworkTypes, GameTypes, NetworkQueues, GameQueues DEF Next
    <2>2. SlotsInv' /\ SessionsMatchSlots'
        BY <1>1, AcceptAuthSlots, HandleDisconnectSlots, OtherSlots
    <2> QED BY <2>1, <2>2 DEF IInv, SessionInv
<1>2. CASE UNCHANGED vars
    <2> USE <1>2 DEF vars, networkVars, peerVars, fetchVars, sessionVars, closureVars
    <2>1. TypeOK'
        BY DEF IInv, TypeOK
    <2>2. QueuedInv' /\ CidsInv'
        BY QueuesUnchanged
    <2>3. SlotsInv' /\ SessionsMatchSlots'
        BY SlotsUnchanged
    <2> QED BY <2>1, <2>2, <2>3 DEF IInv, SessionInv
<1> QED BY <1>1, <1>2

\* Every variable keeps its type; an accepted player gets one of the slots.
THEOREM TypeCorrect == Spec => []TypeOK
<1>1. IInv => TypeOK
    BY DEF IInv
<1> QED BY <1>1, InitialInv, InductiveInv, PTL DEF Spec

\* What is queued is about known clients, and accounts are linked to one slot.
THEOREM SessionsConsistent == Spec => []SessionInv
<1>1. IInv => SessionInv
    BY DEF IInv
<1> QED BY <1>1, InitialInv, InductiveInv, PTL DEF Spec

\* The slots of connected players and the table of cids are inverse to each other
\* (State.cpp:115, Server.cpp:419).
THEOREM TableMatchesSlots == Spec => []SessionsMatchSlots
<1>1. IInv => SessionsMatchSlots
    BY DEF IInv, SessionInv
<1> QED BY <1>1, InitialInv, InductiveInv, PTL DEF Spec

\* A slot changes hands only by becoming open (Slot.cpp:100, Slot.cpp:119), and
\* nobody plays two.
THEOREM SlotsPassOnOpen == Spec => SlotsChangeHandsOpen
<1> DEFINE Step ==
        /\ \A s \in SlotNums :
            slots[s].state = "player" /\ slots'[s].state = "player" =>
                slots'[s].account = slots[s].account
        /\ \A s, t \in SlotNums :
            s # t /\ slots'[s].account # NoAccount => slots'[s].account # slots'[t].account
<1>1. ASSUME IInv, [Next]_vars PROVE [Step]_vars
    <2>1. SlotsInv'
        BY <1>1, InductiveInv DEF IInv, SessionInv
    <2>2. CASE Next
        BY <2>1, <2>2, <1>1, AcceptAuthSlots, HandleDisconnectSlots, OtherSlots DEF SlotsInv
    <2>3. CASE UNCHANGED vars
        BY <2>3
    <2> QED BY <1>1, <2>2, <2>3
<1> QED BY <1>1, InitialInv, InductiveInv, PTL DEF Spec, SlotsChangeHandsOpen

-----------------------------------------------------------------------------
(* Who was kicked is silent: the inductive invariant *)

\* An event or a request is in a queue, at most once.
Has(q, x) == \E i \in 1..Len(q) : q[i] = x
Once(q, x) == \A i, j \in 1..Len(q) : q[i] = x /\ q[j] = x => i = j

\* Events and requests about a client.
About(type, c) == [type |-> type, cid |-> c]
AskAuth(c) == [op |-> "request_auth", cid |-> c]
AskClose(c) == [op |-> "disconnect_client", cid |-> c]
AskEvents == [op |-> "get_events"]

\* A queue with nothing of a client but, maybe, the end of its connection.
Quiet(q, c) == \A type \in EventType \ {"disconnect"} : ~Has(q, About(type, c))

\* One fetch is under way at a time: what is ignored is not forgotten during one.
OneFetch ==
    /\ Once(requests, AskEvents) /\ (Has(requests, AskEvents) => fetching = "created")
    /\ fetched # <<>> => fetching = "executed"

\* What a client sent goes with its socket.
ClosedAreQuiet == \A c \in Cids : c \notin sockets => Quiet(events_out, c)

\* The request to close a connection is ahead of the next fetch, or what that
\* fetch finds is ignored as well.
Closing(c) ==
    \E i \in 1..Len(requests) :
        /\ requests[i] = AskClose(c)
        /\ \A j \in 1..(i - 1) : requests[j] = AskEvents => c \in ignored

\* GAME is in Kick and will ask for it: the batch goes on meanwhile.
BeingKicked(c) == kicking["GAME"] = c /\ c \in ignored /\ fetching = "executed"

Silent(c) ==
    /\ queueing.cid # c
    /\ c \in ignored \/ Quiet(fetched, c)
    /\ c \notin sockets \/ BeingKicked(c) \/ Closing(c)

SilenceInv ==
    /\ OneFetch /\ ClosedAreQuiet
    /\ kicked \subseteq Known
    /\ kicking["GAME"] \in kicked \cup {NoCid}
    /\ \A c \in kicked : Silent(c)
-----------------------------------------------------------------------------
(* What queues hold *)

\* A step that takes nothing more of a kind into a queue:
NoMore(q, q2, x) == (Has(q2, x) => Has(q, x)) /\ (Once(q, x) => Once(q2, x))

\* taking the head, of which there is no second one,
LEMMA HasTail ==
    ASSUME NEW S, NEW q \in Seq(S), q # <<>>, NEW x
    PROVE  /\ NoMore(q, Tail(q), x)
           /\ Has(q, Head(q))
           /\ Head(q) = x /\ Once(q, x) => ~Has(Tail(q), x)
<1>1. /\ Len(q) \in Nat \ {0} /\ Len(Tail(q)) = Len(q) - 1
      /\ \A i \in 1..Len(Tail(q)) : Tail(q)[i] = q[i + 1]
    BY HeadTailProperties, EmptySeq
<1>2. Head(q) = q[1] /\ 1 \in 1..Len(q)
    BY <1>1
<1>3. \A i \in 1..Len(Tail(q)) : i + 1 \in 1..Len(q) /\ i \in Nat /\ i + 1 # 1
    BY <1>1
<1>4. Has(Tail(q), x) => Has(q, x)
    BY <1>1, <1>3 DEF Has
<1>5. Once(q, x) => Once(Tail(q), x)
    <2> SUFFICES ASSUME Once(q, x), NEW i \in 1..Len(Tail(q)), NEW j \in 1..Len(Tail(q)),
                        Tail(q)[i] = x, Tail(q)[j] = x
                 PROVE  i = j
        BY DEF Once
    <2>1. i + 1 = j + 1
        BY <1>1, <1>3 DEF Once
    <2> QED BY <1>3, <2>1
<1>6. Head(q) = x /\ Once(q, x) => ~Has(Tail(q), x)
    BY <1>1, <1>2, <1>3 DEF Has, Once
<1> QED BY <1>2, <1>4, <1>5, <1>6 DEF NoMore, Has

\* appending something else,
LEMMA HasAppend ==
    ASSUME NEW S, NEW q \in Seq(S), NEW y \in S, NEW x
    PROVE  /\ y # x => NoMore(q, Append(q, y), x)
           /\ Has(Append(q, y), y)
           /\ Once(q, x) /\ ~Has(q, x) => Once(Append(q, y), x)
           /\ Has(q, x) => Has(Append(q, y), x)
<1>1. /\ Len(Append(q, y)) = Len(q) + 1 /\ Len(q) \in Nat
      /\ \A i \in 1..Len(q) : Append(q, y)[i] = q[i]
      /\ Append(q, y)[Len(q) + 1] = y
    BY AppendProperties, LenProperties
<1>2. \A i \in 1..(Len(q) + 1) : i \in 1..Len(q) \/ i = Len(q) + 1
    BY <1>1
<1>3. \A i \in 1..Len(q) : i \in 1..(Len(q) + 1)
    BY <1>1
<1>4. Len(q) + 1 \in 1..(Len(q) + 1)
    BY <1>1
<1> QED BY <1>1, <1>2, <1>3, <1>4 DEF NoMore, Has, Once

\* or closing a connection, which leaves the queue quiet.
LEMMA HasInvalidate ==
    ASSUME NEW q \in Seq(Event), NEW c \in Cids
    PROVE  /\ \A x : x # Gap => NoMore(q, Invalidate(q, c), x)
           /\ Quiet(Invalidate(q, c), c)
<1> DEFINE r == Invalidate(q, c)
<1>1. Len(q) \in Nat /\ \A i \in 1..Len(q) : q[i] \in Event
    BY LenProperties, ElementOfSeq
<1>2. \A i \in 1..Len(q) : r[i] = q[i] \/ r[i] = Gap
    BY DEF Invalidate
<1>3. r \in [1..Len(q) -> Event]
    BY <1>1, Members DEF Invalidate
<1>4. r \in Seq(Event)
    BY <1>1, <1>3, SeqDef
<1>5. Len(r) = Len(q)
    BY <1>1, <1>3, <1>4, LenProperties
<1>6. \A i \in 1..Len(q) : IsAbout(q[i], c) /\ q[i].type # "disconnect" => r[i] = Gap
    BY DEF Invalidate, IsDisconnect
<1> HIDE DEF r
<1>7. \A x : x # Gap => NoMore(q, r, x)
    BY <1>2, <1>5 DEF NoMore, Has, Once
<1>8. Quiet(r, c)
    <2> SUFFICES ASSUME NEW type \in EventType \ {"disconnect"},
                        NEW i \in 1..Len(r), r[i] = About(type, c)
                 PROVE  FALSE
        BY DEF Quiet, Has
    <2>1. About(type, c) # Gap
        BY Members DEF About
    <2>2. q[i] = About(type, c)
        BY <1>2, <1>5, <2>1
    <2>3. About(type, c).cid = c /\ About(type, c).type = type
        BY DEF About
    <2>4. IsAbout(q[i], c) /\ q[i].type # "disconnect"
        BY <2>1, <2>2, <2>3 DEF IsAbout
    <2> QED BY <1>5, <1>6, <2>1, <2>4
<1> QED BY <1>7, <1>8 DEF r

LEMMA HasNothing ==
    ASSUME NEW x
    PROVE  ~Has(<<>>, x) /\ Once(<<>>, x)
BY DEF Has, Once

\* Events and requests of different kinds, or about different clients, differ.
LEMMA Kinds ==
    /\ \A type \in EventType, c \in Cids : About(type, c) \in Event /\ About(type, c) # Gap
    /\ \A t1, t2 \in EventType, c1, c2 \in Cids :
        About(t1, c1) = About(t2, c2) => t1 = t2 /\ c1 = c2
    /\ \A c \in Cids : AskAuth(c) \in Request /\ AskClose(c) \in Request
    /\ AskEvents \in Request
    /\ \A c, d \in Cids : AskAuth(c) = AskAuth(d) \/ AskClose(c) = AskClose(d) => c = d
    /\ \A c, d \in Cids : AskAuth(c) # AskClose(d)
    /\ \A c \in Cids : AskAuth(c) # AskEvents /\ AskClose(c) # AskEvents
<1>1. \A type \in EventType, c \in Cids : About(type, c) \in Event /\ About(type, c) # Gap
    BY Members DEF About
<1>2. \A type, c : About(type, c).type = type /\ About(type, c).cid = c
    BY DEF About
<1>3. \A c : /\ AskAuth(c).op = "request_auth" /\ AskAuth(c).cid = c
             /\ AskClose(c).op = "disconnect_client" /\ AskClose(c).cid = c
    BY DEF AskAuth, AskClose
<1>4. AskEvents.op = "get_events"
    BY DEF AskEvents
<1>5. AskEvents \in Request /\ \A c \in Cids : AskAuth(c) \in Request /\ AskClose(c) \in Request
    BY Members DEF AskEvents, AskAuth, AskClose
<1>6. \A t1, t2 \in EventType, c1, c2 \in Cids :
        About(t1, c1) = About(t2, c2) => t1 = t2 /\ c1 = c2
    BY <1>2
<1>7. \A c, d \in Cids : AskAuth(c) = AskAuth(d) \/ AskClose(c) = AskClose(d) => c = d
    BY <1>3
<1>8. \A c, d \in Cids : AskAuth(c) # AskClose(d)
    BY <1>3
<1>9. \A c \in Cids : AskAuth(c) # AskEvents /\ AskClose(c) # AskEvents
    BY <1>3, <1>4
<1> QED BY <1>1, <1>5, <1>6, <1>7, <1>8, <1>9

\* What GAME handles.
LEMMA HandledIs ==
    ASSUME IInv, NEW type \in EventType, Handles(type)
    PROVE  /\ fetched \in Seq(Event) /\ fetched # <<>> /\ fetched' = Tail(fetched)
           /\ Head(fetched).cid \in Cids /\ Head(fetched).cid \in Known
           /\ Head(fetched) = About(type, Head(fetched).cid)
           /\ Has(fetched, About(type, Head(fetched).cid))
           /\ type # "disconnect" => Head(fetched).cid \notin ignored
<1>1. fetched \in Seq(Event) /\ fetched # <<>> /\ fetched' = Tail(fetched)
    BY DEF IInv, TypeOK, Handles
<1>2. Head(fetched).cid \in Cids /\ Head(fetched).cid \in Known
    BY Handled
<1>3. Head(fetched) \in Event /\ Head(fetched).type = type
    BY <1>1, HeadTailProperties DEF Handles
<1>4. Head(fetched) # Gap
    BY <1>3 DEF Gap, EventType
<1>5. Head(fetched) = About(type, Head(fetched).cid)
    BY <1>3, <1>4 DEF Event, About
<1>6. Has(fetched, Head(fetched))
    BY <1>1, HasTail
<1>7. type # "disconnect" => Head(fetched).cid \notin ignored
    BY DEF Handles
<1> QED BY <1>1, <1>2, <1>5, <1>6, <1>7

\* What NETWORK is asked for.
LEMMA RequestIs ==
    ASSUME TypeOK, requests # <<>>
    PROVE  /\ Head(requests) \in Request
           /\ Head(requests).op = "get_events" => Head(requests) = AskEvents
           /\ Head(requests).op # "get_events" => Head(requests).cid \in Cids
           /\ Head(requests).op = "request_auth" => Head(requests) = AskAuth(Head(requests).cid)
           /\ Head(requests).op = "disconnect_client" =>
                Head(requests) = AskClose(Head(requests).cid)
<1>1. Head(requests) \in Request
    BY RequestQueue
<1>2. Head(requests).op = "get_events" => Head(requests) = AskEvents
    BY <1>1 DEF Request, AskEvents
<1>3. Head(requests).op # "get_events" => Head(requests).cid \in Cids
    BY <1>1 DEF Request
<1>4. Head(requests).op = "request_auth" => Head(requests) = AskAuth(Head(requests).cid)
    BY <1>1 DEF Request, AskAuth
<1>5. Head(requests).op = "disconnect_client" => Head(requests) = AskClose(Head(requests).cid)
    BY <1>1 DEF Request, AskClose
<1> QED BY <1>1, <1>2, <1>3, <1>4, <1>5
-----------------------------------------------------------------------------
(* NETWORK: one fetch at a time, and nothing left of a closed connection *)

LEMMA Queues ==
    ASSUME TypeOK
    PROVE  /\ events_out \in Seq(Event) /\ fetched \in Seq(Event) /\ requests \in Seq(Request)
           /\ next_cid \in Nat /\ Known = 1..(next_cid - 1) /\ Known \subseteq Cids
<1>1. next_cid \in Nat /\ next_cid <= MaxConnections + 1 /\ MaxConnections \in Nat
    BY SizeAssumption DEF TypeOK
<1>2. Known \subseteq Cids
    BY <1>1 DEF Known, Cids
<1> QED BY <1>1, <1>2 DEF TypeOK, Known

LEMMA AuthKinds == "connect" \in EventType /\ "auth" \in EventType
BY DEF EventType

LEMMA SameHasSame == \A q, x : NoMore(q, q, x)
BY DEF NoMore

\* A step of GAME that handles an event of a batch,
LEMMA HandlingSteps ==
    ASSUME IInv, ProcessEvent, ~Accumulate
    PROVE  /\ kicking["GAME"] = NoCid /\ queueing = NoClosure
           /\ fetched # <<>> /\ fetched' = Tail(fetched) /\ fetching' = fetching
           /\ ignored \subseteq ignored'
           /\ UNCHANGED <<next_cid, sockets, events_out>>
<1>1. /\ kicking["GAME"] = NoCid /\ queueing = NoClosure
      /\ fetched # <<>> /\ fetched' = Tail(fetched) /\ fetching' = fetching
      /\ UNCHANGED <<next_cid, sockets, events_out>>
    BY DEF ProcessEvent, GameFree, Handles, Ignore, HandleConnect, RefuseAuth, AcceptAuth,
        HandleDisconnect, HandleWrong, HandleGameEvent, networkVars
<1>2. CASE RefuseAuth
    BY <1>1, <1>2 DEF RefuseAuth, Kick
<1>3. CASE HandleWrong
    BY <1>1, <1>3 DEF HandleWrong, Kick
<1>4. CASE Ignore \/ HandleConnect \/ AcceptAuth \/ HandleDisconnect \/ HandleGameEvent
    BY <1>1, <1>4 DEF Ignore, HandleConnect, AcceptAuth, HandleDisconnect, HandleGameEvent
<1> QED BY <1>1, <1>2, <1>3, <1>4 DEF ProcessEvent

\* or any other step that leaves the batch and the requests alone.
QuietSteps ==
    \/ \E a \in Accounts : Accept(a)
    \/ \E c \in Cids :
        \/ ReadAuth(c)
        \/ \E type \in {"game_event", "wrong"} : ReadPacket(c, type)
        \/ LosePeer(c)
    \/ Accumulate \/ ProcessAccumulations \/ StartGame
    \/ UNCHANGED vars

LEMMA QuietSteps0 ==
    ASSUME QuietSteps
    PROVE  /\ UNCHANGED <<requests, fetching, fetched>> /\ ignored \subseteq ignored'
           /\ kicking'["GAME"] = kicking["GAME"]
           /\ queueing' = queueing \/ queueing' = NoClosure
<1>1. CASE RunClosure
    <2>1. UNCHANGED <<requests, fetching, fetched, queueing>>
        BY <1>1 DEF RunClosure, fetchVars
    <2>2. CASE UNCHANGED <<ignored, kicking>>
        BY <2>1, <2>2
    <2>3. CASE Kick("MAIN", Head(closures).cid)
        <3>1. kicking' = [kicking EXCEPT !["MAIN"] = Head(closures).cid]
            BY <2>3 DEF Kick
        <3>2. kicking'["GAME"] = kicking["GAME"]
            BY <3>1
        <3> QED BY <2>1, <2>3, <3>2 DEF Kick
    <2> QED BY <1>1, <2>2, <2>3 DEF RunClosure
<1>2. CASE Accumulate \/ EndAccumulations \/ StartGame
    BY <1>2 DEF Accumulate, EndAccumulations, StartGame, fetchVars, closureVars
<1>3. CASE \E a \in Accounts : Accept(a)
    BY <1>3 DEF Accept, fetchVars, closureVars
<1>4. CASE \E d \in Cids :
            ReadAuth(d) \/ (\E t \in {"game_event", "wrong"} : ReadPacket(d, t)) \/ LosePeer(d)
    BY <1>4 DEF ReadAuth, ReadPacket, LosePeer, fetchVars, closureVars
<1>5. CASE UNCHANGED vars
    BY <1>5 DEF vars, fetchVars, closureVars
<1> QED BY <1>1, <1>2, <1>3, <1>4, <1>5 DEF QuietSteps, ProcessAccumulations

\* Who is asked to do what: requests are taken, or a step asks for one thing.
Asks == \E r \in Request : r.op # "get_events" /\ requests' = Append(requests, r)

LEMMA HandlingAsks ==
    ASSUME IInv, ProcessEvent, ~Accumulate
    PROVE  requests' = requests \/ Asks
<1> DEFINE d == Head(fetched).cid
<1>1. CASE HandleConnect
    <2>1. d \in Cids /\ requests' = Append(requests, AskAuth(d))
        BY <1>1, HandledIs, AuthKinds DEF HandleConnect, AskAuth
    <2>2. AskAuth(d) \in Request /\ AskAuth(d).op = "request_auth"
        BY <2>1, Kinds DEF AskAuth
    <2> QED BY <2>1, <2>2 DEF Asks
<1>2. CASE RefuseAuth
    <2>1. d \in Cids
        BY <1>2, HandledIs, AuthKinds DEF RefuseAuth
    <2>2. requests' = requests \/ requests' = Append(requests, AskClose(d))
        BY <1>2 DEF RefuseAuth, AskClose
    <2>3. AskClose(d) \in Request /\ AskClose(d).op = "disconnect_client"
        BY <2>1, Kinds DEF AskClose
    <2> QED BY <2>2, <2>3 DEF Asks
<1>3. CASE AcceptAuth
    <2> DEFINE r == [op |-> "players", cid |-> d, slot_num |-> SlotForAuth(account[d])]
    <2>1. d \in Cids /\ d \in Known
        BY <1>3, HandledIs, AuthKinds DEF AcceptAuth
    <2>2. SlotForAuth(account[d]) \in SlotNums
        BY <1>3, <2>1, AuthSlot DEF IInv, SessionInv, CidsInv, AcceptAuth
    <2>3. r \in Request /\ r.op = "players" /\ requests' = Append(requests, r)
        BY <1>3, <2>1, <2>2, Members DEF AcceptAuth
    <2> HIDE DEF r
    <2> QED BY <2>3 DEF Asks
<1>4. CASE Ignore \/ HandleDisconnect \/ HandleWrong \/ HandleGameEvent
    BY <1>4 DEF Ignore, HandleDisconnect, HandleWrong, HandleGameEvent
<1> QED BY <1>1, <1>2, <1>3, <1>4 DEF ProcessEvent

LEMMA DisconnectAsks ==
    ASSUME TypeOK, NEW t \in Threads, DisconnectKicked(t)
    PROVE  /\ kicking[t] \in Cids /\ AskClose(kicking[t]) \in Request
           /\ requests' = Append(requests, AskClose(kicking[t]))
           /\ AskClose(kicking[t]).op = "disconnect_client"
           /\ UNCHANGED <<fetching, fetched, ignored, queueing, next_cid, sockets, events_out>>
<1>1. kicking[t] \in Cids
    BY DEF DisconnectKicked, TypeOK
<1>2. requests' = Append(requests, AskClose(kicking[t])) /\ AskClose(kicking[t]).op = "disconnect_client"
    BY DEF DisconnectKicked, AskClose
<1>3. UNCHANGED <<fetching, fetched, ignored, queueing, next_cid, sockets, events_out>>
    BY DEF DisconnectKicked, fetchVars, closureVars, networkVars
<1> QED BY <1>1, <1>2, <1>3, Kinds

LEMMA StepKinds ==
    ASSUME [Next]_vars
    PROVE  \/ GetEvents \/ SendRequestAuth \/ SendPlayers \/ DisconnectClient
           \/ CreateGetEvents \/ (ProcessEvent /\ ~Accumulate) \/ EndBatch
           \/ (\E t \in Threads : DisconnectKicked(t)) \/ QuietSteps
BY DEF Next, ProcessRequest, ProcessEvent, QuietSteps

LEMMA OneFetchStep ==
    ASSUME IInv, OneFetch, [Next]_vars
    PROVE  OneFetch'
<1>0. requests \in Seq(Request) /\ fetched \in Seq(Event)
    BY Queues DEF IInv
<1>1. ASSUME NoMore(requests, requests', AskEvents), fetching' = fetching,
             fetched # <<>> \/ fetched' = fetched
      PROVE  OneFetch'
    BY <1>1 DEF OneFetch, NoMore
<1>2. Asks => NoMore(requests, requests', AskEvents)
    BY <1>0, HasAppend DEF Asks, AskEvents
<1>3. CASE GetEvents
    <2>1. Head(requests) = AskEvents /\ requests # <<>> /\ requests' = Tail(requests)
        BY <1>3, RequestIs DEF IInv, GetEvents
    <2>2. ~Has(requests', AskEvents) /\ Once(requests', AskEvents)
        BY <1>0, <2>1, HasTail DEF OneFetch, NoMore
    <2>3. fetched' # <<>> => fetching' = "executed"
        BY <1>3 DEF GetEvents, AfterFetch
    <2> QED BY <2>2, <2>3 DEF OneFetch
<1>4. CASE SendRequestAuth \/ SendPlayers \/ DisconnectClient
    <2>1. requests # <<>> /\ requests' = Tail(requests) /\ fetching' = fetching /\ fetched' = fetched
        BY <1>4 DEF SendRequestAuth, SendPlayers, DisconnectClient, fetchVars
    <2> QED BY <1>0, <1>1, <2>1, HasTail
<1>5. CASE CreateGetEvents
    <2>1. requests' = Append(requests, AskEvents) /\ AskEvents \in Request
        BY <1>5, Kinds DEF CreateGetEvents, AskEvents
    <2>2. ~Has(requests, AskEvents) /\ fetched' = <<>>
        BY <1>5 DEF CreateGetEvents, OneFetch
    <2>3. Once(requests', AskEvents)
        BY <1>0, <2>1, <2>2, HasAppend DEF OneFetch
    <2> QED BY <1>5, <2>2, <2>3 DEF OneFetch, CreateGetEvents
<1>6. CASE EndBatch
    BY <1>6 DEF EndBatch, OneFetch
<1>7. CASE QuietSteps
    BY <1>1, <1>7, QuietSteps0, SameHasSame
<1>8. CASE ProcessEvent /\ ~Accumulate
    BY <1>1, <1>2, <1>8, HandlingSteps, HandlingAsks, SameHasSame
<1>9. ASSUME NEW t \in Threads, DisconnectKicked(t)
      PROVE  OneFetch'
    BY <1>1, <1>2, <1>9, DisconnectAsks DEF IInv, Asks
<1> QED BY <1>3, <1>4, <1>5, <1>6, <1>7, <1>8, <1>9, StepKinds

LEMMA QuietAppend ==
    ASSUME NEW q \in Seq(Event), NEW type \in EventType, NEW d \in Cids, NEW c \in Cids,
           Quiet(q, c), d # c \/ type = "disconnect"
    PROVE  Append(q, About(type, d)) \in Seq(Event) /\ Quiet(Append(q, About(type, d)), c)
<1>1. SUFFICES ASSUME NEW t \in EventType \ {"disconnect"}
               PROVE  ~Has(Append(q, About(type, d)), About(t, c))
    BY Kinds, AppendProperties DEF Quiet
<1>2. About(type, d) \in Event /\ About(type, d) # About(t, c)
    BY Kinds
<1>3. NoMore(q, Append(q, About(type, d)), About(t, c))
    BY <1>2, HasAppend
<1> QED BY <1>3 DEF NoMore, Quiet

\* Closing one connection leaves nothing of it, and keeps the others quiet.
LEMMA CloseQuiet ==
    ASSUME IInv, NEW d \in Cids, CloseClientSocket(d), NEW c \in Cids,
           c = d \/ Quiet(events_out, c)
    PROVE  Quiet(events_out', c)
<1> DEFINE q == Append(events_out, About("disconnect", d))
<1>1. events_out \in Seq(Event)
    BY Queues DEF IInv
<1>2. events_out' = Invalidate(q, d)
    BY DEF CloseClientSocket, About
<1>3. q \in Seq(Event)
    BY <1>1, Kinds, AppendProperties DEF EventType
<1>4. CASE c = d
    BY <1>2, <1>3, <1>4, HasInvalidate
<1>5. CASE c # d
    <2>1. Quiet(q, c)
        BY <1>1, <1>5, QuietAppend DEF EventType
    <2> HIDE DEF q
    <2>2. ASSUME NEW t \in EventType \ {"disconnect"}
          PROVE  NoMore(q, Invalidate(q, d), About(t, c))
        BY <1>3, Kinds, HasInvalidate
    <2> QED BY <1>2, <2>1, <2>2 DEF Quiet, NoMore
<1> QED BY <1>4, <1>5

LEMMA QuietStep ==
    ASSUME IInv, ClosedAreQuiet, [Next]_vars
    PROVE  ClosedAreQuiet'
<1> SUFFICES ASSUME NEW c \in Cids, c \notin sockets'
             PROVE  Quiet(events_out', c)
    BY DEF ClosedAreQuiet
<1>0. events_out \in Seq(Event) /\ next_cid \in Nat
    BY Queues DEF IInv
<1>1. c \notin sockets => Quiet(events_out, c)
    BY DEF ClosedAreQuiet
<1>2. ASSUME NEW a \in Accounts, Accept(a)
      PROVE  Quiet(events_out', c)
    <2>1. c \notin sockets /\ c # next_cid /\ next_cid \in Cids
        BY <1>2 DEF Accept
    <2>2. events_out' = Append(events_out, About("connect", next_cid))
        BY <1>2 DEF Accept, About
    <2> QED BY <1>0, <1>1, <2>1, <2>2, QuietAppend, AuthKinds
<1>3. ASSUME NEW d \in Cids, ReadAuth(d)
      PROVE  Quiet(events_out', c)
    <2>1. c \notin sockets /\ c # d
        BY <1>3 DEF ReadAuth
    <2>2. events_out' = Append(events_out, About("auth", d))
        BY <1>3 DEF ReadAuth, About
    <2> QED BY <1>0, <1>1, <2>1, <2>2, QuietAppend, AuthKinds
<1>4. ASSUME NEW d \in Cids, NEW t \in {"game_event", "wrong"}, ReadPacket(d, t)
      PROVE  Quiet(events_out', c)
    <2>1. c \notin sockets /\ c # d
        BY <1>4 DEF ReadPacket
    <2>2. events_out' = Append(events_out, About(t, d))
        BY <1>4 DEF ReadPacket, About
    <2> QED BY <1>0, <1>1, <2>1, <2>2, QuietAppend DEF EventType
<1>5. ASSUME NEW d \in Cids, CloseClientSocket(d)
      PROVE  Quiet(events_out', c)
    <2>1. c # d => c \notin sockets
        BY <1>5 DEF CloseClientSocket
    <2> QED BY <1>1, <1>5, <2>1, CloseQuiet
<1>6. CASE GetEvents
    BY <1>6, HasNothing DEF GetEvents, Quiet
<1>7. CASE DisconnectClient
    <2>1. Head(requests).cid \in Cids
        BY <1>7, RequestIs DEF IInv, DisconnectClient
    <2>2. CloseClientSocket(Head(requests).cid) \/ UNCHANGED <<sockets, events_out>>
        BY <1>7 DEF DisconnectClient
    <2> QED BY <1>1, <1>5, <2>1, <2>2
<1>8. ASSUME NEW d \in Cids, LosePeer(d)
      PROVE  Quiet(events_out', c)
    BY <1>5, <1>8 DEF LosePeer
<1>9. CASE UNCHANGED <<sockets, events_out>>
    BY <1>1, <1>9
<1>10. CASE SendRequestAuth \/ SendPlayers \/ CreateGetEvents \/ EndBatch \/ Accumulate
            \/ ProcessAccumulations \/ StartGame \/ UNCHANGED vars
    <2>1. UNCHANGED <<sockets, events_out>>
        BY <1>10 DEF SendRequestAuth, SendPlayers, CreateGetEvents, EndBatch, Accumulate,
            ProcessAccumulations, RunClosure, EndAccumulations, StartGame, vars, networkVars
    <2> QED BY <1>9, <2>1
<1>11. CASE ProcessEvent /\ ~Accumulate
    BY <1>9, <1>11, HandlingSteps
<1>12. ASSUME NEW t \in Threads, DisconnectKicked(t)
       PROVE  Quiet(events_out', c)
    BY <1>9, <1>12, DisconnectAsks DEF IInv
<1> QED BY <1>2, <1>3, <1>4, <1>6, <1>7, <1>8, <1>10, <1>11, <1>12 DEF Next, ProcessRequest

-----------------------------------------------------------------------------
(* Whoever was kicked is, and stays, silent *)

LEMMA ClosingAppend ==
    ASSUME NEW c \in Cids, TypeOK, Closing(c), NEW r \in Request,
           requests' = Append(requests, r), c \in ignored => c \in ignored'
    PROVE  Closing(c)'
<1>1. /\ requests \in Seq(Request) /\ Len(requests) \in Nat
      /\ Len(requests') = Len(requests) + 1
      /\ \A i \in 1..Len(requests) : requests'[i] = requests[i]
    BY Queues, AppendProperties, LenProperties
<1>2. PICK i \in 1..Len(requests) :
        /\ requests[i] = AskClose(c)
        /\ \A j \in 1..(i - 1) : requests[j] = AskEvents => c \in ignored
    BY DEF Closing
<1>3. i \in 1..Len(requests') /\ \A j \in 1..(i - 1) : j \in 1..Len(requests)
    BY <1>1
<1>4. /\ requests'[i] = AskClose(c)
      /\ \A j \in 1..(i - 1) : requests'[j] = AskEvents => c \in ignored'
    BY <1>1, <1>2, <1>3
<1> QED BY <1>3, <1>4 DEF Closing, AskClose

LEMMA ClosingTail ==
    ASSUME NEW c \in Cids, TypeOK, Closing(c), requests # <<>>, requests' = Tail(requests),
           Head(requests) # AskClose(c), ignored' = ignored
    PROVE  Closing(c)' /\ (Head(requests) = AskEvents => c \in ignored)
<1>1. /\ requests \in Seq(Request) /\ Len(requests) \in Nat \ {0}
      /\ Len(requests') = Len(requests) - 1
      /\ \A i \in 1..Len(requests') : requests'[i] = requests[i + 1]
      /\ Head(requests) = requests[1]
    BY Queues, HeadTailProperties, EmptySeq
<1>2. PICK i \in 1..Len(requests) :
        /\ requests[i] = AskClose(c)
        /\ \A j \in 1..(i - 1) : requests[j] = AskEvents => c \in ignored
    BY DEF Closing
<1>3. i # 1 /\ i \in Nat
    BY <1>1, <1>2
<1>4. i - 1 \in 1..Len(requests') /\ 1 \in 1..(i - 1)
    BY <1>1, <1>3
<1>5. \A j \in 1..((i - 1) - 1) : j + 1 \in 1..(i - 1) /\ j \in 1..Len(requests')
    BY <1>1, <1>3
<1>6. requests'[i - 1] = AskClose(c)
    BY <1>1, <1>2, <1>3, <1>4
<1>7. \A j \in 1..((i - 1) - 1) : requests'[j] = AskEvents => c \in ignored'
    BY <1>1, <1>2, <1>5
<1> QED BY <1>1, <1>2, <1>4, <1>6, <1>7 DEF Closing, AskClose

\* The request of a kick is the last one.
LEMMA KickCloses ==
    ASSUME NEW c \in Cids, TypeOK, requests' = Append(requests, AskClose(c)),
           c \in ignored, ignored' = ignored
    PROVE  Closing(c)'
<1>1. AskClose(c) \in Request
    BY Kinds
<1>2. /\ Len(requests') = Len(requests) + 1 /\ Len(requests) \in Nat
      /\ requests'[Len(requests) + 1] = AskClose(c)
    BY <1>1, Queues, AppendProperties, LenProperties
<1>3. Len(requests) + 1 \in 1..Len(requests')
    BY <1>2
<1> QED BY <1>2, <1>3 DEF Closing, AskClose

LEMMA QuietTail ==
    ASSUME NEW q \in Seq(Event), q # <<>>, NEW c \in Cids, Quiet(q, c)
    PROVE  Quiet(Tail(q), c)
<1>1. ASSUME NEW t \in EventType \ {"disconnect"}
      PROVE  NoMore(q, Tail(q), About(t, c))
    BY HasTail
<1> QED BY <1>1 DEF Quiet, NoMore

\* What was fetched of it is ignored, or gone.
LEMMA FetchedSilent ==
    ASSUME IInv, OneFetch, ClosedAreQuiet, NEW c \in Cids, Silent(c), [Next]_vars
    PROVE  c \in ignored' \/ Quiet(fetched', c)
<1>0. fetched \in Seq(Event)
    BY Queues DEF IInv
<1>1. CASE GetEvents
    <2>1. fetched' = events_out /\ ignored' = ignored
        BY <1>1 DEF GetEvents
    <2>2. /\ requests \in Seq(Request) /\ requests # <<>> /\ requests' = Tail(requests)
          /\ Head(requests) = AskEvents
        BY <1>1, RequestIs, Queues DEF IInv, GetEvents
    <2>3. CASE c \notin sockets
        BY <2>1, <2>3 DEF ClosedAreQuiet
    <2>4. CASE BeingKicked(c)
        <3>1. fetching = "created"
            BY <2>2, HasTail DEF OneFetch
        <3> QED BY <2>4, <3>1 DEF BeingKicked
    <2>5. CASE Closing(c)
        <3>1. Head(requests) # AskClose(c)
            BY <2>2, Kinds
        <3> QED BY <2>1, <2>2, <2>5, <3>1, ClosingTail DEF IInv
    <2> QED BY <2>3, <2>4, <2>5 DEF Silent
<1>2. CASE EndBatch
    BY <1>2, HasNothing DEF EndBatch, Quiet
<1>3. ASSUME ignored \subseteq ignored',
             fetched' = fetched \/ (fetched # <<>> /\ fetched' = Tail(fetched))
      PROVE  c \in ignored' \/ Quiet(fetched', c)
    BY <1>0, <1>3, QuietTail DEF Silent
<1>4. CASE ProcessEvent /\ ~Accumulate
    BY <1>3, <1>4, HandlingSteps
<1>5. CASE QuietSteps
    BY <1>3, <1>5, QuietSteps0
<1>6. CASE SendRequestAuth \/ SendPlayers \/ DisconnectClient \/ CreateGetEvents
    BY <1>3, <1>6 DEF SendRequestAuth, SendPlayers, DisconnectClient, CreateGetEvents, fetchVars
<1>7. ASSUME NEW t \in Threads, DisconnectKicked(t)
      PROVE  c \in ignored' \/ Quiet(fetched', c)
    BY <1>3, <1>7, DisconnectAsks DEF IInv
<1> QED BY <1>1, <1>2, <1>4, <1>5, <1>6, <1>7, StepKinds

\* A cid that was given out is not given out again.
LEMMA NotReopened ==
    ASSUME IInv, [Next]_vars
    PROVE  sockets' \subseteq sockets \cup {next_cid} /\ Known \subseteq Known'
<1>1. sockets' \subseteq sockets \cup {next_cid} /\ (next_cid' = next_cid \/ next_cid' = next_cid + 1)
    <2>1. CASE \E a \in Accounts : Accept(a)
        BY <2>1 DEF Accept
    <2>2. CASE \E d \in Cids :
                ReadAuth(d) \/ (\E t \in {"game_event", "wrong"} : ReadPacket(d, t))
        BY <2>2 DEF ReadAuth, ReadPacket
    <2>3. CASE \E d \in Cids : LosePeer(d)
        BY <2>3 DEF LosePeer, CloseClientSocket
    <2>4. CASE ProcessRequest
        BY <2>4 DEF ProcessRequest, GetEvents, SendRequestAuth, SendPlayers,
            DisconnectClient, CloseClientSocket, networkVars
    <2>5. CASE CreateGetEvents \/ EndBatch \/ Accumulate \/ ProcessAccumulations \/ StartGame
                \/ UNCHANGED vars
        BY <2>5 DEF CreateGetEvents, EndBatch, Accumulate, ProcessAccumulations, RunClosure,
            EndAccumulations, StartGame, vars, networkVars
    <2>6. CASE ProcessEvent /\ ~Accumulate
        BY <2>6, HandlingSteps
    <2>7. CASE \E t \in Threads : DisconnectKicked(t)
        BY <2>7, DisconnectAsks DEF IInv
    <2> QED BY <2>1, <2>2, <2>3, <2>4, <2>5, <2>6, <2>7 DEF Next
<1>2. next_cid \in Nat
    BY Queues DEF IInv
<1> QED BY <1>1, <1>2 DEF Known

\* Its connection is closed, or it is being kicked, or the request to close it
\* stays in front.
LEMMA ClosingSilent ==
    ASSUME IInv, OneFetch, NEW c \in Cids, c \in Known, Silent(c), [Next]_vars
    PROVE  c \notin sockets' \/ BeingKicked(c)' \/ Closing(c)'
<1>1. CASE c \notin sockets
    <2>1. c # next_cid
        BY Queues DEF IInv
    <2> QED BY <1>1, <2>1, NotReopened
<1>2. CASE BeingKicked(c)
    <2>1. kicking["GAME"] = c /\ c # NoCid /\ c \in ignored /\ fetching = "executed"
        BY <1>2, SizeAssumption DEF BeingKicked, Cids, NoCid
    <2>2. CASE DisconnectKicked("GAME")
        BY <2>1, <2>2, DisconnectAsks, KickCloses DEF IInv, Threads
    <2>3. CASE DisconnectKicked("MAIN")
        <3>1. kicking'["GAME"] = c
            BY <2>1, <2>3 DEF DisconnectKicked, IInv, TypeOK, Threads
        <3> QED BY <2>1, <2>3, <3>1, DisconnectAsks DEF IInv, BeingKicked, Threads
    <2>4. CASE SendRequestAuth \/ SendPlayers \/ DisconnectClient
        BY <2>1, <2>4 DEF BeingKicked, SendRequestAuth, SendPlayers, DisconnectClient, fetchVars
    <2>5. CASE QuietSteps
        BY <2>1, <2>5, QuietSteps0 DEF BeingKicked
    <2>6. ~CreateGetEvents /\ ~EndBatch /\ ~(ProcessEvent /\ ~Accumulate)
        BY <2>1, HandlingSteps DEF CreateGetEvents, EndBatch, GameFree
    <2>7. ~GetEvents
        <3> SUFFICES ASSUME GetEvents PROVE FALSE
            OBVIOUS
        <3>1. requests \in Seq(Request) /\ requests # <<>> /\ Head(requests) = AskEvents
            BY RequestIs, Queues DEF IInv, GetEvents
        <3>2. fetching = "created"
            BY <3>1, HasTail DEF OneFetch
        <3> QED BY <2>1, <3>2
    <2> QED BY <2>2, <2>3, <2>4, <2>5, <2>6, <2>7, StepKinds DEF Threads
<1>3. CASE c \in sockets /\ Closing(c)
    <2>1. ASSUME Asks, ignored \subseteq ignored'
          PROVE  Closing(c)'
        <3>1. PICK r \in Request : requests' = Append(requests, r)
            BY <2>1 DEF Asks
        <3> QED BY <1>3, <2>1, <3>1, ClosingAppend DEF IInv
    <2>2. ASSUME requests' = requests, ignored \subseteq ignored'
          PROVE  Closing(c)'
        BY <1>3, <2>2 DEF Closing, AskClose, AskEvents
    <2>3. CASE ProcessRequest
        <3>1. requests # <<>> /\ requests' = Tail(requests) /\ ignored' = ignored
            BY <2>3 DEF ProcessRequest, GetEvents, SendRequestAuth, SendPlayers, DisconnectClient
        <3>2. CASE Head(requests) # AskClose(c)
            BY <1>3, <3>1, <3>2, ClosingTail DEF IInv
        <3>3. CASE Head(requests) = AskClose(c)
            <4>1. Head(requests).op = "disconnect_client" /\ Head(requests).cid = c
                BY <3>3 DEF AskClose
            <4>2. DisconnectClient
                BY <2>3, <4>1 DEF ProcessRequest, GetEvents, SendRequestAuth, SendPlayers
            <4> QED BY <1>3, <4>1, <4>2 DEF DisconnectClient, CloseClientSocket
        <3> QED BY <3>2, <3>3
    <2>4. CASE CreateGetEvents
        <3>1. requests' = Append(requests, AskEvents) /\ ignored' = ignored
            BY <2>4 DEF CreateGetEvents, AskEvents
        <3> QED BY <1>3, <3>1, Kinds, ClosingAppend DEF IInv
    <2>5. CASE EndBatch
        <3>1. requests' = requests /\ ~Has(requests, AskEvents)
            BY <2>5 DEF EndBatch, OneFetch
        <3>2. \A i \in 1..Len(requests), j \in Int : j \in 1..(i - 1) => j \in 1..Len(requests)
            BY Queues, LenProperties DEF IInv
        <3> QED BY <1>3, <3>1, <3>2 DEF Closing, Has, AskClose, AskEvents
    <2>6. CASE ProcessEvent /\ ~Accumulate
        BY <2>1, <2>2, <2>6, HandlingSteps, HandlingAsks
    <2>7. CASE QuietSteps
        BY <2>2, <2>7, QuietSteps0
    <2>8. ASSUME NEW t \in Threads, DisconnectKicked(t)
          PROVE  Closing(c)'
        BY <2>1, <2>8, DisconnectAsks DEF IInv, Asks
    <2> QED BY <2>3, <2>4, <2>5, <2>6, <2>7, <2>8, StepKinds DEF ProcessRequest
<1> QED BY <1>1, <1>2, <1>3 DEF Silent

\* A game event that GAME hands to MAIN is not of a client that is ignored or
\* has nothing in the batch.
LEMMA QueueingSilent ==
    ASSUME IInv, NEW c \in Cids, Silent(c), [Next]_vars
    PROVE  queueing'.cid # c
<1>1. NoClosure.cid # c
    BY SizeAssumption DEF NoClosure, NoCid, Cids
<1>2. CASE HandleGameEvent
    <2>1. /\ Head(fetched) = About("game_event", Head(fetched).cid) /\ Head(fetched).cid \notin ignored
          /\ Has(fetched, About("game_event", Head(fetched).cid))
        BY <1>2, HandledIs DEF HandleGameEvent, EventType
    <2>2. Head(fetched).cid # c
        BY <2>1 DEF Silent, Quiet, EventType
    <2> QED BY <1>2, <2>2 DEF HandleGameEvent
<1>3. CASE queueing' = queueing \/ queueing' = NoClosure
    BY <1>1, <1>3 DEF Silent
<1>4. CASE Ignore \/ HandleConnect \/ RefuseAuth \/ AcceptAuth \/ HandleDisconnect \/ HandleWrong
            \/ CreateGetEvents \/ EndBatch
    BY <1>3, <1>4 DEF Ignore, HandleConnect, RefuseAuth, AcceptAuth, HandleDisconnect, HandleWrong,
        CreateGetEvents, EndBatch, closureVars
<1>5. CASE GetEvents \/ SendRequestAuth \/ SendPlayers \/ DisconnectClient
    BY <1>3, <1>5 DEF GetEvents, SendRequestAuth, SendPlayers, DisconnectClient, closureVars
<1>6. CASE QuietSteps
    BY <1>3, <1>6, QuietSteps0
<1>7. ASSUME NEW t \in Threads, DisconnectKicked(t)
      PROVE  queueing'.cid # c
    BY <1>3, <1>7, DisconnectAsks DEF IInv
<1> QED BY <1>2, <1>4, <1>5, <1>6, <1>7, StepKinds DEF ProcessEvent

\* GAME kicks whom it has an event of: it is ignored from then on.
LEMMA KickSilences ==
    ASSUME IInv, OneFetch, [Next]_vars, NEW c \in Cids, kicking'["GAME"] = c, kicking["GAME"] # c
    PROVE  c \in Known /\ Silent(c)'
<1>1. c # NoCid /\ NoClosure.cid # c
    BY SizeAssumption DEF NoClosure, NoCid, Cids
<1>2. \A t \in Threads : ~DisconnectKicked(t)
    BY <1>1 DEF DisconnectKicked, IInv, TypeOK, Threads
<1>3. ~QuietSteps
    BY QuietSteps0
<1>4. kicking' # kicking
    OBVIOUS
<1>5. RefuseAuth \/ HandleWrong
    BY <1>2, <1>3, <1>4, StepKinds DEF GetEvents, SendRequestAuth, SendPlayers, DisconnectClient,
        CreateGetEvents, EndBatch, ProcessEvent, Ignore, HandleConnect, AcceptAuth,
        HandleDisconnect, HandleGameEvent
<1>6. Kick("GAME", Head(fetched).cid)
    BY <1>4, <1>5 DEF RefuseAuth, HandleWrong
<1>7. Head(fetched).cid \in Known
    BY <1>5, HandledIs DEF RefuseAuth, HandleWrong, EventType
<1>8. c = Head(fetched).cid /\ c \in ignored'
    BY <1>6 DEF Kick, IInv, TypeOK, Threads
<1>9. fetching' = "executed" /\ queueing' = NoClosure
    <2>1. fetched # <<>> /\ fetching' = fetching /\ queueing = NoClosure
        BY <1>5, HandlingSteps DEF ProcessEvent, Accumulate, RefuseAuth, HandleWrong, Handles, GameFree
    <2>2. queueing' = queueing
        BY <1>5 DEF RefuseAuth, HandleWrong, closureVars
    <2> QED BY <2>1, <2>2 DEF OneFetch
<1> QED BY <1>1, <1>7, <1>8, <1>9 DEF Silent, BeingKicked

LEMMA SilenceStep == IInv /\ SilenceInv /\ [MCNext]_mcVars => SilenceInv'
<1> SUFFICES ASSUME IInv, SilenceInv, [MCNext]_mcVars
             PROVE  SilenceInv'
    OBVIOUS
<1>1. [Next]_vars
    BY DEF MCNext, mcVars
<1>2. OneFetch /\ ClosedAreQuiet /\ kicked \subseteq Known
    BY DEF SilenceInv
<1>3. OneFetch' /\ ClosedAreQuiet'
    BY <1>1, <1>2, OneFetchStep, QuietStep
<1>4. Known \subseteq Known' /\ Known \subseteq Cids
    BY <1>1, NotReopened, Queues DEF IInv
<1>5. ASSUME NEW c \in Known, Silent(c)
      PROVE  Silent(c)'
    <2>1. c \in Cids
        BY <1>4
    <2>2. c \in ignored' \/ Quiet(fetched', c)
        BY <1>1, <1>2, <1>5, <2>1, FetchedSilent
    <2>3. c \notin sockets' \/ BeingKicked(c)' \/ Closing(c)'
        BY <1>1, <1>2, <1>5, <2>1, ClosingSilent
    <2>4. queueing'.cid # c
        BY <1>1, <1>5, <2>1, QueueingSilent
    <2> QED BY <2>2, <2>3, <2>4 DEF Silent
<1>6. ASSUME NEW c \in kicked'
      PROVE  c \in Known' /\ Silent(c)'
    <2>1. CASE c \in kicked
        BY <1>2, <1>4, <1>5, <2>1 DEF SilenceInv
    <2>2. CASE c \notin kicked
        <3>1. kicking'["GAME"] = c /\ c # NoCid
            BY <1>6, <2>2 DEF MCNext, mcVars
        <3>2. c \in Cids
            <4>1. TypeOK'
                BY <1>1, InductiveInv DEF IInv
            <4> QED BY <3>1, <4>1 DEF TypeOK, Threads
        <3>3. CASE kicking["GAME"] # c
            BY <1>1, <1>2, <1>4, <3>1, <3>2, <3>3, KickSilences
        <3>4. CASE kicking["GAME"] = c
            BY <2>2, <3>1, <3>4 DEF SilenceInv, NoCid
        <3> QED BY <3>3, <3>4
    <2> QED BY <2>1, <2>2
<1>7. kicking'["GAME"] \in kicked' \cup {NoCid}
    <2>1. CASE UNCHANGED mcVars
        BY <2>1 DEF SilenceInv, mcVars, vars
    <2>2. CASE MCNext
        BY <2>2 DEF MCNext
    <2> QED BY <2>1, <2>2
<1> QED BY <1>3, <1>6, <1>7 DEF SilenceInv

LEMMA InitQueues == Init => OneFetch /\ ClosedAreQuiet
<1> SUFFICES ASSUME Init
             PROVE  OneFetch /\ ClosedAreQuiet
    OBVIOUS
<1>1. events_out = <<>> /\ fetched = <<>> /\ requests = <<>>
    BY DEF Init
<1>2. /\ \A x : ~Has(events_out, x) /\ ~Has(requests, x)
      /\ \A x : Once(requests, x)
    BY <1>1, HasNothing
<1> QED BY <1>1, <1>2 DEF OneFetch, ClosedAreQuiet, Quiet

LEMMA InitSilence == MCInit => SilenceInv
BY InitQueues DEF MCInit, SilenceInv, Init, Threads

\* What a silent client does not get.
LEMMA SilentStep ==
    ASSUME IInv, SilenceInv, [MCNext]_mcVars, NEW c \in kicked
    PROVE  /\ cid_slots'[c] # NoSlot => cid_slots[c] # NoSlot
           /\ queueing'.cid # c
<1>1. [Next]_vars
    BY DEF MCNext, mcVars
<1>2. c \in Cids /\ Silent(c)
    BY Queues DEF SilenceInv, IInv
<1>3. queueing'.cid # c
    BY <1>1, <1>2, QueueingSilent
<1>4. CASE UNCHANGED cid_slots
    BY <1>4, <1>3
<1>5. CASE AcceptAuth
    <2> DEFINE d == Head(fetched).cid
    <2>1. d \notin ignored /\ Has(fetched, About("auth", d)) /\ d \in Cids
        BY <1>5, HandledIs, AuthKinds DEF AcceptAuth
    <2>2. d # c
        BY <1>2, <2>1, AuthKinds DEF Silent, Quiet
    <2>3. cid_slots'[c] = cid_slots[c]
        BY <1>2, <1>5, <2>1, <2>2 DEF AcceptAuth, IInv, TypeOK
    <2> QED BY <1>3, <2>3
<1>6. CASE HandleDisconnect
    <2>1. cid_slots'[c] # NoSlot => cid_slots[c] # NoSlot
        BY <1>2, <1>6 DEF HandleDisconnect, sessionVars, IInv, TypeOK
    <2> QED BY <1>3, <2>1
<1>7. CASE ProcessRequest
    BY <1>4, <1>7 DEF ProcessRequest, GetEvents, SendRequestAuth, SendPlayers, DisconnectClient,
        sessionVars
<1>8. CASE CreateGetEvents \/ Ignore \/ HandleConnect \/ RefuseAuth \/ HandleWrong
            \/ HandleGameEvent \/ Accumulate \/ EndBatch
    BY <1>4, <1>8 DEF CreateGetEvents, Ignore, HandleConnect, RefuseAuth, HandleWrong,
        HandleGameEvent, Accumulate, EndBatch, sessionVars
<1>9. CASE ProcessAccumulations \/ (\E t \in Threads : DisconnectKicked(t)) \/ StartGame
            \/ UNCHANGED vars
    BY <1>4, <1>9 DEF ProcessAccumulations, RunClosure, EndAccumulations, DisconnectKicked,
        StartGame, vars, sessionVars
<1>10. CASE \E a \in Accounts : Accept(a)
    BY <1>4, <1>10 DEF Accept, sessionVars
<1>11. CASE \E d \in Cids :
            ReadAuth(d) \/ (\E t \in {"game_event", "wrong"} : ReadPacket(d, t)) \/ LosePeer(d)
    BY <1>4, <1>11 DEF ReadAuth, ReadPacket, LosePeer, sessionVars
<1> QED BY <1>1, <1>5, <1>6, <1>7, <1>8, <1>9, <1>10, <1>11 DEF Next, ProcessEvent

\* Whom GAME kicked is ignored while something of it is fetched, and the kick is
\* still under way, or the request to close its connection is ahead of the next
\* fetch, or the client is ignored in the batch of that fetch too
\* (Connection.cpp:190), though MAIN kicks others between any two steps.
THEOREM KicksTakeEffect == MCSpec => []SilenceInv
<1>1. MCInit => IInv
    BY InitialInv DEF MCInit
<1>2. IInv /\ [MCNext]_mcVars => IInv'
    BY InductiveInv DEF MCNext, mcVars
<1> QED BY <1>1, <1>2, InitSilence, SilenceStep, PTL DEF MCSpec

\* Nothing that such a client sent gets it a slot or is handed to MAIN any more.
THEOREM KickedStaySilent == MCSpec => KickedIsSilent
<1>1. MCInit => IInv
    BY InitialInv DEF MCInit
<1>2. IInv /\ [MCNext]_mcVars => IInv'
    BY InductiveInv DEF MCNext, mcVars
<1>3. IInv /\ SilenceInv /\ [MCNext]_mcVars
        => [\A c \in kicked :
            /\ cid_slots'[c] # NoSlot => cid_slots[c] # NoSlot
            /\ queueing'.cid # c]_mcVars
    BY SilentStep
<1> QED BY <1>1, <1>2, <1>3, KicksTakeEffect, PTL DEF MCSpec, KickedIsSilent
=============================================================================
