----------------------- MODULE TurnReplicationProofs -----------------------
(***************************************************************************)
(* Proofs about TurnReplication, for any set of clients, any number of     *)
(* clicks and either thread mode: the types, the order of the host's       *)
(* queue, the refinement of TurnGame, that nothing on the way to a client  *)
(* is ahead of the host, and the round trip of a client's event (queued by *)
(* a click, handled, sent, queued and handled by the host, answered, and   *)
(* the answer handled).                                                    *)
(***************************************************************************)
EXTENDS TurnReplication, TLAPS

-----------------------------------------------------------------------------
(* Queues *)

\* A queue that a thread shortens from the front keeps the type of its elements.
LEMMA QueueFacts ==
    ASSUME NEW S, NEW q \in Seq(S), q # <<>>
    PROVE  /\ Head(q) \in S
           /\ Head(q) = q[1]
           /\ Tail(q) \in Seq(S)
           /\ Len(Tail(q)) = Len(q) - 1
           /\ \A i \in 1..Len(Tail(q)) : Tail(q)[i] = q[i + 1]
  OBVIOUS

\* A queue that a thread appends to keeps the type of its elements.
LEMMA AppendFacts ==
    ASSUME NEW S, NEW q \in Seq(S), NEW e \in S
    PROVE  /\ Append(q, e) \in Seq(S)
           /\ Len(Append(q, e)) = Len(q) + 1
           /\ \A i \in 1..Len(q) : Append(q, e)[i] = q[i]
           /\ Append(q, e)[Len(q) + 1] = e
  OBVIOUS

\* Counters such as m_next_event_id stay natural numbers.
LEMMA IncrementType ==
    ASSUME NEW S, NEW f \in [S -> Nat], NEW x \in S
    PROVE  [f EXCEPT ![x] = @ + 1] \in [S -> Nat]
  <1>1. f[x] + 1 \in Nat
    OBVIOUS
  <1> QED
    BY <1>1

\* What MAIN appends does not cut into the range being flushed.
LEMMA LongerStillBounds ==
    ASSUME TypeOK, outgoing' \in [Nodes -> Seq(Event)],
           \A n \in Nodes : Len(outgoing'[n]) >= Len(outgoing[n]),
           UNCHANGED <<flush_end, flushed>>
    PROVE  \A n \in Nodes : flushed'[n] <= flush_end'[n] /\ flush_end'[n] <= Len(outgoing'[n])
  <1> TAKE n \in Nodes
  <1>1. /\ flush_end[n] \in Nat /\ Len(outgoing[n]) \in Nat /\ Len(outgoing'[n]) \in Nat
        /\ flushed[n] <= flush_end[n] /\ flush_end[n] <= Len(outgoing[n])
    BY DEF TypeOK
  <1> QED
    BY <1>1

\* One more event in the vector of one node.
LEMMA OutgoingType ==
    ASSUME TypeOK, NEW n \in Nodes, NEW ev \in Event,
           outgoing' = [outgoing EXCEPT ![n] = Append(@, ev)]
    PROVE  /\ outgoing' \in [Nodes -> Seq(Event)]
           /\ \A m \in Nodes : Len(outgoing'[m]) >= Len(outgoing[m])
  <1>1. Append(outgoing[n], ev) \in Seq(Event)
    BY AppendFacts DEF TypeOK
  <1>2. Len(Append(outgoing[n], ev)) = Len(outgoing[n]) + 1
    BY AppendFacts DEF TypeOK
  <1>3. outgoing' \in [Nodes -> Seq(Event)]
    BY <1>1 DEF TypeOK
  <1>4. ASSUME NEW m \in Nodes
        PROVE  Len(outgoing'[m]) >= Len(outgoing[m])
    <2>1. Len(outgoing[m]) \in Nat
      BY DEF TypeOK
    <2> QED
      BY <1>2, <2>1 DEF TypeOK
  <1> QED
    BY <1>3, <1>4

-----------------------------------------------------------------------------
(* Types *)

\* What a node makes of a click or of a completed turn is an event.
LEMMA NewEventIsEvent ==
    ASSUME TypeOK, NEW n \in Nodes, NEW name \in EventName, NEW t \in Nat
    PROVE  NewEvent(n, name, t) \in Event
  BY DEF TypeOK, NewEvent, Event, EventId, Source

\* The turn and the completions an event leads to are of their types.
LEMMA ReplicaType ==
    ASSUME TypeOK, NEW n \in Nodes, NEW ev \in Event
    PROVE  /\ TurnAfter(n, ev) \in Nat
           /\ DoneAfter(n, ev) \in SUBSET Nodes
           /\ DoneRolledBack(n, ev) \in SUBSET Nodes
  BY DEF TypeOK, TurnAfter, DoneAfter, DoneRolledBack, Event, EventName

\* Both effects of an accepted event keep the replicas' types.
LEMMA ApplyType ==
    ASSUME TypeOK, NEW n \in Nodes, NEW ev \in Event, Apply(n, ev)
    PROVE  turn' \in [Nodes -> Nat] /\ done' \in [Nodes -> SUBSET Nodes]
  <1>1. turn' \in [Nodes -> Nat]
    BY ReplicaType DEF TypeOK, Apply
  <1>2. done' \in [Nodes -> SUBSET Nodes]
    BY ReplicaType DEF TypeOK, Apply
  <1> QED
    BY <1>1, <1>2

\* The host's answer only ever adds a response to the caller's channel.
LEMMA AnswerType ==
    ASSUME TypeOK, NEW ev \in Event, NEW accepted \in BOOLEAN, Answer(ev, accepted)
    PROVE  to_client' \in [Clients -> Seq(ServerPacket)]
  <1> DEFINE r == [type |-> "response", id |-> ev.id, accepted |-> accepted]
  <1>1. ev.caller # Host => ev.caller \in Clients
    BY DEF Event, Nodes
  <1>2. r \in ServerPacket
    BY DEF ServerPacket, Response, Event
  <1>3. ASSUME NEW c \in Clients
        PROVE  Append(to_client[c], r) \in Seq(ServerPacket)
    BY <1>2, AppendFacts DEF TypeOK
  <1> QED
    BY <1>1, <1>3 DEF TypeOK, Answer

\* The advance_turn raised for a completed turn is an event of the host's queue.
LEMMA RaiseAdvanceType ==
    ASSUME TypeOK, NEW ev \in Event, RaiseAdvance(ev)
    PROVE  pending' \in [Nodes -> Seq(Event)] /\ next_event_id' \in [Nodes -> Nat]
  <1> DEFINE adv == NewEvent(Host, "advance_turn", turn[Host] + 1)
  <1>0. Host \in Nodes /\ turn[Host] + 1 \in Nat /\ "advance_turn" \in EventName
    BY DEF EventName, TypeOK, Nodes
  <1>1. adv \in Event
    BY <1>0, NewEventIsEvent
  <1>2. Append(pending[Host], adv) \in Seq(Event)
    BY <1>1, AppendFacts DEF TypeOK, Nodes
  <1>3. pending' \in [Nodes -> Seq(Event)]
    BY <1>2 DEF TypeOK, RaiseAdvance
  <1>4. next_event_id' \in [Nodes -> Nat]
    BY IncrementType DEF TypeOK, RaiseAdvance, Nodes
  <1> QED
    BY <1>3, <1>4

\* Event::Deserialize makes an event of an event.
LEMMA DeserializedIsEvent ==
    ASSUME NEW ev \in Event, NEW source \in Source
    PROVE  Deserialized(ev, source) \in Event
  BY DEF Deserialized, Event

\* The running host and the clients about to join are of the right types.
LEMMA InitTypeOK == Init => TypeOK
  BY SlotAssumption DEF Init, TypeOK, Nodes

\* Every queue keeps holding the records it is for, and a flush never sends an
\* event beyond the range it started with, whatever MAIN appends meanwhile.
LEMMA StepTypeOK == TypeOK /\ [Next]_vars => TypeOK'
<1> SUFFICES ASSUME TypeOK, [Next]_vars
             PROVE  TypeOK'
  OBVIOUS
<1> USE SlotAssumption DEF Nodes, replicaVars, queueVars, flushVars, joinVars, netVars
<1>1. ASSUME NEW n \in Nodes, NEW name \in {"complete_turn", "uncomplete_turn"}, Click(n, name)
      PROVE  TypeOK'
  <2>1. NewEvent(n, name, 0) \in Event
    BY NewEventIsEvent DEF EventName
  <2>2. Append(pending[n], NewEvent(n, name, 0)) \in Seq(Event)
    BY <2>1, AppendFacts DEF TypeOK
  <2>3. /\ pending' = [pending EXCEPT ![n] = Append(@, NewEvent(n, name, 0))]
        /\ next_event_id' = [next_event_id EXCEPT ![n] = @ + 1]
        /\ UNCHANGED <<replicaVars, batch, stage, waiting, responses, flushVars, joinVars, netVars>>
    BY <1>1 DEF Click
  <2>4. pending' \in [Nodes -> Seq(Event)]
    BY <2>2, <2>3 DEF TypeOK
  <2>5. next_event_id' \in [Nodes -> Nat]
    BY <2>3, IncrementType DEF TypeOK
  <2> QED
    BY <2>3, <2>4, <2>5 DEF TypeOK
<1>2. ASSUME NEW n \in Nodes, StartBatch(n)
      PROVE  TypeOK'
  <2>1. <<>> \in Seq(Event)
    OBVIOUS
  <2>2. /\ batch' = [batch EXCEPT ![n] = pending[n]]
        /\ pending' = [pending EXCEPT ![n] = <<>>]
        /\ UNCHANGED <<replicaVars, next_event_id, stage, waiting, responses, flushVars,
                       joinVars, netVars>>
        /\ n = Host => batch[Host] = <<>>
    BY <1>2 DEF StartBatch, MainIdle
  <2>3. stage' # "idle" => batch'[Host] # <<>>
    BY <2>2 DEF TypeOK
  <2> QED
    BY <2>1, <2>2, <2>3 DEF TypeOK
<1>3. ASSUME NEW n \in Nodes, SendPending(n)
      PROVE  TypeOK'
  <2> DEFINE end == IF flush_end[n] = 0 THEN Len(outgoing[n]) ELSE flush_end[n]
             ev  == outgoing[n][flushed[n] + 1]
  <2>1. /\ flushed[n] < end
        /\ flush_end' = [flush_end EXCEPT ![n] = end]
        /\ flushed' = [flushed EXCEPT ![n] = @ + 1]
        /\ UNCHANGED <<replicaVars, queueVars, outgoing, joinVars>>
    BY <1>3 DEF SendPending
  <2>2. end \in Nat /\ end <= Len(outgoing[n])
    BY SMTT(20) DEF TypeOK
  <2>3. ev \in Event
    <3>1. flushed[n] \in Nat /\ outgoing[n] \in Seq(Event)
      BY DEF TypeOK
    <3>2. flushed[n] + 1 \in 1..Len(outgoing[n])
      BY <2>1, <2>2, <3>1
    <3> QED
      BY <3>1, <3>2
  <2>4. flush_end' \in [Nodes -> Nat] /\ flushed' \in [Nodes -> Nat]
    BY <2>1, <2>2, IncrementType DEF TypeOK
  <2>5. \A m \in Nodes : flushed'[m] <= flush_end'[m] /\ flush_end'[m] <= Len(outgoing'[m])
    BY SMTT(20), <2>1, <2>2 DEF TypeOK
  <2>6. to_client' \in [Clients -> Seq(ServerPacket)]
    <3>1. [type |-> "event", event |-> ev] \in ServerPacket
      BY <2>3 DEF ServerPacket
    <3>2. ASSUME NEW c \in Clients
          PROVE  Append(to_client[c], [type |-> "event", event |-> ev]) \in Seq(ServerPacket)
      BY <3>1, AppendFacts DEF TypeOK
    <3>3. \/ to_client' = to_client
          \/ to_client' = [c \in Clients |->
                IF IsSentTo(c, ev) THEN Append(to_client[c], [type |-> "event", event |-> ev])
                ELSE to_client[c]]
      BY <1>3 DEF SendPending
    <3>4. to_client \in [Clients -> Seq(ServerPacket)]
      BY DEF TypeOK
    <3> QED
      BY <3>2, <3>3, <3>4
  <2>7. to_host' \in [Clients -> Seq(ClientPacket)]
    <3>1. [type |-> "event", event |-> ev] \in ClientPacket
      BY <2>3 DEF ClientPacket
    <3>2. ASSUME NEW c \in Clients
          PROVE  Append(to_host[c], [type |-> "event", event |-> ev]) \in Seq(ClientPacket)
      BY <3>1, AppendFacts DEF TypeOK
    <3>3. \/ to_host' = to_host
          \/ /\ n \in Clients
             /\ to_host' = [to_host EXCEPT ![n] = Append(@, [type |-> "event", event |-> ev])]
      BY <1>3 DEF SendPending
    <3>4. to_host \in [Clients -> Seq(ClientPacket)]
      BY DEF TypeOK
    <3> QED
      BY <3>2, <3>3, <3>4
  <2> QED
    BY <2>1, <2>4, <2>5, <2>6, <2>7 DEF TypeOK
<1>4. ASSUME NEW n \in Nodes, ClearPending(n)
      PROVE  TypeOK'
  BY <1>4 DEF TypeOK, ClearPending
<1>5. CASE HostAnswer \/ HostBroadcast \/ HostApply
  <2> DEFINE ev == Head(batch[Host])
  <2>1. batch[Host] # <<>> /\ ev \in Event /\ Tail(batch[Host]) \in Seq(Event)
    BY <1>5, QueueFacts DEF TypeOK, HostAnswer, HostBroadcast, HostApply, MainInBatch
  <2>2. CASE HostAnswer
    <3>1. to_client' \in [Clients -> Seq(ServerPacket)]
      BY <2>1, <2>2, AnswerType DEF HostAnswer
    <3> QED
      BY <2>1, <2>2, <3>1 DEF TypeOK, HostAnswer
  <2>3. CASE HostBroadcast
    <3>1. /\ outgoing' \in [Nodes -> Seq(Event)]
          /\ \A n \in Nodes : Len(outgoing'[n]) >= Len(outgoing[n])
      BY <2>1, <2>3, OutgoingType DEF HostBroadcast, Broadcast
    <3>2. /\ UNCHANGED <<replicaVars, next_event_id, pending, batch, waiting, responses,
                         flush_end, flushed, joinVars, netVars>>
          /\ stage' = "queued"
      BY <2>3 DEF HostBroadcast
    <3>3. \A n \in Nodes : flushed'[n] <= flush_end'[n] /\ flush_end'[n] <= Len(outgoing'[n])
      BY <3>1, <3>2, LongerStillBounds
    <3> QED
      BY <2>1, <3>1, <3>2, <3>3 DEF TypeOK
  <2>4. CASE HostApply
    <3>1. pending' \in [Nodes -> Seq(Event)] /\ next_event_id' \in [Nodes -> Nat]
      BY <2>1, <2>4, RaiseAdvanceType DEF HostApply
    <3>2. turn' \in [Nodes -> Nat] /\ done' \in [Nodes -> SUBSET Nodes]
      BY <2>1, <2>4, ApplyType DEF HostApply
    <3>3. batch' \in [Nodes -> Seq(Event)] /\ stage' = "idle"
      BY <2>1, <2>4 DEF TypeOK, HostApply
    <3>4. UNCHANGED <<waiting, responses, flushVars, joinVars, netVars>>
      BY <2>4 DEF HostApply
    <3> QED
      BY <3>1, <3>2, <3>3, <3>4 DEF TypeOK
  <2> QED
    BY <1>5, <2>2, <2>3, <2>4
<1>6. CASE HostReject
  <2> DEFINE ev == Head(batch[Host])
  <2>1. ev \in Event /\ Tail(batch[Host]) \in Seq(Event)
    BY <1>6, QueueFacts DEF TypeOK, HostReject, MainInBatch
  <2>2. to_client' \in [Clients -> Seq(ServerPacket)]
    BY <1>6, <2>1, AnswerType DEF HostReject
  <2> QED
    BY <1>6, <2>1, <2>2 DEF TypeOK, HostReject
<1>7. ASSUME NEW c \in Clients, RequestDownload(c)
      PROVE  TypeOK'
  <2>1. Append(to_host[c], [type |-> "download"]) \in Seq(ClientPacket)
    BY AppendFacts DEF TypeOK, ClientPacket
  <2> QED
    BY <1>7, <2>1 DEF TypeOK, RequestDownload
<1>8. ASSUME NEW c \in Clients, ClientApply(c)
      PROVE  TypeOK'
  <2> DEFINE ev == Head(batch[c])
  <2>1. ev \in Event /\ Tail(batch[c]) \in Seq(Event)
    BY <1>8, QueueFacts DEF TypeOK, ClientApply, MainInBatch
  <2>2. turn' \in [Nodes -> Nat] /\ done' \in [Nodes -> SUBSET Nodes]
    BY <1>8, <2>1, ApplyType DEF ClientApply
  <2>3. waiting' \in [Clients -> SUBSET Event]
    <3>1. waiting' = waiting \/ waiting' = [waiting EXCEPT ![c] = @ \cup {ev}]
      BY <1>8 DEF ClientApply, StoreAndSend
    <3>2. waiting \in [Clients -> SUBSET Event] /\ waiting[c] \cup {ev} \in SUBSET Event
      BY <2>1 DEF TypeOK
    <3> QED
      BY <3>1, <3>2
  <2>4. /\ outgoing' \in [Nodes -> Seq(Event)]
        /\ \A n \in Nodes : Len(outgoing'[n]) >= Len(outgoing[n])
    <3>1. CASE outgoing' = outgoing
      BY <3>1 DEF TypeOK
    <3>2. CASE outgoing' = [outgoing EXCEPT ![c] = Append(@, ev)]
      BY <2>1, <3>2, OutgoingType
    <3> QED
      BY <1>8, <3>1, <3>2 DEF ClientApply, StoreAndSend
  <2>5. batch' \in [Nodes -> Seq(Event)]
    BY <1>8, <2>1 DEF TypeOK, ClientApply
  <2>6. /\ UNCHANGED <<next_event_id, pending, stage, responses, flush_end, flushed,
                       client_state, initialized, to_host, to_client>>
        /\ batch'[Host] = batch[Host]
    BY <1>8 DEF ClientApply, TypeOK
  <2>7. \A n \in Nodes : flushed'[n] <= flush_end'[n] /\ flush_end'[n] <= Len(outgoing'[n])
    BY <2>4, <2>6, LongerStillBounds
  <2> QED
    BY <2>2, <2>3, <2>4, <2>5, <2>6, <2>7 DEF TypeOK
<1>9. ASSUME NEW c \in Clients, ClientRefuse(c)
      PROVE  TypeOK'
  <2>1. Tail(batch[c]) \in Seq(Event)
    BY <1>9, QueueFacts DEF TypeOK, ClientRefuse, MainInBatch
  <2> QED
    BY <1>9, <2>1 DEF TypeOK, ClientRefuse
<1>10. ASSUME NEW c \in Clients, HandleResponse(c)
       PROVE  TypeOK'
  <2>1. PICK ev \in waiting[c] :
            /\ turn' = [turn EXCEPT ![c] =
                    IF Head(responses[c]).accepted /\ ~WasApplied(ev) THEN TurnAfter(c, ev) ELSE @]
            /\ done' = [done EXCEPT ![c] =
                    IF Head(responses[c]).accepted
                    THEN IF WasApplied(ev) THEN @ ELSE DoneAfter(c, ev)
                    ELSE IF WasApplied(ev) THEN DoneRolledBack(c, ev) ELSE @]
            /\ waiting' = [waiting EXCEPT ![c] = @ \ {ev}]
    BY <1>10 DEF HandleResponse
  <2>2. ev \in Event
    BY DEF TypeOK
  <2>3. turn' \in [Nodes -> Nat]
    BY <2>1, <2>2, ReplicaType DEF TypeOK
  <2>4. done' \in [Nodes -> SUBSET Nodes]
    BY <2>1, <2>2, ReplicaType DEF TypeOK
  <2>5. waiting' \in [Clients -> SUBSET Event]
    BY <2>1 DEF TypeOK
  <2>6. Tail(responses[c]) \in Seq(Response)
    BY <1>10, QueueFacts DEF TypeOK, HandleResponse
  <2>7. responses' \in [Clients -> Seq(Response)]
    BY <1>10, <2>6 DEF TypeOK, HandleResponse
  <2> QED
    BY <1>10, <2>3, <2>4, <2>5, <2>7 DEF TypeOK, HandleResponse
<1>11. ASSUME NEW c \in Clients, HostSendSnapshot(c)
       PROVE  TypeOK'
  <2>1. Append(to_client[c], Snapshot) \in Seq(ServerPacket)
    BY SMTT(20), AppendFacts DEF TypeOK, Snapshot, ServerPacket
  <2>2. Tail(to_host[c]) \in Seq(ClientPacket)
    BY <1>11, QueueFacts DEF TypeOK, HostSendSnapshot
  <2> QED
    BY <1>11, <2>1, <2>2 DEF TypeOK, HostSendSnapshot
<1>12. ASSUME NEW c \in Clients, HostReceiveFlags(c)
       PROVE  TypeOK'
  <2>1. Tail(to_host[c]) \in Seq(ClientPacket)
    BY <1>12, QueueFacts DEF TypeOK, HostReceiveFlags
  <2> QED
    BY <1>12, <2>1 DEF TypeOK, HostReceiveFlags
<1>13. ASSUME NEW c \in Clients, HostReceiveEvent(c)
       PROVE  TypeOK'
  <2> DEFINE p == Head(to_host[c])
  <2>1. p \in ClientPacket /\ Tail(to_host[c]) \in Seq(ClientPacket)
    BY <1>13, QueueFacts DEF TypeOK, HostReceiveEvent
  <2>2. p.event \in Event
    BY <1>13, <2>1 DEF HostReceiveEvent, ClientPacket
  <2>3. Deserialized(p.event, "CLIENT") \in Event
    BY <2>2, DeserializedIsEvent DEF Source
  <2>4. Append(pending[Host], Deserialized(p.event, "CLIENT")) \in Seq(Event)
    BY <2>3, AppendFacts DEF TypeOK
  <2>5. pending' \in [Nodes -> Seq(Event)]
    BY <1>13, <2>4 DEF TypeOK, HostReceiveEvent
  <2> QED
    BY <1>13, <2>1, <2>5 DEF TypeOK, HostReceiveEvent
<1>14. ASSUME NEW c \in Clients, ClientReceiveSnapshot(c)
       PROVE  TypeOK'
  <2> DEFINE p == Head(to_client[c])
  <2>1. p \in ServerPacket /\ Tail(to_client[c]) \in Seq(ServerPacket)
    BY <1>14, QueueFacts DEF TypeOK, ClientReceiveSnapshot
  <2>2. p.turn_id \in Nat
    BY <1>14, <2>1 DEF ClientReceiveSnapshot, ServerPacket, Response
  <2>3. Append(to_host[c], [type |-> "flags"]) \in Seq(ClientPacket)
    BY AppendFacts DEF TypeOK, ClientPacket
  <2>4. turn' \in [Nodes -> Nat] /\ done' \in [Nodes -> SUBSET Nodes]
    BY <1>14, <2>2 DEF TypeOK, ClientReceiveSnapshot
  <2> QED
    BY <1>14, <2>1, <2>3, <2>4 DEF TypeOK, ClientReceiveSnapshot
<1>15. ASSUME NEW c \in Clients, ClientReceiveEvent(c)
       PROVE  TypeOK'
  <2> DEFINE p == Head(to_client[c])
  <2>1. p \in ServerPacket /\ Tail(to_client[c]) \in Seq(ServerPacket)
    BY <1>15, QueueFacts DEF TypeOK, ClientReceiveEvent
  <2>2. p.event \in Event
    BY <1>15, <2>1 DEF ClientReceiveEvent, ServerPacket, Response
  <2>3. Deserialized(p.event, "SERVER") \in Event
    BY <2>2, DeserializedIsEvent DEF Source
  <2>4. Append(pending[c], Deserialized(p.event, "SERVER")) \in Seq(Event)
    BY <2>3, AppendFacts DEF TypeOK
  <2>5. pending' \in [Nodes -> Seq(Event)]
    BY <1>15, <2>4 DEF TypeOK, ClientReceiveEvent
  <2> QED
    BY <1>15, <2>1, <2>5 DEF TypeOK, ClientReceiveEvent
<1>16. ASSUME NEW c \in Clients, ClientReceiveResponse(c)
       PROVE  TypeOK'
  <2> DEFINE p == Head(to_client[c])
  <2>1. p \in ServerPacket /\ Tail(to_client[c]) \in Seq(ServerPacket)
    BY <1>16, QueueFacts DEF TypeOK, ClientReceiveResponse
  <2>2. p \in Response
    BY <1>16, <2>1 DEF ClientReceiveResponse, ServerPacket
  <2>3. Append(responses[c], p) \in Seq(Response)
    BY <2>2, AppendFacts DEF TypeOK
  <2> QED
    BY <1>16, <2>1, <2>3 DEF TypeOK, ClientReceiveResponse
<1>17. CASE UNCHANGED vars
  BY <1>17 DEF TypeOK, vars
<1> QED
  BY <1>1, <1>2, <1>3, <1>4, <1>5, <1>6, <1>7, <1>8, <1>9, <1>10, <1>11, <1>12,
     <1>13, <1>14, <1>15, <1>16, <1>17
  DEF Next, Flush, HostProcess, ClientProcess, HostReceive, ClientReceive

\* TypeOK for every number of players and clicks.
THEOREM TypeCorrect == Spec => []TypeOK
<1>1. Init => TypeOK
  BY InitTypeOK
<1>2. TypeOK /\ [Next]_vars => TypeOK'
  BY StepTypeOK
<1> QED
  BY <1>1, <1>2, PTL DEF Spec

-----------------------------------------------------------------------------
(* The host's queue *)

\* Handling the first event of a queue keeps the host's advance_turn events first.
LEMMA TailAdvancesFirst ==
    ASSUME NEW q \in Seq(Event), q # <<>>, AdvancesFirst(q)
    PROVE  AdvancesFirst(Tail(q))
  <1> SUFFICES ASSUME NEW i \in 1..Len(Tail(q)), NEW j \in 1..Len(Tail(q)),
                      i <= j, IsAdvance(Tail(q)[j])
               PROVE  IsAdvance(Tail(q)[i])
    BY DEF AdvancesFirst
  <1>1. /\ Len(Tail(q)) = Len(q) - 1
        /\ Tail(q)[i] = q[i + 1]
        /\ Tail(q)[j] = q[j + 1]
    BY QueueFacts
  <1>2. i + 1 \in 1..Len(q) /\ j + 1 \in 1..Len(q) /\ i + 1 <= j + 1
    BY <1>1
  <1> QED
    BY <1>1, <1>2 DEF AdvancesFirst

\* What is not an advance may queue up behind anything.
LEMMA AppendAdvancesFirst ==
    ASSUME NEW q \in Seq(Event), NEW e \in Event, AdvancesFirst(q),
           IsAdvance(e) => \A i \in 1..Len(q) : IsAdvance(q[i])
    PROVE  AdvancesFirst(Append(q, e))
  <1> DEFINE r == Append(q, e)
  <1> SUFFICES ASSUME NEW i \in 1..Len(r), NEW j \in 1..Len(r), i <= j, IsAdvance(r[j])
               PROVE  IsAdvance(r[i])
    BY DEF AdvancesFirst
  <1>1. Len(r) = Len(q) + 1 /\ r[Len(q) + 1] = e /\ \A k \in 1..Len(q) : r[k] = q[k]
    BY AppendFacts
  <1>2. CASE j \in 1..Len(q)
    <2>1. i \in 1..Len(q)
      BY <1>2
    <2> QED
      BY <1>1, <1>2, <2>1 DEF AdvancesFirst
  <1>3. CASE j = Len(q) + 1
    BY <1>1, <1>3
  <1> QED
    BY <1>1, <1>2, <1>3

\* An event that is not the host's advance_turn joins the host's queue.
LEMMA EnqueueKeepsHostQueueInv ==
    ASSUME TypeOK, HostQueueInv, NEW e \in Event, ~IsAdvance(e), batch[Host] = <<>>,
           pending'[Host] = Append(pending[Host], e),
           batch'[Host] = batch[Host], turn'[Host] = turn[Host], done'[Host] = done[Host],
           stage' = stage
    PROVE  HostQueueInv'
  <1>0. pending[Host] \in Seq(Event)
    BY DEF TypeOK, Nodes
  <1>1. AdvancesFirst(pending'[Host])
    BY <1>0, AppendAdvancesFirst DEF HostQueueInv
  <1>2. ASSUME NEW i \in 1..Len(pending'[Host]), IsAdvance(pending'[Host][i])
        PROVE  pending'[Host][i].turn_id = turn'[Host] + 1
    <2>1. i \in 1..Len(pending[Host]) /\ pending'[Host][i] = pending[Host][i]
      BY <1>0, <1>2, AppendFacts
    <2> QED
      BY <1>2, <2>1 DEF HostQueueInv
  <1>3. stage' = "idle"
    BY DEF TypeOK
  <1> QED
    BY <1>1, <1>2, <1>3 DEF HostQueueInv, AdvancesFirst, IsAdvance

\* The host starts with empty queues, on turn 1.
LEMMA InitHostQueueInv == Init => HostQueueInv
  BY DEF Init, HostQueueInv, AdvancesFirst, Nodes

\* The event at the head of the host's batch is applied: an advance_turn leads
\* to the turn it names, and makes those behind it stale.
LEMMA HostApplyKeepsHostQueueInv ==
    ASSUME TypeOK, HostQueueInv, HostApply
    PROVE  HostQueueInv'
  <1> DEFINE ev == batch[Host][1]
  <1>0. /\ batch[Host] \in Seq(Event) /\ pending[Host] \in Seq(Event)
        /\ batch[Host] # <<>>
        /\ ev \in Event /\ Head(batch[Host]) = ev
        /\ turn[Host] \in Nat
        /\ Host \in Nodes
    BY QueueFacts DEF TypeOK, HostApply, MainInBatch, Nodes
  <1>1. /\ Validate(Host, ev)
        /\ turn'[Host] = TurnAfter(Host, ev)
        /\ done'[Host] = DoneAfter(Host, ev)
        /\ RaiseAdvance(ev)
        /\ batch'[Host] = Tail(batch[Host])
        /\ stage' = "idle"
    BY <1>0 DEF HostApply, Apply, HostQueueInv, TypeOK
  <1>2. AdvancesFirst(batch'[Host])
    BY <1>0, <1>1, TailAdvancesFirst DEF HostQueueInv
  <1>3. ASSUME NEW i \in 1..Len(batch'[Host])
        PROVE  i + 1 \in 1..Len(batch[Host]) /\ batch'[Host][i] = batch[Host][i + 1]
    BY <1>0, <1>1, QueueFacts
  <1>4. 1 \in 1..Len(batch[Host])
    BY <1>0
  <1>5. CASE ev.name = "advance_turn"
    <2>1. ev.caller = Host /\ (ev.turn_id # 1 => Nodes \subseteq done[Host])
      BY <1>1, <1>5 DEF Validate
    <2>2. IsAdvance(ev)
      BY <1>5, <2>1 DEF IsAdvance
    <2>3. ev.turn_id >= 2 /\ (ev.turn_id = turn[Host] + 1 \/ done[Host] = {})
      BY <1>4, <2>2 DEF HostQueueInv
    <2>4. ev.turn_id = turn[Host] + 1 /\ done[Host] # {}
      <3>1. ev.turn_id # 1
        BY <2>3
      <3>2. Host \in done[Host]
        BY <1>0, <2>1, <3>1
      <3> QED
        BY <2>3, <3>2
    <2>5. turn'[Host] = turn[Host] + 1 /\ done'[Host] = {}
      BY <1>1, <1>5, <2>4 DEF TurnAfter, DoneAfter
    <2>6. pending'[Host] = <<>>
      <3>1. pending[Host] = <<>>
        BY <1>0, <2>2 DEF HostQueueInv
      <3>2. pending' = pending
        BY <1>0, <1>1, <1>5 DEF RaiseAdvance
      <3> QED
        BY <3>1, <3>2
    <2>7. ASSUME NEW i \in 1..Len(batch'[Host]), IsAdvance(batch'[Host][i])
          PROVE  batch'[Host][i].turn_id >= 2 /\ batch'[Host][i].turn_id = turn'[Host]
      BY <1>3, <2>4, <2>5, <2>7 DEF HostQueueInv
    <2>8. turn'[Host] >= 1
      BY <1>0, <2>5
    <2>9. \A i \in 1..Len(pending'[Host]) : FALSE
      BY <2>6
    <2> QED
      BY <1>1, <1>2, <2>6, <2>7, <2>5, <2>8, <2>9 DEF HostQueueInv, AdvancesFirst
  <1>6. CASE ev.name # "advance_turn"
    <2> DEFINE adv == NewEvent(Host, "advance_turn", turn[Host] + 1)
    <2>1. turn'[Host] = turn[Host]
      BY <1>1, <1>6 DEF TurnAfter
    <2>2. \A j \in 1..Len(batch[Host]) : ~IsAdvance(batch[Host][j])
      BY <1>4, <1>6 DEF HostQueueInv, AdvancesFirst, IsAdvance
    <2>3. \A i \in 1..Len(batch'[Host]) : ~IsAdvance(batch'[Host][i])
      BY <1>3, <2>2
    <2>4. \A i \in 1..Len(pending[Host]) :
             IsAdvance(pending[Host][i]) /\ pending[Host][i].turn_id = turn[Host] + 1
      BY <1>0 DEF HostQueueInv
    <2>5. adv \in Event /\ IsAdvance(adv) /\ adv.turn_id = turn[Host] + 1
      BY <1>0, NewEventIsEvent DEF NewEvent, IsAdvance, EventName
    <2>6. pending'[Host] = pending[Host] \/ pending'[Host] = Append(pending[Host], adv)
      BY <1>0, <1>1 DEF RaiseAdvance, TypeOK
    <2>7. \A i \in 1..Len(pending'[Host]) :
             IsAdvance(pending'[Host][i]) /\ pending'[Host][i].turn_id = turn'[Host] + 1
      <3>1. CASE pending'[Host] = pending[Host]
        BY <2>1, <2>4, <3>1
      <3>2. CASE pending'[Host] = Append(pending[Host], adv)
        BY <1>0, <2>1, <2>4, <2>5, <3>2, AppendFacts
      <3> QED
        BY <2>6, <3>1, <3>2
    <2>8. batch'[Host] # <<>> => 1 \in 1..Len(batch'[Host])
      BY <1>0, <1>1, QueueFacts
    <2> QED
      BY <1>1, <1>2, <2>1, <2>3, <2>7, <2>8 DEF HostQueueInv, AdvancesFirst
  <1> QED
    BY <1>5, <1>6

\* Every step of any thread keeps the order of the host's queue.
LEMMA StepHostQueueInv == TypeOK /\ HostQueueInv /\ [Next]_vars => HostQueueInv'
<1> SUFFICES ASSUME TypeOK, HostQueueInv, [Next]_vars
             PROVE  HostQueueInv'
  OBVIOUS
<1> USE SlotAssumption DEF Nodes, replicaVars, queueVars, flushVars, joinVars, netVars
<1> DEFINE HostUnchanged == /\ turn'[Host] = turn[Host] /\ done'[Host] = done[Host]
                            /\ pending'[Host] = pending[Host] /\ batch'[Host] = batch[Host]
<1>0. ASSUME HostUnchanged, stage' # "idle" => stage # "idle" \/ Validate(Host, batch[Host][1])
      PROVE  HostQueueInv'
  <2>1. stage' # "idle" => Validate(Host, batch[Host][1])
    BY <1>0 DEF HostQueueInv
  <2> QED
    BY <1>0, <2>1 DEF HostQueueInv, AdvancesFirst, Validate
<1>1. ASSUME NEW n \in Nodes, NEW name \in {"complete_turn", "uncomplete_turn"}, Click(n, name)
      PROVE  HostQueueInv'
  <2>1. CASE n = Host
    <3> DEFINE e == NewEvent(Host, name, 0)
    <3>1. e \in Event
      BY NewEventIsEvent DEF EventName
    <3>2. ~IsAdvance(e)
      BY DEF NewEvent, IsAdvance
    <3>3. /\ batch[Host] = <<>> /\ pending'[Host] = Append(pending[Host], e)
          /\ batch'[Host] = batch[Host] /\ turn'[Host] = turn[Host] /\ done'[Host] = done[Host]
          /\ stage' = stage
      BY <1>1, <2>1 DEF Click, MainIdle, TypeOK
    <3> QED
      BY <3>1, <3>2, <3>3, EnqueueKeepsHostQueueInv
  <2>2. CASE n # Host
    BY <1>0, <1>1, <2>2 DEF Click, TypeOK
  <2> QED
    BY <2>1, <2>2
<1>2. ASSUME NEW n \in Nodes, StartBatch(n)
      PROVE  HostQueueInv'
  <2>1. CASE n = Host
    <3>1. /\ batch'[Host] = pending[Host] /\ pending'[Host] = <<>>
          /\ turn'[Host] = turn[Host] /\ done'[Host] = done[Host]
          /\ turn[Host] \in Nat /\ stage' = "idle"
      BY <1>2, <2>1 DEF StartBatch, MainIdle, TypeOK
    <3> QED
      BY <3>1 DEF HostQueueInv, AdvancesFirst
  <2>2. CASE n # Host
    BY <1>0, <1>2, <2>2 DEF StartBatch, TypeOK
  <2> QED
    BY <2>1, <2>2
<1>3. ASSUME NEW n \in Nodes, Flush(n)
      PROVE  HostQueueInv'
  BY <1>0, <1>3 DEF Flush, SendPending, ClearPending
<1>4. CASE HostAnswer \/ HostBroadcast \/ HostApply
  <2>1. CASE HostAnswer \/ HostBroadcast
    <3>1. HostUnchanged
      BY <2>1 DEF HostAnswer, HostBroadcast
    <3>2. batch[Host] # <<>> /\ Head(batch[Host]) = batch[Host][1]
      BY <2>1, QueueFacts DEF HostAnswer, HostBroadcast, MainInBatch, TypeOK
    <3>3. stage # "idle" \/ Validate(Host, batch[Host][1])
      BY <2>1, <3>2 DEF HostAnswer, HostBroadcast
    <3> QED
      BY <1>0, <3>1, <3>3
  <2>2. CASE HostApply
    BY <2>2, HostApplyKeepsHostQueueInv
  <2> QED
    BY <1>4, <2>1, <2>2
<1>5. CASE HostReject
  <2>1. /\ batch[Host] \in Seq(Event) /\ batch[Host] # <<>>
        /\ batch'[Host] = Tail(batch[Host]) /\ pending'[Host] = pending[Host]
        /\ turn'[Host] = turn[Host] /\ done'[Host] = done[Host]
        /\ stage' = "idle"
    BY <1>5 DEF HostReject, MainInBatch, TypeOK
  <2>2. AdvancesFirst(batch'[Host])
    BY <2>1, TailAdvancesFirst DEF HostQueueInv
  <2>3. ASSUME NEW i \in 1..Len(batch'[Host])
        PROVE  i + 1 \in 1..Len(batch[Host]) /\ batch'[Host][i] = batch[Host][i + 1]
    BY <2>1, QueueFacts
  <2>5. ASSUME NEW i \in 1..Len(batch'[Host]), IsAdvance(batch'[Host][i])
        PROVE  /\ batch'[Host][i].turn_id >= 2
               /\ \/ batch'[Host][i].turn_id = turn'[Host] + 1
                  \/ batch'[Host][i].turn_id = turn'[Host] /\ done'[Host] = {}
    BY <2>1, <2>3, <2>5 DEF HostQueueInv
  <2>6. /\ turn'[Host] >= 1
        /\ AdvancesFirst(pending'[Host])
        /\ \A i \in 1..Len(pending'[Host]) :
              IsAdvance(pending'[Host][i]) => pending'[Host][i].turn_id = turn'[Host] + 1
        /\ \A i \in 1..Len(pending'[Host]) : IsAdvance(pending'[Host][i])
    BY <2>1 DEF HostQueueInv
  <2>4. ASSUME batch'[Host] # <<>>, IsAdvance(batch'[Host][1])
        PROVE  pending'[Host] = <<>>
    <3>1. 1 \in 1..Len(batch'[Host]) /\ 1 \in 1..Len(batch[Host])
      BY <2>1, <2>4, QueueFacts
    <3>2. IsAdvance(batch[Host][1])
      BY <2>3, <2>4, <3>1 DEF HostQueueInv, AdvancesFirst
    <3> QED
      BY <2>1, <3>2 DEF HostQueueInv
  <2> QED
    BY <2>1, <2>2, <2>4, <2>5, <2>6 DEF HostQueueInv, AdvancesFirst
<1>6. ASSUME NEW c \in Clients, RequestDownload(c) \/ HandleResponse(c)
      PROVE  HostQueueInv'
  BY <1>0, <1>6 DEF RequestDownload, HandleResponse, TypeOK
<1>7. ASSUME NEW c \in Clients, ClientProcess(c)
      PROVE  HostQueueInv'
  BY <1>0, <1>7 DEF ClientProcess, ClientApply, ClientRefuse, Apply, TypeOK
<1>8. ASSUME NEW c \in Clients, HostReceiveEvent(c)
      PROVE  HostQueueInv'
  <2> DEFINE e == Deserialized(Head(to_host[c]).event, "CLIENT")
  <2>1. Head(to_host[c]) \in ClientPacket
    BY <1>8, QueueFacts DEF TypeOK, HostReceiveEvent
  <2>2. e \in Event /\ e.caller = c
    BY <1>8, <2>1, DeserializedIsEvent DEF HostReceiveEvent, ClientPacket, Source
  <2>3. ~IsAdvance(e)
    BY <2>2 DEF IsAdvance
  <2>4. /\ batch[Host] = <<>> /\ pending'[Host] = Append(pending[Host], e)
        /\ batch'[Host] = batch[Host] /\ turn'[Host] = turn[Host] /\ done'[Host] = done[Host]
          /\ stage' = stage
    BY <1>8 DEF HostReceiveEvent, MainIdle, TypeOK
  <2> QED
    BY <2>2, <2>3, <2>4, EnqueueKeepsHostQueueInv
<1>9. ASSUME NEW c \in Clients, HostSendSnapshot(c) \/ HostReceiveFlags(c)
      PROVE  HostQueueInv'
  BY <1>0, <1>9 DEF HostSendSnapshot, HostReceiveFlags
<1>10. ASSUME NEW c \in Clients, ClientReceive(c)
       PROVE  HostQueueInv'
  BY <1>0, <1>10 DEF ClientReceive, ClientReceiveSnapshot, ClientReceiveEvent,
                     ClientReceiveResponse, TypeOK
<1>11. CASE UNCHANGED vars
  BY <1>0, <1>11 DEF vars
<1> QED
  BY <1>1, <1>2, <1>3, <1>4, <1>5, <1>6, <1>7, <1>8, <1>9, <1>10, <1>11
  DEF Next, HostProcess, HostReceive

\* The order of the host's queue, with no bound on what is queued.
THEOREM HostQueueOrdered == Spec => []HostQueueInv
<1>1. Init => HostQueueInv
  BY InitHostQueueInv
<1>2. TypeOK /\ HostQueueInv /\ [Next]_vars => HostQueueInv'
  BY StepHostQueueInv
<1> QED
  BY <1>1, <1>2, TypeCorrect, PTL DEF Spec

-----------------------------------------------------------------------------
(* The host implements TurnGame *)

\* An accepted advance_turn names the next turn, and everybody is done.
LEMMA AcceptedAdvance ==
    ASSUME TypeOK, HostQueueInv, batch[Host] # <<>>, Validate(Host, batch[Host][1]),
           batch[Host][1].name = "advance_turn"
    PROVE  done[Host] = Nodes /\ batch[Host][1].turn_id = turn[Host] + 1
  <1> DEFINE ev == batch[Host][1]
  <1>1. ev \in Event /\ 1 \in 1..Len(batch[Host]) /\ Host \in Nodes
    BY QueueFacts DEF TypeOK, Nodes
  <1>2. IsAdvance(ev) /\ (ev.turn_id # 1 => Nodes \subseteq done[Host])
    BY DEF Validate, IsAdvance
  <1>3. ev.turn_id >= 2 /\ (ev.turn_id = turn[Host] + 1 \/ done[Host] = {})
    BY <1>1, <1>2 DEF HostQueueInv
  <1>4. done[Host] = Nodes
    <2>1. ev.turn_id # 1
      BY <1>3
    <2> QED
      BY <1>1, <1>2, <2>1 DEF TypeOK
  <1> QED
    BY <1>1, <1>3, <1>4

\* What the host applies is the accepted event at the head of its batch.
LEMMA AppliedEvent ==
    ASSUME TypeOK, HostQueueInv, HostApply
    PROVE  /\ batch[Host] # <<>> /\ batch[Host][1] \in Event
           /\ Head(batch[Host]) = batch[Host][1]
           /\ Validate(Host, batch[Host][1])
           /\ turn'[Host] = TurnAfter(Host, batch[Host][1])
           /\ done'[Host] = DoneAfter(Host, batch[Host][1])
  <1>1. /\ batch[Host] # <<>> /\ batch[Host][1] \in Event
        /\ Head(batch[Host]) = batch[Host][1] /\ Host \in Nodes
    BY QueueFacts DEF TypeOK, HostApply, MainInBatch, Nodes
  <1> QED
    BY <1>1 DEF HostApply, Apply, HostQueueInv, TypeOK

\* What the host applies is a move of the turn game.
LEMMA HostApplyIsMove ==
    ASSUME TypeOK, HostQueueInv, HostApply
    PROVE  Game!Next
  <1> DEFINE ev == batch[Host][1]
  <1>1. /\ Validate(Host, ev)
        /\ turn'[Host] = TurnAfter(Host, ev)
        /\ done'[Host] = DoneAfter(Host, ev)
    BY AppliedEvent
  <1>2. ev.caller \in Nodes /\ ev.name \in EventName
    BY AppliedEvent DEF Event
  <1>3. CASE ev.name = "complete_turn"
    <2>1. Game!Complete(ev.caller)
      BY <1>1, <1>3 DEF Game!Complete, Validate, TurnAfter, DoneAfter
    <2> QED
      BY <1>2, <2>1 DEF Game!Next
  <1>4. CASE ev.name = "uncomplete_turn"
    <2>1. Game!Uncomplete(ev.caller)
      BY <1>1, <1>4 DEF Game!Uncomplete, Validate, TurnAfter, DoneAfter
    <2> QED
      BY <1>2, <2>1 DEF Game!Next
  <1>5. CASE ev.name = "advance_turn"
    <2>1. done[Host] = Nodes /\ ev.turn_id = turn[Host] + 1
      BY <1>5, AcceptedAdvance, AppliedEvent
    <2> QED
      BY <1>1, <1>5, <2>1 DEF Game!Next, Game!Advance, TurnAfter, DoneAfter
  <1> QED
    BY <1>2, <1>3, <1>4, <1>5 DEF EventName

\* Nothing else touches the host's turn: not the clients, not the network.
LEMMA OthersLeaveHost ==
    ASSUME TypeOK, [Next]_vars, ~HostApply
    PROVE  turn'[Host] = turn[Host] /\ done'[Host] = done[Host]
<1> USE SlotAssumption DEF Nodes, replicaVars
<1>1. ASSUME NEW n \in Nodes,
             \/ \E name \in {"complete_turn", "uncomplete_turn"} : Click(n, name)
             \/ StartBatch(n)
             \/ Flush(n)
      PROVE  UNCHANGED replicaVars
  BY <1>1 DEF Click, StartBatch, Flush, SendPending, ClearPending
<1>2. CASE HostAnswer \/ HostBroadcast \/ HostReject
  BY <1>2 DEF HostAnswer, HostBroadcast, HostReject
<1>3. ASSUME NEW c \in Clients, RequestDownload(c) \/ HostReceive(c)
      PROVE  UNCHANGED replicaVars
  BY <1>3 DEF RequestDownload, HostReceive, HostSendSnapshot, HostReceiveFlags, HostReceiveEvent
<1>4. ASSUME NEW c \in Clients, ClientProcess(c) \/ HandleResponse(c) \/ ClientReceive(c)
      PROVE  turn'[Host] = turn[Host] /\ done'[Host] = done[Host]
  BY <1>4 DEF ClientProcess, ClientApply, ClientRefuse, Apply, HandleResponse, ClientReceive,
              ClientReceiveSnapshot, ClientReceiveEvent, ClientReceiveResponse, TypeOK
<1> QED
  BY <1>1, <1>2, <1>3, <1>4 DEF Next, HostProcess, vars

\* Whatever the clients send and however it interleaves with the host's own
\* clicks, each turn is played once and ends when every player is done.
THEOREM HostImplementsTurnGame == Spec => HostPlaysTurnGame
<1>1. Init => Game!Init
  BY DEF Init, Game!Init, Nodes
<1>2. TypeOK /\ HostQueueInv /\ [Next]_vars => [Game!Next]_(Game!gameVars)
  BY HostApplyIsMove, OthersLeaveHost DEF Game!gameVars
<1> QED
  BY <1>1, <1>2, TypeCorrect, HostQueueOrdered, PTL DEF Spec, HostPlaysTurnGame, Game!Spec

-----------------------------------------------------------------------------
(* No client is ahead of the host *)

\* Only the host's own handling of its batch moves on what it is about to do.
LEMMA OthersLeaveStage ==
    ASSUME TypeOK, [Next]_vars, ~HostProcess
    PROVE  /\ stage' = stage
           /\ batch[Host] # <<>> => batch'[Host] = batch[Host]
<1> USE SlotAssumption DEF Nodes, queueVars
<1>1. ASSUME NEW n \in Nodes,
             \/ \E name \in {"complete_turn", "uncomplete_turn"} : Click(n, name)
             \/ Flush(n)
      PROVE  stage' = stage /\ batch' = batch
  BY <1>1 DEF Click, Flush, SendPending, ClearPending
<1>2. ASSUME NEW n \in Nodes, StartBatch(n)
      PROVE  stage' = stage /\ (batch[Host] # <<>> => batch'[Host] = batch[Host])
  BY <1>2 DEF StartBatch, MainIdle, TypeOK
<1>3. ASSUME NEW c \in Clients,
             RequestDownload(c) \/ HostReceive(c) \/ HandleResponse(c) \/ ClientReceive(c)
      PROVE  stage' = stage /\ batch' = batch
  BY <1>3 DEF RequestDownload, HostReceive, HostSendSnapshot, HostReceiveFlags, HostReceiveEvent,
              HandleResponse, ClientReceive, ClientReceiveSnapshot, ClientReceiveEvent,
              ClientReceiveResponse
<1>4. ASSUME NEW c \in Clients, ClientProcess(c)
      PROVE  stage' = stage /\ batch'[Host] = batch[Host]
  BY <1>4 DEF ClientProcess, ClientApply, ClientRefuse, TypeOK
<1> QED
  BY <1>1, <1>2, <1>3, <1>4 DEF Next, vars

\* The accepted event that the host is about to apply leads to its turn or the next.
LEMMA AcceptedTurn ==
    ASSUME TypeOK, HostQueueInv, batch[Host] # <<>>, Validate(Host, batch[Host][1])
    PROVE  /\ batch[Host][1] \in Event /\ Head(batch[Host]) = batch[Host][1]
           /\ TurnAfter(Host, batch[Host][1]) \in {turn[Host], turn[Host] + 1}
  <1>1. /\ batch[Host][1] \in Event /\ Head(batch[Host]) = batch[Host][1]
    BY QueueFacts DEF TypeOK, Nodes
  <1> QED
    BY <1>1, AcceptedAdvance DEF TurnAfter

\* The turn the host is about to start is its own or the next.
LEMMA ComingTurnFacts ==
    ASSUME TypeOK, HostQueueInv
    PROVE  turn[Host] \in Nat /\ ComingTurn \in {turn[Host], turn[Host] + 1}
  <1>1. turn[Host] \in Nat
    BY DEF TypeOK, Nodes
  <1>2. CASE stage = "queued"
    <2>1. batch[Host] # <<>> /\ Validate(Host, batch[Host][1])
      BY <1>2 DEF TypeOK, HostQueueInv
    <2> QED
      BY <1>1, <1>2, <2>1, AcceptedTurn DEF ComingTurn
  <1> QED
    BY <1>1, <1>2 DEF ComingTurn

\* The host's turn, and the one it is about to start, only grow.
LEMMA HostTurnGrows ==
    ASSUME TypeOK, HostQueueInv, [Next]_vars
    PROVE  /\ turn'[Host] \in Nat /\ turn'[Host] >= turn[Host]
           /\ ComingTurn' \in Nat /\ ComingTurn' >= ComingTurn
           /\ ComingTurn' >= turn'[Host]
  <1>0. turn[Host] \in Nat /\ ComingTurn \in {turn[Host], turn[Host] + 1}
    BY ComingTurnFacts
  <1>1. CASE HostBroadcast
    <2>1. /\ batch[Host] # <<>> /\ Head(batch[Host]) = batch[Host][1]
          /\ stage # "queued"
      BY <1>1, QueueFacts DEF HostBroadcast, MainInBatch, TypeOK, Nodes
    <2>2. Validate(Host, batch[Host][1])
      BY <1>1, <2>1 DEF HostBroadcast, HostQueueInv
    <2>3. turn' = turn /\ batch' = batch /\ stage' = "queued"
      BY <1>1 DEF HostBroadcast, replicaVars
    <2>4. ComingTurn = turn[Host]
      BY <2>1 DEF ComingTurn
    <2>5. ComingTurn' = TurnAfter(Host, batch[Host][1])
      BY <2>1, <2>3 DEF ComingTurn, TurnAfter
    <2> QED
      BY <1>0, <2>1, <2>2, <2>3, <2>4, <2>5, AcceptedTurn
  <1>2. CASE HostApply
    <2>1. /\ ComingTurn = turn'[Host] /\ ComingTurn' = turn'[Host]
      BY <1>2, AppliedEvent DEF HostApply, ComingTurn
    <2> QED
      BY <1>0, <2>1
  <1>3. CASE HostAnswer \/ HostReject
    <2>1. ComingTurn = turn[Host] /\ ComingTurn' = turn[Host] /\ turn' = turn
      BY <1>3 DEF HostAnswer, HostReject, ComingTurn, replicaVars
    <2> QED
      BY <1>0, <2>1
  <1>4. CASE ~HostProcess
    <2>1. turn'[Host] = turn[Host]
      BY <1>4, OthersLeaveHost DEF HostProcess
    <2>2. /\ stage' = stage
          /\ batch[Host] # <<>> => batch'[Host] = batch[Host]
      BY <1>4, OthersLeaveStage
    <2>3. stage = "queued" => batch[Host] # <<>>
      BY DEF TypeOK
    <2>4. ComingTurn' = ComingTurn
      BY <2>1, <2>2, <2>3 DEF ComingTurn, TurnAfter
    <2> QED
      BY <1>0, <2>1, <2>4
  <1> QED
    BY <1>1, <1>2, <1>3, <1>4 DEF HostProcess

\* What names no turn after t names none after a later turn u.
LEMMA UpToLater ==
    ASSUME NEW t \in Nat, NEW u \in Nat, t <= u
    PROVE  /\ \A ev \in Event : NamesUpTo(ev, t) => NamesUpTo(ev, u)
           /\ \A q \in Seq(Event) : QueueUpTo(q, t) => QueueUpTo(q, u)
           /\ \A q \in Seq(ServerPacket) : ChannelUpTo(q, t) => ChannelUpTo(q, u)
  <1>1. ASSUME NEW ev \in Event, NamesUpTo(ev, t)
        PROVE  NamesUpTo(ev, u)
    BY <1>1 DEF NamesUpTo, Event
  <1>2. ASSUME NEW p \in ServerPacket, PacketUpTo(p, t)
        PROVE  PacketUpTo(p, u)
    <2>1. CASE p.type = "event"
      <3>1. p.event \in Event
        BY <2>1 DEF ServerPacket, Response
      <3> QED
        BY <1>1, <1>2, <2>1, <3>1 DEF PacketUpTo
    <2>2. CASE p.type = "snapshot"
      <3>1. p.turn_id \in Nat
        BY <2>2 DEF ServerPacket, Response
      <3> QED
        BY <1>2, <2>2, <3>1 DEF PacketUpTo
    <2> QED
      BY <2>1, <2>2 DEF PacketUpTo
  <1>3. ASSUME NEW q \in Seq(Event), QueueUpTo(q, t)
        PROVE  QueueUpTo(q, u)
    BY <1>1, <1>3 DEF QueueUpTo
  <1>4. ASSUME NEW q \in Seq(ServerPacket), ChannelUpTo(q, t)
        PROVE  ChannelUpTo(q, u)
    BY <1>2, <1>4 DEF ChannelUpTo
  <1> QED
    BY <1>1, <1>3, <1>4

\* A packet that names no turn ahead joins a channel of such packets.
LEMMA AppendUpTo ==
    ASSUME NEW t \in Nat
    PROVE  /\ \A q \in Seq(Event), e \in Event :
                 QueueUpTo(q, t) /\ NamesUpTo(e, t) => QueueUpTo(Append(q, e), t)
           /\ \A q \in Seq(ServerPacket), p \in ServerPacket :
                 ChannelUpTo(q, t) /\ PacketUpTo(p, t) => ChannelUpTo(Append(q, p), t)
  <1>1. ASSUME NEW q \in Seq(Event), NEW e \in Event, QueueUpTo(q, t), NamesUpTo(e, t),
               NEW i \in 1..Len(Append(q, e))
        PROVE  NamesUpTo(Append(q, e)[i], t)
    <2>1. i \in 1..Len(q) \/ i = Len(q) + 1
      BY AppendFacts
    <2> QED
      BY <1>1, <2>1, AppendFacts DEF QueueUpTo
  <1>2. ASSUME NEW q \in Seq(ServerPacket), NEW p \in ServerPacket,
               ChannelUpTo(q, t), PacketUpTo(p, t), NEW i \in 1..Len(Append(q, p))
        PROVE  PacketUpTo(Append(q, p)[i], t)
    <2>1. i \in 1..Len(q) \/ i = Len(q) + 1
      BY AppendFacts
    <2> QED
      BY <1>2, <2>1, AppendFacts DEF ChannelUpTo
  <1> QED
    BY <1>1, <1>2 DEF QueueUpTo, ChannelUpTo

\* Receiving a packet leaves a channel that names no turn ahead.
LEMMA TailUpTo ==
    ASSUME NEW t \in Nat
    PROVE  /\ \A q \in Seq(Event) :
                 q # <<>> /\ QueueUpTo(q, t) => NamesUpTo(Head(q), t) /\ QueueUpTo(Tail(q), t)
           /\ \A q \in Seq(ServerPacket) :
                 q # <<>> /\ ChannelUpTo(q, t) => PacketUpTo(Head(q), t) /\ ChannelUpTo(Tail(q), t)
  <1>1. ASSUME NEW q \in Seq(Event), q # <<>>, QueueUpTo(q, t)
        PROVE  NamesUpTo(Head(q), t) /\ QueueUpTo(Tail(q), t)
    <2>1. 1 \in 1..Len(q) /\ \A i \in 1..Len(Tail(q)) : i + 1 \in 1..Len(q)
      BY <1>1, QueueFacts
    <2> QED
      BY <1>1, <2>1, QueueFacts DEF QueueUpTo
  <1>2. ASSUME NEW q \in Seq(ServerPacket), q # <<>>, ChannelUpTo(q, t)
        PROVE  PacketUpTo(Head(q), t) /\ ChannelUpTo(Tail(q), t)
    <2>1. 1 \in 1..Len(q) /\ \A i \in 1..Len(Tail(q)) : i + 1 \in 1..Len(q)
      BY <1>2, QueueFacts
    <2> QED
      BY <1>2, <2>1, QueueFacts DEF ChannelUpTo
  <1> QED
    BY <1>1, <1>2

\* At first nothing is on its way and the clients are on no turn.
LEMMA InitNothingAhead == Init => NothingAhead
  BY SlotAssumption
  DEF Init, NothingAhead, ClientNeverAhead, ComingTurn, QueueUpTo, ChannelUpTo, Nodes

\* A response names no turn, so an answer leaves the channels as they were.
LEMMA AnswerUpTo ==
    ASSUME TypeOK, NEW t \in Nat, NEW ev \in Event, NEW accepted \in BOOLEAN,
           Answer(ev, accepted), \A c \in Clients : ChannelUpTo(to_client[c], t)
    PROVE  \A c \in Clients : ChannelUpTo(to_client'[c], t)
  <1> DEFINE r == [type |-> "response", id |-> ev.id, accepted |-> accepted]
  <1> TAKE c \in Clients
  <1>1. r \in ServerPacket /\ PacketUpTo(r, t)
    BY DEF ServerPacket, Response, Event, PacketUpTo
  <1>2. to_client[c] \in Seq(ServerPacket)
    BY DEF TypeOK
  <1>3. to_client'[c] = to_client[c] \/ to_client'[c] = Append(to_client[c], r)
    BY DEF Answer, TypeOK
  <1> QED
    BY <1>1, <1>2, <1>3, AppendUpTo

\* No step makes anything name a turn that the host has not started and is not
\* about to.
LEMMA StepNothingAhead == TypeOK /\ HostQueueInv /\ NothingAhead /\ [Next]_vars => NothingAhead'
<1> SUFFICES ASSUME TypeOK, HostQueueInv, NothingAhead, [Next]_vars
             PROVE  NothingAhead'
  OBVIOUS
<1> USE SlotAssumption DEF Nodes, replicaVars, queueVars, flushVars, joinVars, netVars
<1> DEFINE T == IF SingleThread THEN turn'[Host] ELSE ComingTurn'
           B == ComingTurn'
           Turns == \A c \in Clients : turn'[c] <= T
           Outgoing == QueueUpTo(outgoing'[Host], B)
           Queues == \A c \in Clients : QueueUpTo(pending'[c], T) /\ QueueUpTo(batch'[c], T)
           Waiting == \A c \in Clients : \A ev \in waiting'[c] : NamesUpTo(ev, T)
           Channels == \A c \in Clients : ChannelUpTo(to_client'[c], T)
\* What was there before is not ahead of the turn the step leads to.
<1>1. /\ T \in Nat /\ B \in Nat /\ turn[Host] \in Nat /\ ComingTurn \in Nat
      /\ turn[Host] <= T /\ ComingTurn <= B
      /\ ~SingleThread => ComingTurn <= T
  BY HostTurnGrows, ComingTurnFacts
<1>2. /\ \A c \in Clients : turn[c] <= T
      /\ QueueUpTo(outgoing[Host], B)
      /\ \A c \in Clients : QueueUpTo(pending[c], T) /\ QueueUpTo(batch[c], T)
      /\ \A c \in Clients : \A ev \in waiting[c] : NamesUpTo(ev, T)
      /\ \A c \in Clients : ChannelUpTo(to_client[c], T)
  <2> DEFINE t == IF SingleThread THEN turn[Host] ELSE ComingTurn
  <2>0. t \in Nat /\ t <= T
    BY <1>1
  <2>1. \A c \in Clients : turn[c] <= T
    <3> TAKE c \in Clients
    <3>1. turn[c] \in Nat /\ turn[c] <= t
      BY DEF TypeOK, NothingAhead, ClientNeverAhead
    <3> QED
      BY <1>1, <2>0, <3>1
  <2>2. /\ outgoing[Host] \in Seq(Event)
        /\ \A c \in Clients : /\ pending[c] \in Seq(Event) /\ batch[c] \in Seq(Event)
                              /\ waiting[c] \in SUBSET Event
                              /\ to_client[c] \in Seq(ServerPacket)
    BY DEF TypeOK
  <2>3. /\ QueueUpTo(outgoing[Host], ComingTurn)
        /\ \A c \in Clients : /\ QueueUpTo(pending[c], t)
                              /\ QueueUpTo(batch[c], t)
                              /\ \A ev \in waiting[c] : NamesUpTo(ev, t)
                              /\ ChannelUpTo(to_client[c], t)
    BY DEF NothingAhead
  <2> HIDE DEF t, T, B
  <2>4. QueueUpTo(outgoing[Host], B)
    BY <1>1, <2>2, <2>3, UpToLater
  <2>5. \A c \in Clients : QueueUpTo(pending[c], T) /\ QueueUpTo(batch[c], T)
    BY <1>1, <2>0, <2>2, <2>3, UpToLater
  <2>6. \A c \in Clients : \A ev \in waiting[c] : NamesUpTo(ev, T)
    <3>1. \A ev \in Event : NamesUpTo(ev, t) => NamesUpTo(ev, T)
      BY <1>1, <2>0, UpToLater
    <3> QED
      BY <2>2, <2>3, <3>1
  <2>7. \A c \in Clients : ChannelUpTo(to_client[c], T)
    <3>1. \A q \in Seq(ServerPacket) : ChannelUpTo(q, t) => ChannelUpTo(q, T)
      BY <1>1, <2>0, UpToLater
    <3> QED
      BY <2>2, <2>3, <3>1
  <2> QED
    BY <2>1, <2>4, <2>5, <2>6, <2>7
<1>3. ASSUME Turns, Outgoing, Queues, Waiting, Channels
      PROVE  NothingAhead'
  BY <1>3 DEF NothingAhead, ClientNeverAhead
<1> HIDE DEF T, B
<1>4. ASSUME NEW n \in Nodes, NEW name \in {"complete_turn", "uncomplete_turn"}, Click(n, name)
      PROVE  NothingAhead'
  <2> DEFINE e == NewEvent(n, name, 0)
  <2>1. e \in Event /\ NamesUpTo(e, T)
    BY NewEventIsEvent DEF EventName, NewEvent, NamesUpTo
  <2>2. Queues
    <3> TAKE c \in Clients
    <3>1. pending[c] \in Seq(Event)
      BY DEF TypeOK
    <3>2. /\ pending'[c] = pending[c] \/ pending'[c] = Append(pending[c], e)
          /\ batch'[c] = batch[c]
      BY <1>4 DEF Click, TypeOK
    <3> QED
      BY <1>1, <1>2, <2>1, <3>1, <3>2, AppendUpTo
  <2> QED
    BY <1>2, <1>3, <1>4, <2>2 DEF Click
<1>5. ASSUME NEW n \in Nodes, StartBatch(n)
      PROVE  NothingAhead'
  <2>1. Queues
    <3> TAKE c \in Clients
    <3>1. \/ pending'[c] = pending[c] /\ batch'[c] = batch[c]
          \/ pending'[c] = <<>> /\ batch'[c] = pending[c]
      BY <1>5 DEF StartBatch, TypeOK
    <3>2. QueueUpTo(<<>>, T)
      BY DEF QueueUpTo
    <3> QED
      BY <1>2, <3>1, <3>2
  <2> QED
    BY <1>2, <1>3, <1>5, <2>1 DEF StartBatch
<1>6. ASSUME NEW n \in Nodes, SendPending(n)
      PROVE  NothingAhead'
  <2>1. Channels
    <3> TAKE c \in Clients
    <3> DEFINE ev == outgoing[n][flushed[n] + 1]
               p == [type |-> "event", event |-> ev]
    <3>1. \/ to_client'[c] = to_client[c]
          \/ n = Host /\ to_client'[c] = Append(to_client[c], p)
      BY <1>6 DEF SendPending, TypeOK
    <3>2. flushed[n] + 1 \in 1..Len(outgoing[n]) /\ outgoing[n] \in Seq(Event)
      <4>1. /\ flushed[n] \in Nat /\ flush_end[n] \in Nat /\ Len(outgoing[n]) \in Nat
            /\ flush_end[n] <= Len(outgoing[n]) /\ outgoing[n] \in Seq(Event)
        BY SMTT(20) DEF TypeOK
      <4>2. flushed[n] < (IF flush_end[n] = 0 THEN Len(outgoing[n]) ELSE flush_end[n])
        BY <1>6 DEF SendPending
      <4> QED
        BY <4>1, <4>2
    <3>3. ev \in Event
      BY <3>2
    <3>4. p \in ServerPacket
      BY <3>3 DEF ServerPacket
    <3>5. n = Host => PacketUpTo(p, T)
      <4>1. n = Host => NamesUpTo(ev, ComingTurn)
        BY <3>2 DEF NothingAhead, QueueUpTo
      <4>2. n = Host /\ SingleThread => ComingTurn = turn[Host]
        BY <1>6 DEF SendPending, GameThread, TypeOK, ComingTurn
      <4>3. n = Host => ComingTurn <= T
        BY <1>1, <4>2
      <4>4. n = Host => NamesUpTo(ev, T)
        BY <1>1, <3>3, <4>1, <4>3, UpToLater
      <4> QED
        BY <4>4 DEF PacketUpTo
    <3>6. to_client[c] \in Seq(ServerPacket)
      BY DEF TypeOK
    <3> QED
      BY <1>1, <1>2, <3>1, <3>4, <3>5, <3>6, AppendUpTo
  <2> QED
    BY <1>2, <1>3, <1>6, <2>1 DEF SendPending
<1>7. ASSUME NEW n \in Nodes, ClearPending(n)
      PROVE  NothingAhead'
  <2>1. Outgoing
    <3>1. outgoing'[Host] = outgoing[Host] \/ outgoing'[Host] = <<>>
      BY <1>7 DEF ClearPending, TypeOK
    <3>2. QueueUpTo(<<>>, B)
      BY DEF QueueUpTo
    <3> QED
      BY <1>2, <3>1, <3>2
  <2> QED
    BY <1>2, <1>3, <1>7, <2>1 DEF ClearPending
<1>8. CASE HostAnswer \/ HostBroadcast \/ HostApply
  <2> DEFINE ev == Head(batch[Host])
  <2>1. ev \in Event
    BY <1>8, QueueFacts DEF TypeOK, HostAnswer, HostBroadcast, HostApply, MainInBatch
  <2>2. CASE HostAnswer
    <3>1. Channels
      BY <1>1, <1>2, <2>1, <2>2, AnswerUpTo DEF HostAnswer
    <3> QED
      BY <1>2, <1>3, <2>2, <3>1 DEF HostAnswer
  <2>3. CASE HostBroadcast
    <3>1. NamesUpTo(ev, B)
      <4>1. B = TurnAfter(Host, ev)
        BY <2>3 DEF HostBroadcast, ComingTurn, TurnAfter, B
      <4>2. ev.name = "advance_turn" => B = ev.turn_id
        BY <4>1 DEF TurnAfter
      <4> QED
        BY <1>1, <4>2 DEF NamesUpTo
    <3>2. outgoing[Host] \in Seq(Event) /\ outgoing'[Host] = Append(outgoing[Host], ev)
      BY <2>3 DEF HostBroadcast, Broadcast, TypeOK
    <3>3. Outgoing
      BY <1>1, <1>2, <2>1, <3>1, <3>2, AppendUpTo
    <3> QED
      BY <1>2, <1>3, <2>3, <3>3 DEF HostBroadcast
  <2>4. CASE HostApply
    <3>1. /\ \A c \in Clients : turn'[c] = turn[c] /\ pending'[c] = pending[c] /\ batch'[c] = batch[c]
          /\ UNCHANGED <<waiting, outgoing, to_client>>
      BY <2>4 DEF HostApply, Apply, RaiseAdvance, TypeOK
    <3> QED
      BY <1>2, <1>3, <3>1
  <2> QED
    BY <1>8, <2>2, <2>3, <2>4
<1>9. CASE HostReject
  <2>1. Head(batch[Host]) \in Event
    BY <1>9, QueueFacts DEF TypeOK, HostReject, MainInBatch
  <2>2. Channels
    BY <1>1, <1>2, <1>9, <2>1, AnswerUpTo DEF HostReject
  <2>3. /\ \A c \in Clients : turn'[c] = turn[c] /\ pending'[c] = pending[c] /\ batch'[c] = batch[c]
        /\ waiting' = waiting /\ outgoing' = outgoing
    BY <1>9 DEF HostReject, TypeOK
  <2> QED
    BY <1>2, <1>3, <2>2, <2>3
<1>10. ASSUME NEW c \in Clients, ClientProcess(c)
       PROVE  NothingAhead'
  <2> DEFINE ev == Head(batch[c])
  <2>1. batch[c] \in Seq(Event) /\ batch[c] # <<>> /\ ev \in Event
    BY <1>10, QueueFacts DEF TypeOK, ClientProcess, ClientApply, ClientRefuse, MainInBatch
  <2>2. NamesUpTo(ev, T) /\ QueueUpTo(Tail(batch[c]), T)
    BY <1>1, <1>2, <2>1, TailUpTo
  <2>3. Queues
    <3>1. pending' = pending /\ batch' = [batch EXCEPT ![c] = Tail(@)]
      BY <1>10 DEF ClientProcess, ClientApply, ClientRefuse
    <3> QED
      BY <1>2, <2>2, <3>1 DEF TypeOK
  <2>4. Waiting
    <3>1. waiting' = waiting \/ waiting' = [waiting EXCEPT ![c] = @ \cup {ev}]
      BY <1>10 DEF ClientProcess, ClientApply, ClientRefuse, StoreAndSend
    <3>2. \A d \in Clients : waiting'[d] \subseteq waiting[d] \cup {ev}
      BY <3>1 DEF TypeOK
    <3> QED
      BY <1>2, <2>2, <3>2
  <2>5. Turns
    <3>1. turn' = turn \/ turn' = [turn EXCEPT ![c] = TurnAfter(c, ev)]
      BY <1>10 DEF ClientProcess, ClientApply, ClientRefuse, Apply
    <3>2. TurnAfter(c, ev) <= T
      BY <1>2, <2>2 DEF TurnAfter, NamesUpTo
    <3> QED
      BY <1>2, <3>1, <3>2 DEF TypeOK
  <2>6. outgoing'[Host] = outgoing[Host] /\ to_client' = to_client
    BY <1>10 DEF ClientProcess, ClientApply, ClientRefuse, StoreAndSend, TypeOK
  <2> QED
    BY <1>2, <1>3, <2>3, <2>4, <2>5, <2>6
<1>11. ASSUME NEW c \in Clients, HandleResponse(c)
       PROVE  NothingAhead'
  <2>1. PICK ev \in waiting[c] :
            /\ turn' = [turn EXCEPT ![c] =
                    IF Head(responses[c]).accepted /\ ~WasApplied(ev) THEN TurnAfter(c, ev) ELSE @]
            /\ waiting' = [waiting EXCEPT ![c] = @ \ {ev}]
    BY <1>11 DEF HandleResponse
  <2>2. TurnAfter(c, ev) <= T
    BY <1>2 DEF TurnAfter, NamesUpTo
  <2>3. Turns
    BY <1>2, <2>1, <2>2 DEF TypeOK
  <2>4. Waiting
    BY <1>2, <2>1 DEF TypeOK
  <2> QED
    BY <1>2, <1>3, <1>11, <2>3, <2>4 DEF HandleResponse
<1>12. ASSUME NEW c \in Clients, HostSendSnapshot(c)
       PROVE  NothingAhead'
  <2>1. Snapshot \in ServerPacket /\ PacketUpTo(Snapshot, T)
    BY <1>1 DEF Snapshot, ServerPacket, PacketUpTo
  <2>2. Channels
    <3> TAKE d \in Clients
    <3>1. to_client[d] \in Seq(ServerPacket)
      BY DEF TypeOK
    <3>2. to_client'[d] = to_client[d] \/ to_client'[d] = Append(to_client[d], Snapshot)
      BY <1>12 DEF HostSendSnapshot, TypeOK
    <3> QED
      BY <1>1, <1>2, <2>1, <3>1, <3>2, AppendUpTo
  <2> QED
    BY <1>2, <1>3, <1>12, <2>2 DEF HostSendSnapshot
<1>13. ASSUME NEW c \in Clients, RequestDownload(c) \/ HostReceiveFlags(c)
       PROVE  NothingAhead'
  BY <1>2, <1>3, <1>13 DEF RequestDownload, HostReceiveFlags
<1>14. ASSUME NEW c \in Clients, HostReceiveEvent(c)
       PROVE  NothingAhead'
  <2>1. \A d \in Clients : pending'[d] = pending[d]
    BY <1>14 DEF HostReceiveEvent, TypeOK
  <2> QED
    BY <1>2, <1>3, <1>14, <2>1 DEF HostReceiveEvent
<1>15. ASSUME NEW c \in Clients, ClientReceive(c)
       PROVE  NothingAhead'
  <2> DEFINE p == Head(to_client[c])
  <2>1. /\ to_client[c] \in Seq(ServerPacket) /\ to_client[c] # <<>> /\ p \in ServerPacket
        /\ to_client' = [to_client EXCEPT ![c] = Tail(@)]
    BY <1>15, QueueFacts DEF TypeOK, ClientReceive, ClientReceiveSnapshot, ClientReceiveEvent,
                             ClientReceiveResponse
  <2>2. PacketUpTo(p, T) /\ ChannelUpTo(Tail(to_client[c]), T)
    BY <1>1, <1>2, <2>1, TailUpTo
  <2>3. Channels
    BY <1>2, <2>1, <2>2 DEF TypeOK
  <2>4. CASE ClientReceiveSnapshot(c)
    <3>1. turn' = [turn EXCEPT ![c] = p.turn_id] /\ p.turn_id <= T
      BY <2>2, <2>4 DEF ClientReceiveSnapshot, PacketUpTo
    <3>2. Turns
      BY <1>2, <3>1 DEF TypeOK
    <3> QED
      BY <1>2, <1>3, <2>3, <2>4, <3>2 DEF ClientReceiveSnapshot
  <2>5. CASE ClientReceiveEvent(c)
    <3> DEFINE e == Deserialized(p.event, "SERVER")
    <3>1. p.event \in Event /\ NamesUpTo(p.event, T)
      BY <2>1, <2>2, <2>5 DEF ClientReceiveEvent, ServerPacket, Response, PacketUpTo
    <3>2. e \in Event
      BY <3>1, DeserializedIsEvent DEF Source
    <3>3. NamesUpTo(e, T)
      BY <3>1 DEF Deserialized, NamesUpTo, Event
    <3>4. Queues
      <4> TAKE d \in Clients
      <4>1. pending[d] \in Seq(Event)
        BY DEF TypeOK
      <4>2. /\ pending'[d] = pending[d] \/ pending'[d] = Append(pending[d], e)
            /\ batch'[d] = batch[d]
        BY <2>5 DEF ClientReceiveEvent, TypeOK
      <4> QED
        BY <1>1, <1>2, <3>2, <3>3, <4>1, <4>2, AppendUpTo
    <3> QED
      BY <1>2, <1>3, <2>3, <2>5, <3>4 DEF ClientReceiveEvent
  <2>6. CASE ClientReceiveResponse(c)
    BY <1>2, <1>3, <2>3, <2>6 DEF ClientReceiveResponse
  <2> QED
    BY <1>15, <2>4, <2>5, <2>6 DEF ClientReceive
<1>16. CASE UNCHANGED vars
  BY <1>2, <1>3, <1>16 DEF vars
<1> QED
  BY <1>4, <1>5, <1>6, <1>7, <1>8, <1>9, <1>10, <1>11, <1>12, <1>13, <1>14, <1>15, <1>16
  DEF Next, Flush, HostProcess, HostReceive

\* Nothing that is on its way to a client, late, optimistic or behind, queued
\* there or waiting there to be applied again names a turn the host has not
\* started or, in two threads, is not about to: the broadcast of an advance_turn
\* may overtake the host that applies it, by that one event.
THEOREM NothingIsAhead == Spec => []NothingAhead
<1>1. Init => NothingAhead
  BY InitNothingAhead
<1>2. TypeOK /\ HostQueueInv /\ NothingAhead /\ [Next]_vars => NothingAhead'
  BY StepNothingAhead
<1> QED
  BY <1>1, <1>2, TypeCorrect, HostQueueOrdered, PTL DEF Spec

\* So no client is ever on such a turn: in one thread it has started what the
\* host has, in two at most what the host is about to start.
THEOREM ClientsNeverAhead == Spec => []ClientNeverAhead
<1>1. NothingAhead => ClientNeverAhead
  BY DEF NothingAhead
<1> QED
  BY <1>1, NothingIsAhead, PTL

-----------------------------------------------------------------------------
(* Where the events of a client are *)

\* The stages of a trip; from "outgoing" on the client waits for the answer.
Sent == {"outgoing", "to_host", "host_pending", "host_batch", "to_client", "responses"}
Stages == {"pending", "batch"} \cup Sent

Local(q, i, id) == i \in 1..Len(q) /\ q[i].source = "LOCAL" /\ q[i].id = id

Unsent(q, sent, i, id) == i \in 1..Len(q) /\ i > sent /\ q[i].id = id

EventPacket(q, i, id) == i \in 1..Len(q) /\ q[i].type = "event" /\ q[i].event.id = id

Called(c, q, i, id) == i \in 1..Len(q) /\ q[i].caller = c /\ q[i].id = id

ResponsePacket(q, i, id) == i \in 1..Len(q) /\ q[i].type = "response" /\ q[i].id = id

Answered(q, i, id) == i \in 1..Len(q) /\ q[i].id = id

\* What the host's batch still holds unanswered.
HostWork == IF stage = "idle" THEN batch[Host] ELSE Tail(batch[Host])

\* The i-th record of stage s is about the event id of client c.
At(c, s, i, id) ==
    \/ s = "pending" /\ Local(pending[c], i, id)
    \/ s = "batch" /\ Local(batch[c], i, id)
    \/ s = "outgoing" /\ Unsent(outgoing[c], flushed[c], i, id)
    \/ s = "to_host" /\ EventPacket(to_host[c], i, id)
    \/ s = "host_pending" /\ Called(c, pending[Host], i, id)
    \/ s = "host_batch" /\ Called(c, HostWork, i, id)
    \/ s = "to_client" /\ ResponsePacket(to_client[c], i, id)
    \/ s = "responses" /\ Answered(responses[c], i, id)

\* No event of c is in two places.
Once(c) ==
    \A s, t \in Stages : \A i, j \in Nat : \A id \in EventId :
        At(c, s, i, id) /\ At(c, t, j, id) => s = t /\ i = j

\* The next click's id is used by nothing on its way.
Issued(c) ==
    \A s \in Stages : \A i \in Nat : \A id \in EventId :
        At(c, s, i, id) => id[2] <= next_event_id[c]

\* What is sent is waited for.
Awaited(c) ==
    \A s \in Sent : \A i \in Nat : \A id \in EventId :
        At(c, s, i, id) => \E ev \in waiting[c] : ev.id = id

\* What is waited for is somewhere; true of one thread only.
InFlight(c) ==
    /\ \A ev \in waiting[c] : \E s \in Sent : \E i \in Nat : At(c, s, i, ev.id)
    /\ \A ev, other \in waiting[c] : ev.id = other.id => ev = other
    /\ flush_end[c] \in {0, Len(outgoing[c])}

Trip(c) ==
    /\ Once(c)
    /\ Issued(c)
    /\ Awaited(c)
    /\ SingleThread => InFlight(c)

TripInv == \A c \in Clients : Trip(c)

-----------------------------------------------------------------------------
(* What a step does to the places *)

\* The given stages hold what they held.
Same(c, stages) ==
    \A s \in stages : \A i \in Nat : \A id \in EventId : At(c, s, i, id)' <=> At(c, s, i, id)

\* Place k of stage from is taken out; what follows moves up by d.
TakenOut(c, from, k, d) ==
    \A i \in Nat : \A id \in EventId :
        At(c, from, i, id)' <=> At(c, from, i + d, id) /\ i + d # k

\* What was at place k of stage from is now at place n, new, of stage to.
Moved(c, from, k, d, to, n) ==
    /\ TakenOut(c, from, k, d)
    /\ \A i \in Nat : \A id \in EventId :
          /\ At(c, to, i, id)' <=> At(c, to, i, id) \/ (i = n /\ At(c, from, k, id))
          /\ ~At(c, to, n, id)
    /\ Same(c, Stages \ {from, to})

Dropped(c, from) == TakenOut(c, from, 1, 1) /\ Same(c, Stages \ {from})

\* A whole queue becomes a batch.
MovedAll(c, from, to) ==
    /\ \A i \in Nat : \A id \in EventId :
          /\ ~At(c, from, i, id)'
          /\ ~At(c, to, i, id)
          /\ At(c, to, i, id)' <=> At(c, from, i, id)
    /\ Same(c, Stages \ {from, to})

\* An event that moves to the end of another queue is in one place as before.
LEMMA MovedKeepsOnce ==
    ASSUME NEW c \in Clients, Once(c), Issued(c),
           NEW from \in Stages, NEW to \in Stages, from # to,
           NEW k \in Nat, NEW d \in {0, 1}, NEW n \in Nat,
           Moved(c, from, k, d, to, n), next_event_id'[c] = next_event_id[c]
    PROVE  Once(c)' /\ Issued(c)'
  <1>1. ASSUME NEW s \in Stages, NEW i \in Nat, NEW id \in EventId, At(c, s, i, id)'
        PROVE  \/ s = to /\ i = n /\ At(c, from, k, id)
               \/ s = from /\ At(c, from, i + d, id) /\ i + d # k
               \/ s # from /\ At(c, s, i, id) /\ (s = to => i # n)
    BY <1>1 DEF Moved, TakenOut, Same
  <1>2. ASSUME NEW s \in Stages, NEW t \in Stages, NEW i \in Nat, NEW j \in Nat,
               NEW id \in EventId, At(c, s, i, id)', At(c, t, j, id)'
        PROVE  s = t /\ i = j
    <2>1. i + d \in Nat /\ j + d \in Nat /\ (i + d = j + d => i = j)
      OBVIOUS
    <2>2. CASE s = to /\ i = n /\ At(c, from, k, id)
      BY <1>1, <1>2, <2>1, <2>2 DEF Once
    <2>3. CASE s = from /\ At(c, from, i + d, id) /\ i + d # k
      BY <1>1, <1>2, <2>1, <2>3 DEF Once
    <2>4. CASE s # from /\ At(c, s, i, id) /\ (s = to => i # n)
      BY <1>1, <1>2, <2>1, <2>4 DEF Once
    <2> QED
      BY <1>1, <1>2, <2>2, <2>3, <2>4
  <1>3. ASSUME NEW s \in Stages, NEW i \in Nat, NEW id \in EventId, At(c, s, i, id)'
        PROVE  id[2] <= next_event_id'[c]
    <2>1. i + d \in Nat
      OBVIOUS
    <2> QED
      BY <1>1, <1>3, <2>1 DEF Issued
  <1> QED
    BY <1>2, <1>3 DEF Once, Issued

\* So are the others when one is dropped.
LEMMA DroppedKeepsOnce ==
    ASSUME NEW c \in Clients, Once(c), Issued(c), NEW from \in Stages,
           Dropped(c, from), next_event_id'[c] = next_event_id[c]
    PROVE  Once(c)' /\ Issued(c)'
  <1>1. ASSUME NEW s \in Stages, NEW i \in Nat, NEW id \in EventId, At(c, s, i, id)'
        PROVE  \/ s = from /\ At(c, from, i + 1, id)
               \/ s # from /\ At(c, s, i, id)
    BY <1>1 DEF Dropped, TakenOut, Same
  <1>2. ASSUME NEW s \in Stages, NEW t \in Stages, NEW i \in Nat, NEW j \in Nat,
               NEW id \in EventId, At(c, s, i, id)', At(c, t, j, id)'
        PROVE  s = t /\ i = j
    <2>1. i + 1 \in Nat /\ j + 1 \in Nat /\ (i + 1 = j + 1 => i = j)
      OBVIOUS
    <2>2. CASE s = from /\ At(c, from, i + 1, id)
      BY <1>1, <1>2, <2>1, <2>2 DEF Once
    <2>3. CASE s # from /\ At(c, s, i, id)
      BY <1>1, <1>2, <2>1, <2>3 DEF Once
    <2> QED
      BY <1>1, <1>2, <2>2, <2>3
  <1>3. ASSUME NEW s \in Stages, NEW i \in Nat, NEW id \in EventId, At(c, s, i, id)'
        PROVE  id[2] <= next_event_id'[c]
    <2>1. i + 1 \in Nat
      OBVIOUS
    <2> QED
      BY <1>1, <1>3, <2>1 DEF Issued
  <1> QED
    BY <1>2, <1>3 DEF Once, Issued

\* A client goes on waiting for what was sent, and for what is sent now.
LEMMA MovedKeepsAwaited ==
    ASSUME NEW c \in Clients, Awaited(c),
           NEW from \in Stages, NEW to \in Stages,
           NEW k \in Nat, NEW d \in {0, 1}, NEW n \in Nat,
           Moved(c, from, k, d, to, n), waiting[c] \subseteq waiting'[c],
           from \notin Sent /\ to \in Sent =>
              \A id \in EventId : At(c, from, k, id) => \E ev \in waiting'[c] : ev.id = id
    PROVE  Awaited(c)'
  <1> SUFFICES ASSUME NEW s \in Sent, NEW i \in Nat, NEW id \in EventId, At(c, s, i, id)'
               PROVE  \E ev \in waiting'[c] : ev.id = id
    BY DEF Awaited
  <1>0. s \in Stages /\ i + d \in Nat
    BY DEF Stages
  <1>1. CASE s = to /\ i = n /\ At(c, from, k, id)
    BY <1>1 DEF Awaited
  <1>2. CASE s = from /\ At(c, from, i + d, id)
    BY <1>0, <1>2 DEF Awaited
  <1>3. CASE At(c, s, i, id)
    BY <1>3 DEF Awaited
  <1> QED
    BY <1>0, <1>1, <1>2, <1>3 DEF Moved, TakenOut, Same

\* What is dropped needs no waiting event any more.
LEMMA DroppedKeepsAwaited ==
    ASSUME NEW c \in Clients, Awaited(c), NEW from \in Stages, Dropped(c, from),
           \A ev \in waiting[c] : \/ ev \in waiting'[c]
                                 \/ \A s \in Sent : \A i \in Nat : ~At(c, s, i, ev.id)'
    PROVE  Awaited(c)'
  <1> SUFFICES ASSUME NEW s \in Sent, NEW i \in Nat, NEW id \in EventId, At(c, s, i, id)'
               PROVE  \E ev \in waiting'[c] : ev.id = id
    BY DEF Awaited
  <1>0. s \in Stages /\ i + 1 \in Nat
    BY DEF Stages
  <1>1. \E ev \in waiting[c] : ev.id = id
    <2>1. CASE s = from
      BY <1>0, <2>1 DEF Awaited, Dropped, TakenOut
    <2>2. CASE s # from
      BY <1>0, <2>2 DEF Awaited, Dropped, Same
    <2> QED
      BY <2>1, <2>2
  <1> QED
    BY <1>1

\* What is waited for and moves on is still somewhere.
LEMMA MovedKeepsInFlight ==
    ASSUME NEW c \in Clients, TypeOK, InFlight(c),
           NEW from \in Stages, NEW to \in Sent,
           NEW k \in Nat, NEW d \in {0, 1}, NEW n \in Nat,
           d = 1 => \A id \in EventId : ~At(c, from, 0, id),
           Moved(c, from, k, d, to, n),
           waiting'[c] = waiting[c], flush_end'[c] \in {0, Len(outgoing'[c])}
    PROVE  InFlight(c)'
  <1>1. ASSUME NEW ev \in waiting[c]
        PROVE  \E s \in Sent : \E i \in Nat : At(c, s, i, ev.id)'
    <2>0. ev.id \in EventId
      BY DEF TypeOK, Event
    <2>1. PICK s \in Sent, i \in Nat : At(c, s, i, ev.id)
      BY DEF InFlight
    <2>2. CASE s = from /\ i = k
      BY <2>0, <2>1, <2>2 DEF Moved
    <2>3. CASE s = from /\ i # k
      <3> DEFINE j == i - d
      <3>1. j \in Nat /\ j + d = i
        BY <2>0, <2>1, <2>3
      <3>2. At(c, from, j, ev.id)'
        BY <2>0, <2>1, <2>3, <3>1 DEF Moved, TakenOut
      <3> QED
        BY <2>3, <3>1, <3>2
    <2>4. CASE s # from
      BY <2>0, <2>1, <2>4 DEF Moved, Same, Stages
    <2> QED
      BY <2>2, <2>3, <2>4
  <1> QED
    BY <1>1 DEF InFlight

\* What is dropped must not be waited for.
LEMMA DroppedKeepsInFlight ==
    ASSUME NEW c \in Clients, TypeOK, InFlight(c), NEW from \in Stages, Dropped(c, from),
           \A id \in EventId : ~At(c, from, 0, id),
           waiting'[c] \subseteq waiting[c],
           \A ev \in waiting'[c] : from \in Sent => ~At(c, from, 1, ev.id),
           flush_end'[c] \in {0, Len(outgoing'[c])}
    PROVE  InFlight(c)'
  <1>1. ASSUME NEW ev \in waiting'[c]
        PROVE  \E s \in Sent : \E i \in Nat : At(c, s, i, ev.id)'
    <2>0. ev.id \in EventId /\ ev \in waiting[c]
      BY DEF TypeOK, Event
    <2>1. PICK s \in Sent, i \in Nat : At(c, s, i, ev.id)
      BY <2>0 DEF InFlight
    <2>2. CASE s = from
      <3> DEFINE j == i - 1
      <3>1. j \in Nat /\ j + 1 = i /\ j + 1 # 1
        BY <2>0, <2>1, <2>2
      <3>2. At(c, from, j, ev.id)'
        BY <2>0, <2>1, <2>2, <3>1 DEF Dropped, TakenOut
      <3> QED
        BY <2>2, <3>1, <3>2
    <2>3. CASE s # from
      BY <2>0, <2>1, <2>3 DEF Dropped, Same, Stages
    <2> QED
      BY <2>2, <2>3
  <1> QED
    BY <1>1 DEF InFlight

\* A step that leaves the events of c where they are keeps its trips.
LEMMA SameKeepsTrip ==
    ASSUME NEW c \in Clients, TypeOK, Trip(c), Same(c, Stages),
           next_event_id'[c] = next_event_id[c], waiting'[c] = waiting[c],
           SingleThread => flush_end'[c] \in {0, Len(outgoing'[c])}
    PROVE  Trip(c)'
  <1>1. Once(c)'
    BY DEF Trip, Once, Same
  <1>2. Issued(c)'
    BY DEF Trip, Issued, Same
  <1>3. Awaited(c)'
    BY DEF Trip, Awaited, Same, Stages
  <1>4. ASSUME SingleThread
        PROVE  InFlight(c)'
    <2>1. \A ev \in waiting[c] : ev.id \in EventId
      BY DEF TypeOK, Event
    <2> QED
      BY <1>4, <2>1 DEF Trip, InFlight, Same, Stages
  <1> QED
    BY <1>1, <1>2, <1>3, <1>4 DEF Trip

\* So does one that makes a queue a batch.
LEMMA MovedAllKeepsTrip ==
    ASSUME NEW c \in Clients, TypeOK, Trip(c), NEW from \in Stages, NEW to \in Stages,
           from # to, from \in Sent <=> to \in Sent, MovedAll(c, from, to),
           next_event_id'[c] = next_event_id[c], waiting'[c] = waiting[c],
           SingleThread => flush_end'[c] \in {0, Len(outgoing'[c])}
    PROVE  Trip(c)'
  <1> DEFINE before(s) == IF s = to THEN from ELSE s
  <1>1. ASSUME NEW s \in Stages, NEW i \in Nat, NEW id \in EventId, At(c, s, i, id)'
        PROVE  before(s) \in Stages /\ s # from /\ At(c, before(s), i, id)
    BY <1>1 DEF MovedAll, Same
  <1>2. Once(c)'
    <2> SUFFICES ASSUME NEW s \in Stages, NEW t \in Stages, NEW i \in Nat, NEW j \in Nat,
                        NEW id \in EventId, At(c, s, i, id)', At(c, t, j, id)'
                 PROVE  s = t /\ i = j
      BY DEF Once
    <2>1. before(s) = before(t) /\ i = j
      BY <1>1 DEF Trip, Once
    <2> QED
      BY <1>1, <2>1
  <1>3. Issued(c)'
    BY <1>1 DEF Trip, Issued
  <1>4. Awaited(c)'
    <2> SUFFICES ASSUME NEW s \in Sent, NEW i \in Nat, NEW id \in EventId, At(c, s, i, id)'
                 PROVE  \E ev \in waiting'[c] : ev.id = id
      BY DEF Awaited
    <2>1. s \in Stages /\ before(s) \in Sent /\ At(c, before(s), i, id)
      BY <1>1 DEF Stages
    <2> QED
      BY <2>1 DEF Trip, Awaited
  <1>5. ASSUME SingleThread
        PROVE  InFlight(c)'
    <2>1. ASSUME NEW ev \in waiting[c]
          PROVE  \E s \in Sent : \E i \in Nat : At(c, s, i, ev.id)'
      <3>1. ev.id \in EventId
        BY DEF TypeOK, Event
      <3>2. PICK s \in Sent, i \in Nat : At(c, s, i, ev.id)
        BY <1>5 DEF Trip, InFlight
      <3>3. CASE s = from
        BY <3>1, <3>2, <3>3 DEF MovedAll
      <3>4. CASE s # from
        BY <3>1, <3>2, <3>4 DEF MovedAll, Same, Stages
      <3> QED
        BY <3>3, <3>4
    <2> QED
      BY <1>5, <2>1 DEF Trip, InFlight
  <1> QED
    BY <1>2, <1>3, <1>4, <1>5 DEF Trip

-----------------------------------------------------------------------------
(* What the queues' operations do to the places *)

\* Queues are counted from one.
LEMMA NoPlaceZero ==
    ASSUME NEW c \in Clients
    PROVE  \A s \in Stages : \A id \in EventId : ~At(c, s, 0, id)
  BY DEF At, Local, Unsent, EventPacket, Called, ResponsePacket, Answered

\* An element after the last.
LEMMA AppendPlaces ==
    ASSUME NEW c \in Clients, NEW i \in Nat, NEW id \in EventId
    PROVE  /\ \A q \in Seq(Event), e \in Event :
                 /\ Local(Append(q, e), i, id) <=>
                       Local(q, i, id) \/ (i = Len(q) + 1 /\ e.source = "LOCAL" /\ e.id = id)
                 /\ Called(c, Append(q, e), i, id) <=>
                       Called(c, q, i, id) \/ (i = Len(q) + 1 /\ e.caller = c /\ e.id = id)
                 /\ \A sent \in 0..Len(q) : Unsent(Append(q, e), sent, i, id) <=>
                       Unsent(q, sent, i, id) \/ (i = Len(q) + 1 /\ e.id = id)
           /\ \A q \in Seq(ClientPacket), p \in ClientPacket :
                 EventPacket(Append(q, p), i, id) <=>
                    \/ EventPacket(q, i, id)
                    \/ i = Len(q) + 1 /\ p.type = "event" /\ p.event.id = id
           /\ \A q \in Seq(ServerPacket), p \in ServerPacket :
                 ResponsePacket(Append(q, p), i, id) <=>
                    \/ ResponsePacket(q, i, id)
                    \/ i = Len(q) + 1 /\ p.type = "response" /\ p.id = id
           /\ \A q \in Seq(Response), r \in Response :
                 Answered(Append(q, r), i, id) <=>
                    Answered(q, i, id) \/ (i = Len(q) + 1 /\ r.id = id)
  <1>1. ASSUME NEW S, NEW q \in Seq(S), NEW e \in S
        PROVE  /\ Len(q) \in Nat
               /\ i \in 1..Len(Append(q, e)) <=> i \in 1..Len(q) \/ i = Len(q) + 1
               /\ i \in 1..Len(q) => Append(q, e)[i] = q[i]
               /\ i = Len(q) + 1 => Append(q, e)[i] = e
               /\ ~(i \in 1..Len(q) /\ i = Len(q) + 1)
    BY AppendFacts
  <1>2. ASSUME NEW q \in Seq(Event), NEW e \in Event
        PROVE  /\ Local(Append(q, e), i, id) <=>
                     Local(q, i, id) \/ (i = Len(q) + 1 /\ e.source = "LOCAL" /\ e.id = id)
               /\ Called(c, Append(q, e), i, id) <=>
                     Called(c, q, i, id) \/ (i = Len(q) + 1 /\ e.caller = c /\ e.id = id)
               /\ \A sent \in 0..Len(q) : Unsent(Append(q, e), sent, i, id) <=>
                     Unsent(q, sent, i, id) \/ (i = Len(q) + 1 /\ e.id = id)
    BY <1>1 DEF Local, Called, Unsent
  <1>3. ASSUME NEW q \in Seq(ClientPacket), NEW p \in ClientPacket
        PROVE  EventPacket(Append(q, p), i, id) <=>
                  \/ EventPacket(q, i, id)
                  \/ i = Len(q) + 1 /\ p.type = "event" /\ p.event.id = id
    BY <1>1 DEF EventPacket
  <1>4. ASSUME NEW q \in Seq(ServerPacket), NEW p \in ServerPacket
        PROVE  ResponsePacket(Append(q, p), i, id) <=>
                  \/ ResponsePacket(q, i, id)
                  \/ i = Len(q) + 1 /\ p.type = "response" /\ p.id = id
    BY <1>1 DEF ResponsePacket
  <1>5. ASSUME NEW q \in Seq(Response), NEW r \in Response
        PROVE  Answered(Append(q, r), i, id) <=>
                  Answered(q, i, id) \/ (i = Len(q) + 1 /\ r.id = id)
    BY <1>1 DEF Answered
  <1> QED
    BY <1>2, <1>3, <1>4, <1>5

\* The place after the last is free.
LEMMA LastPlaceFree ==
    ASSUME NEW c \in Clients, NEW id
    PROVE  /\ \A q \in Seq(Event) : \A sent \in Nat :
                 /\ ~Called(c, q, Len(q) + 1, id)
                 /\ ~Unsent(q, sent, Len(q) + 1, id)
                 /\ ~Local(q, Len(q) + 1, id)
           /\ \A q \in Seq(ClientPacket) : ~EventPacket(q, Len(q) + 1, id)
           /\ \A q \in Seq(ServerPacket) : ~ResponsePacket(q, Len(q) + 1, id)
           /\ \A q \in Seq(Response) : ~Answered(q, Len(q) + 1, id)
  <1>1. ASSUME NEW S, NEW q \in Seq(S)
        PROVE  ~(Len(q) + 1 \in 1..Len(q))
    OBVIOUS
  <1> QED
    BY <1>1 DEF Local, Called, Unsent, EventPacket, ResponsePacket, Answered

\* The first element is taken out.
LEMMA TailPlaces ==
    ASSUME NEW c \in Clients, NEW i \in Nat, NEW id \in EventId
    PROVE  /\ \A q \in Seq(Event) : q # <<>> =>
                 /\ Local(Tail(q), i, id) <=> Local(q, i + 1, id) /\ i + 1 # 1
                 /\ Called(c, Tail(q), i, id) <=> Called(c, q, i + 1, id) /\ i + 1 # 1
           /\ \A q \in Seq(ClientPacket) : q # <<>> =>
                 (EventPacket(Tail(q), i, id) <=> EventPacket(q, i + 1, id) /\ i + 1 # 1)
           /\ \A q \in Seq(ServerPacket) : q # <<>> =>
                 (ResponsePacket(Tail(q), i, id) <=> ResponsePacket(q, i + 1, id) /\ i + 1 # 1)
           /\ \A q \in Seq(Response) : q # <<>> =>
                 (Answered(Tail(q), i, id) <=> Answered(q, i + 1, id) /\ i + 1 # 1)
  <1>1. ASSUME NEW S, NEW q \in Seq(S), q # <<>>
        PROVE  /\ i \in 1..Len(Tail(q)) <=> i + 1 \in 1..Len(q) /\ i + 1 # 1
               /\ i \in 1..Len(Tail(q)) => Tail(q)[i] = q[i + 1]
    BY <1>1, QueueFacts
  <1>2. ASSUME NEW q \in Seq(Event), q # <<>>
        PROVE  /\ Local(Tail(q), i, id) <=> Local(q, i + 1, id) /\ i + 1 # 1
               /\ Called(c, Tail(q), i, id) <=> Called(c, q, i + 1, id) /\ i + 1 # 1
    BY <1>1, <1>2 DEF Local, Called
  <1>3. ASSUME NEW q \in Seq(ClientPacket), q # <<>>
        PROVE  EventPacket(Tail(q), i, id) <=> EventPacket(q, i + 1, id) /\ i + 1 # 1
    BY <1>1, <1>3 DEF EventPacket
  <1>4. ASSUME NEW q \in Seq(ServerPacket), q # <<>>
        PROVE  ResponsePacket(Tail(q), i, id) <=> ResponsePacket(q, i + 1, id) /\ i + 1 # 1
    BY <1>1, <1>4 DEF ResponsePacket
  <1>5. ASSUME NEW q \in Seq(Response), q # <<>>
        PROVE  Answered(Tail(q), i, id) <=> Answered(q, i + 1, id) /\ i + 1 # 1
    BY <1>1, <1>5 DEF Answered
  <1> QED
    BY <1>2, <1>3, <1>4, <1>5

-----------------------------------------------------------------------------
(* The steps *)

\* The types of the queues that c's events pass through.
LEMMA QueueTypes ==
    ASSUME TypeOK, NEW c \in Clients
    PROVE  /\ c \in Nodes /\ Host \in Nodes /\ c # Host
           /\ pending[c] \in Seq(Event) /\ pending[Host] \in Seq(Event)
           /\ batch[c] \in Seq(Event) /\ batch[Host] \in Seq(Event)
           /\ HostWork \in Seq(Event)
           /\ outgoing[c] \in Seq(Event)
           /\ flushed[c] \in 0..Len(outgoing[c])
           /\ to_host[c] \in Seq(ClientPacket)
           /\ to_client[c] \in Seq(ServerPacket)
           /\ responses[c] \in Seq(Response)
  <1>1. c \in Nodes
    BY DEF Nodes
  <1>2. /\ flushed[c] \in Nat /\ flush_end[c] \in Nat /\ Len(outgoing[c]) \in Nat
        /\ flushed[c] <= flush_end[c] /\ flush_end[c] <= Len(outgoing[c])
    BY <1>1 DEF TypeOK
  <1>3. flushed[c] \in 0..Len(outgoing[c])
    BY <1>2
  <1>4. batch[Host] \in Seq(Event) /\ HostWork \in Seq(Event)
    <2>1. batch[Host] \in Seq(Event) /\ (stage # "idle" => batch[Host] # <<>>)
      BY DEF TypeOK, Nodes
    <2> QED
      BY <2>1, QueueFacts DEF HostWork
  <1> QED
    BY <1>1, <1>3, <1>4, SlotAssumption DEF TypeOK, Nodes

\* A click of c issues an id that is on no trip.
LEMMA ClickKeepsTrip ==
    ASSUME TypeOK, NEW c \in Clients, Trip(c), NEW n \in Nodes,
           NEW name \in {"complete_turn", "uncomplete_turn"}, Click(n, name)
    PROVE  Trip(c)'
  <1> DEFINE e == NewEvent(n, name, 0)
             last == Len(pending[c]) + 1
  <1>1. /\ e \in Event /\ e.id = <<n, next_event_id[n] + 1>> /\ e.caller = n /\ e.source = "LOCAL"
    BY NewEventIsEvent DEF EventName, NewEvent
  <1>2. /\ pending' = [pending EXCEPT ![n] = Append(@, e)]
        /\ next_event_id' = [next_event_id EXCEPT ![n] = @ + 1]
        /\ UNCHANGED <<batch, stage, waiting, responses, outgoing, flush_end, flushed, to_host, to_client>>
    BY DEF Click, replicaVars, flushVars, joinVars, netVars
  <1>3. /\ pending'[c] = IF n = c THEN Append(pending[c], e) ELSE pending[c]
        /\ pending'[Host] = IF n = Host THEN Append(pending[Host], e) ELSE pending[Host]
        /\ next_event_id'[c] = IF n = c THEN next_event_id[c] + 1 ELSE next_event_id[c]
        /\ next_event_id[c] \in Nat
    BY <1>2, QueueTypes DEF TypeOK
  <1>4. \A i \in Nat : \A id \in EventId :
           /\ Called(c, pending'[Host], i, id) <=> Called(c, pending[Host], i, id)
           /\ Local(pending'[c], i, id) <=>
                 Local(pending[c], i, id) \/ (n = c /\ i = last /\ e.id = id)
    BY <1>1, <1>3, QueueTypes, AppendPlaces
  <1>5. CASE n # c
    <2>1. Same(c, Stages)
      BY <1>2, <1>4, <1>5 DEF Same, At, HostWork
    <2> QED
      BY <1>2, <1>3, <1>5, <2>1, SameKeepsTrip DEF Trip, InFlight
  <1>6. CASE n = c
    <2>1. ASSUME NEW s \in Stages, NEW i \in Nat, NEW id \in EventId
          PROVE  At(c, s, i, id)' <=>
                    At(c, s, i, id) \/ (s = "pending" /\ i = last /\ id = e.id)
      BY <1>2, <1>4, <1>6 DEF At, HostWork
    <2>2. e.id[2] = next_event_id[c] + 1
      BY <1>1, <1>6
    <2>3. ASSUME NEW s \in Stages, NEW i \in Nat, NEW id \in EventId, At(c, s, i, id)
          PROVE  id[2] <= next_event_id[c] /\ id # e.id
      <3>1. id[2] \in Nat
        BY DEF EventId
      <3>2. id[2] <= next_event_id[c]
        BY <2>3 DEF Trip, Issued
      <3>3. id[2] # e.id[2]
        BY <1>3, <2>2, <3>1, <3>2
      <3> QED
        BY <3>2, <3>3
    <2>4. Once(c)'
      BY <2>1, <2>3 DEF Trip, Once
    <2>5. Issued(c)'
      <3>1. next_event_id'[c] = next_event_id[c] + 1
        BY <1>3, <1>6
      <3> SUFFICES ASSUME NEW s \in Stages, NEW i \in Nat, NEW id \in EventId, At(c, s, i, id)'
                   PROVE  id[2] <= next_event_id'[c]
        BY DEF Issued
      <3>2. id[2] \in Nat
        BY DEF EventId
      <3> QED
        BY <1>3, <2>1, <2>2, <2>3, <3>1, <3>2
    <2>6. \A s \in Sent : \A i \in Nat : \A id \in EventId : At(c, s, i, id)' <=> At(c, s, i, id)
      BY <2>1 DEF Stages, Sent
    <2>7. Awaited(c)'
      BY <1>2, <2>6 DEF Trip, Awaited
    <2>8. SingleThread => InFlight(c)'
      <3>1. \A ev \in waiting[c] : ev.id \in EventId
        BY DEF TypeOK, Event
      <3> QED
        BY <1>2, <2>6, <3>1 DEF Trip, InFlight
    <2> QED
      BY <2>4, <2>5, <2>7, <2>8 DEF Trip
  <1> QED
    BY <1>5, <1>6

\* A batch is made of what was queued, on the client and on the host.
LEMMA StartBatchKeepsTrip ==
    ASSUME TypeOK, NEW c \in Clients, Trip(c), NEW n \in Nodes, StartBatch(n)
    PROVE  Trip(c)'
  <1>1. /\ batch' = [batch EXCEPT ![n] = pending[n]]
        /\ pending' = [pending EXCEPT ![n] = <<>>]
        /\ batch[n] = <<>>
        /\ UNCHANGED <<next_event_id, stage, waiting, responses, outgoing, flush_end, flushed,
                       to_host, to_client>>
    BY DEF StartBatch, MainIdle, replicaVars, flushVars, joinVars, netVars
  <1>2. \A i \in Nat : \A id \in EventId : ~Local(<<>>, i, id) /\ ~Called(c, <<>>, i, id)
    BY DEF Local, Called
  <1>3. SingleThread => flush_end'[c] \in {0, Len(outgoing'[c])}
    BY <1>1 DEF Trip, InFlight
  <1>4. CASE n = c
    <2>1. /\ batch'[c] = pending[c] /\ pending'[c] = <<>> /\ batch[c] = <<>>
          /\ batch'[Host] = batch[Host] /\ pending'[Host] = pending[Host]
      BY <1>1, <1>4, QueueTypes DEF TypeOK
    <2>2. MovedAll(c, "pending", "batch")
      BY <1>1, <1>2, <2>1 DEF MovedAll, Same, At, HostWork
    <2> QED
      BY <1>1, <1>3, <2>2, MovedAllKeepsTrip DEF Stages, Sent
  <1>5. CASE n = Host
    <2>1. /\ batch'[Host] = pending[Host] /\ pending'[Host] = <<>> /\ batch[Host] = <<>>
          /\ stage = "idle" /\ batch'[c] = batch[c] /\ pending'[c] = pending[c]
      BY <1>1, <1>5, QueueTypes DEF TypeOK
    <2>2. MovedAll(c, "host_pending", "host_batch")
      BY <1>1, <1>2, <2>1 DEF MovedAll, Same, At, HostWork
    <2> QED
      BY <1>1, <1>3, <2>2, MovedAllKeepsTrip DEF Stages, Sent
  <1>6. CASE n # c /\ n # Host
    <2>1. /\ batch'[Host] = batch[Host] /\ pending'[Host] = pending[Host]
          /\ batch'[c] = batch[c] /\ pending'[c] = pending[c]
      BY <1>1, <1>6, QueueTypes DEF TypeOK
    <2>2. Same(c, Stages)
      BY <1>1, <2>1 DEF Same, At, HostWork
    <2> QED
      BY <1>1, <1>3, <2>2, SameKeepsTrip
  <1> QED
    BY <1>4, <1>5, <1>6

\* The event that is sent leaves the unsent part of the vector.
LEMMA SendPendingKeepsTrip ==
    ASSUME TypeOK, NEW c \in Clients, Trip(c), NEW n \in Nodes, SendPending(n)
    PROVE  Trip(c)'
  <1> DEFINE k == flushed[n] + 1
             ev == outgoing[n][k]
             p == [type |-> "event", event |-> ev]
             end == IF flush_end[n] = 0 THEN Len(outgoing[n]) ELSE flush_end[n]
  <1>1. /\ flushed[n] < end
        /\ flush_end' = [flush_end EXCEPT ![n] = end]
        /\ flushed' = [flushed EXCEPT ![n] = @ + 1]
        /\ UNCHANGED <<next_event_id, stage, pending, batch, waiting, responses, outgoing>>
    BY DEF SendPending, replicaVars, queueVars, joinVars
  <1>2. k \in 1..Len(outgoing[n]) /\ ev \in Event /\ p \in ClientPacket /\ p \in ServerPacket
    <2>1. /\ flushed[n] \in Nat /\ flush_end[n] \in Nat /\ Len(outgoing[n]) \in Nat
          /\ flush_end[n] <= Len(outgoing[n]) /\ outgoing[n] \in Seq(Event)
      BY DEF TypeOK
    <2>2. k \in 1..Len(outgoing[n])
      BY <1>1, <2>1
    <2> QED
      BY <2>1, <2>2 DEF ClientPacket, ServerPacket
  <1>3. SingleThread => flush_end'[c] \in {0, Len(outgoing'[c])}
    <2>1. flush_end'[c] = IF n = c THEN end ELSE flush_end[c]
      BY <1>1, QueueTypes DEF TypeOK
    <2> QED
      BY <1>1, <2>1 DEF Trip, InFlight
  <1>4. CASE n = c
    <2>1. /\ to_host'[c] = Append(to_host[c], p) /\ to_client' = to_client
          /\ flushed'[c] = k
      BY <1>1, <1>4, QueueTypes DEF SendPending, TypeOK
    <2>2. \A i \in Nat : \A id \in EventId :
             /\ Unsent(outgoing[c], k, i, id) <=> Unsent(outgoing[c], flushed[c], i + 0, id) /\ i + 0 # k
             /\ Unsent(outgoing[c], flushed[c], k, id) <=> ev.id = id
      BY <1>2, <1>4, QueueTypes DEF Unsent
    <2>3. \A i \in Nat : \A id \in EventId :
             /\ EventPacket(to_host'[c], i, id) <=>
                   EventPacket(to_host[c], i, id) \/ (i = Len(to_host[c]) + 1 /\ ev.id = id)
             /\ ~EventPacket(to_host[c], Len(to_host[c]) + 1, id)
      <3>1. p.type = "event" /\ p.event = ev
        OBVIOUS
      <3> HIDE DEF p, ev
      <3> TAKE i \in Nat
      <3> TAKE id \in EventId
      <3>2. to_host[c] \in Seq(ClientPacket)
        BY QueueTypes
      <3>3. EventPacket(Append(to_host[c], p), i, id) <=>
               EventPacket(to_host[c], i, id) \/ (i = Len(to_host[c]) + 1 /\ ev.id = id)
        <4>1. p \in ClientPacket
          BY <1>2
        <4>2. EventPacket(Append(to_host[c], p), i, id) <=>
                 \/ EventPacket(to_host[c], i, id)
                 \/ i = Len(to_host[c]) + 1 /\ p.type = "event" /\ p.event.id = id
          BY ZenonT(30), <3>2, <4>1, AppendPlaces
        <4> QED
          BY <3>1, <4>2
      <3> QED
        BY <2>1, <3>2, <3>3, LastPlaceFree
    <2>4. Moved(c, "outgoing", k, 0, "to_host", Len(to_host[c]) + 1)
      <3>1. \A i \in Nat : \A id \in EventId :
               /\ At(c, "outgoing", i, id) <=> Unsent(outgoing[c], flushed[c], i, id)
               /\ At(c, "outgoing", i, id)' <=> Unsent(outgoing[c], k, i, id)
               /\ At(c, "to_host", i, id) <=> EventPacket(to_host[c], i, id)
               /\ At(c, "to_host", i, id)' <=> EventPacket(to_host'[c], i, id)
        BY <1>1, <2>1 DEF At
      <3>2. Same(c, Stages \ {"outgoing", "to_host"})
        BY <1>1, <2>1 DEF Same, At, Stages, Sent, HostWork
      <3>3. TakenOut(c, "outgoing", k, 0)
        <4> HIDE DEF k
        <4> SUFFICES ASSUME NEW i \in Nat, NEW id \in EventId
                     PROVE  At(c, "outgoing", i, id)' <=> At(c, "outgoing", i + 0, id) /\ i + 0 # k
          BY DEF TakenOut
        <4>1. i + 0 \in Nat
          OBVIOUS
        <4> QED
          BY <2>2, <3>1, <4>1
      <3>4. k \in Nat
        BY <1>2, QueueTypes
      <3> HIDE DEF k, ev
      <3>5. \A i \in Nat : \A id \in EventId :
               /\ At(c, "to_host", i, id)' <=>
                     At(c, "to_host", i, id) \/ (i = Len(to_host[c]) + 1 /\ At(c, "outgoing", k, id))
               /\ ~At(c, "to_host", Len(to_host[c]) + 1, id)
        <4>1. Len(to_host[c]) + 1 \in Nat
          BY QueueTypes
        <4>2. 0 \in Nat
          OBVIOUS
        <4> QED
          BY <2>2, <2>3, <3>1, <3>4, <4>1, <4>2
      <3> QED
        BY <3>2, <3>3, <3>5 DEF Moved
    <2>5. Len(to_host[c]) + 1 \in Nat /\ k \in Nat
      BY <1>2, QueueTypes
    <2>6. Once(c)' /\ Issued(c)'
      BY <1>1, <2>4, <2>5, MovedKeepsOnce DEF Trip, Stages, Sent
    <2>7. Awaited(c)'
      BY <1>1, <2>4, <2>5, MovedKeepsAwaited DEF Trip, Stages, Sent
    <2>8. ASSUME SingleThread
          PROVE  InFlight(c)'
      <3>1. "outgoing" \in Stages /\ "to_host" \in Sent /\ 0 \in {0, 1} /\ 0 # 1
        BY DEF Stages, Sent
      <3>2. InFlight(c)
        BY <2>8 DEF Trip
      <3>3. waiting'[c] = waiting[c] /\ flush_end'[c] \in {0, Len(outgoing'[c])}
        BY <1>1, <1>3, <2>8
      <3> QED
        BY <2>4, <2>5, <3>1, <3>2, <3>3, MovedKeepsInFlight
    <2> QED
      BY <2>6, <2>7, <2>8 DEF Trip
  <1>5. CASE n # c
    <2>1. /\ to_host'[c] = to_host[c] /\ flushed'[c] = flushed[c]
          /\ to_client'[c] = to_client[c] \/ to_client'[c] = Append(to_client[c], p)
      <3>1. flushed'[c] = flushed[c]
        BY <1>1, <1>5, QueueTypes DEF TypeOK
      <3>2. to_host'[c] = to_host[c]
        BY <1>5, QueueTypes DEF SendPending, TypeOK
      <3>3. to_client'[c] = to_client[c] \/ to_client'[c] = Append(to_client[c], p)
        BY DEF SendPending
      <3> QED
        BY <3>1, <3>2, <3>3
    <2>2. \A i \in Nat : \A id \in EventId :
             ResponsePacket(to_client'[c], i, id) <=> ResponsePacket(to_client[c], i, id)
      <3>1. p.type # "response"
        OBVIOUS
      <3> HIDE DEF p
      <3> TAKE i \in Nat
      <3> TAKE id \in EventId
      <3>2. to_client[c] \in Seq(ServerPacket)
        BY QueueTypes
      <3>3. ResponsePacket(Append(to_client[c], p), i, id) <=> ResponsePacket(to_client[c], i, id)
        BY <1>2, <3>1, <3>2, AppendPlaces
      <3> QED
        BY <2>1, <3>3
    <2>3. Same(c, Stages)
      BY <1>1, <2>1, <2>2 DEF Same, At, HostWork
    <2> QED
      BY <1>1, <1>3, <2>3, SameKeepsTrip
  <1> QED
    BY <1>4, <1>5

\* Clearing the vector drops what MAIN appended meanwhile; one thread has
\* nothing unsent in it by then.
LEMMA ClearPendingKeepsTrip ==
    ASSUME TypeOK, NEW c \in Clients, Trip(c), NEW n \in Nodes, ClearPending(n)
    PROVE  Trip(c)'
  <1>1. /\ flush_end[n] # 0 /\ flushed[n] = flush_end[n]
        /\ outgoing' = [outgoing EXCEPT ![n] = <<>>]
        /\ flush_end' = [flush_end EXCEPT ![n] = 0]
        /\ flushed' = [flushed EXCEPT ![n] = 0]
        /\ UNCHANGED <<next_event_id, stage, pending, batch, waiting, responses, to_host, to_client>>
    BY DEF ClearPending, replicaVars, queueVars, joinVars, netVars
  <1>2. CASE n # c
    <2>1. outgoing'[c] = outgoing[c] /\ flush_end'[c] = flush_end[c] /\ flushed'[c] = flushed[c]
      BY <1>1, <1>2, QueueTypes DEF TypeOK
    <2>2. Same(c, Stages)
      BY <1>1, <2>1 DEF Same, At, HostWork
    <2> QED
      BY <1>1, <2>1, <2>2, SameKeepsTrip DEF Trip, InFlight
  <1>3. CASE n = c
    <2>1. outgoing'[c] = <<>> /\ flush_end'[c] = 0 /\ flushed'[c] = 0
      BY <1>1, <1>3, QueueTypes DEF TypeOK
    <2>2. \A i \in Nat : \A id \in EventId : ~Unsent(outgoing'[c], flushed'[c], i, id)
      BY <2>1 DEF Unsent
    <2>3. \A s \in Stages : \A i \in Nat : \A id \in EventId :
             At(c, s, i, id)' <=> At(c, s, i, id) /\ s # "outgoing"
      BY <1>1, <2>2 DEF At, HostWork
    <2>4. Once(c)' /\ Issued(c)' /\ Awaited(c)'
      <3>1. Once(c)'
        BY <2>3 DEF Trip, Once
      <3>2. Issued(c)'
        BY <1>1, <2>3 DEF Trip, Issued
      <3>3. Awaited(c)'
        BY <1>1, <2>3 DEF Trip, Awaited, Stages
      <3> QED
        BY <3>1, <3>2, <3>3
    <2>5. ASSUME SingleThread
          PROVE  InFlight(c)'
      <3>1. flushed[c] = Len(outgoing[c])
        BY <1>1, <1>3, <2>5 DEF Trip, InFlight
      <3>2. \A i \in Nat : \A id \in EventId : ~Unsent(outgoing[c], flushed[c], i, id)
        BY <3>1, QueueTypes DEF Unsent
      <3>3. Same(c, Stages)
        BY <1>1, <2>2, <3>2 DEF Same, At, HostWork
      <3>4. Trip(c)'
        BY <1>1, <2>1, <3>3, SameKeepsTrip
      <3> QED
        BY <2>5, <3>4 DEF Trip
    <2> QED
      BY <2>4, <2>5 DEF Trip
  <1> QED
    BY <1>2, <1>3

\* The host's answer takes the event's place.
LEMMA AnswerKeepsTrip ==
    ASSUME TypeOK, NEW c \in Clients, Trip(c), NEW accepted \in BOOLEAN,
           HostWork # <<>>, Answer(Head(HostWork), accepted), HostWork' = Tail(HostWork),
           batch'[c] = batch[c], outgoing'[c] = outgoing[c],
           UNCHANGED <<next_event_id, pending, waiting, responses, flush_end, flushed, to_host>>
    PROVE  Trip(c)'
  <1> DEFINE ev == Head(HostWork)
             r == [type |-> "response", id |-> ev.id, accepted |-> accepted]
             last == Len(to_client[c]) + 1
  <1>1. ev \in Event /\ ev = HostWork[1] /\ r \in ServerPacket /\ 1 \in 1..Len(HostWork)
    <2>1. ev \in Event /\ ev = HostWork[1] /\ 1 \in 1..Len(HostWork)
      BY QueueTypes, QueueFacts
    <2> QED
      BY <2>1 DEF ServerPacket, Response, Event
  <1>2. r.type = "response" /\ r.id = ev.id
    OBVIOUS
  <1>3. to_client'[c] = IF ev.caller = c THEN Append(to_client[c], r) ELSE to_client[c]
    BY QueueTypes DEF TypeOK, Answer
  <1> HIDE DEF r, ev
  <1>4. \A i \in Nat : \A id \in EventId :
           Called(c, HostWork', i, id) <=> Called(c, HostWork, i + 1, id) /\ i + 1 # 1
    BY QueueTypes, TailPlaces
  <1>5. ASSUME NEW i \in Nat, NEW id \in EventId
        PROVE  /\ ResponsePacket(to_client'[c], i, id) <=>
                     \/ ResponsePacket(to_client[c], i, id)
                     \/ i = last /\ Called(c, HostWork, 1, id)
               /\ ~ResponsePacket(to_client[c], last, id)
    <2>1. Called(c, HostWork, 1, id) <=> ev.caller = c /\ ev.id = id
      BY <1>1 DEF Called
    <2>2. to_client[c] \in Seq(ServerPacket)
      BY QueueTypes
    <2>3. ResponsePacket(Append(to_client[c], r), i, id) <=>
             ResponsePacket(to_client[c], i, id) \/ (i = last /\ ev.id = id)
      BY <1>1, <1>2, <2>2, AppendPlaces
    <2>4. ~ResponsePacket(to_client[c], last, id)
      BY <2>2, LastPlaceFree
    <2> QED
      BY <1>3, <2>1, <2>3, <2>4
  <1>6. Moved(c, "host_batch", 1, 1, "to_client", last)
    <2> HIDE DEF last
    <2>1. TakenOut(c, "host_batch", 1, 1)
      BY <1>4 DEF TakenOut, At
    <2>2. \A i \in Nat : \A id \in EventId :
             /\ At(c, "to_client", i, id)' <=>
                   At(c, "to_client", i, id) \/ (i = last /\ At(c, "host_batch", 1, id))
             /\ ~At(c, "to_client", last, id)
      BY <1>5 DEF At
    <2>3. Same(c, Stages \ {"host_batch", "to_client"})
      BY DEF Same, At
    <2> QED
      BY <2>1, <2>2, <2>3 DEF Moved
  <1>7. last \in Nat /\ 1 \in Nat /\ 1 \in {0, 1}
    BY QueueTypes
  <1>8. "host_batch" \in Sent /\ "to_client" \in Sent /\ Sent \subseteq Stages
    BY DEF Stages, Sent
  <1>9. Once(c)' /\ Issued(c)'
    BY <1>6, <1>7, <1>8, MovedKeepsOnce DEF Trip
  <1>10. Awaited(c)'
    BY <1>6, <1>7, <1>8, MovedKeepsAwaited DEF Trip
  <1>11. SingleThread => InFlight(c)'
    <2>1. SingleThread => flush_end'[c] \in {0, Len(outgoing'[c])}
      BY DEF Trip, InFlight
    <2> QED
      BY <1>6, <1>7, <1>8, <2>1, NoPlaceZero, MovedKeepsInFlight DEF Trip
  <1> QED
    BY <1>9, <1>10, <1>11 DEF Trip

\* What is answered already is on no trip when it is broadcast and applied.
LEMMA AnsweredKeepsTrip ==
    ASSUME TypeOK, NEW c \in Clients, Trip(c), HostWork' = HostWork,
           \A i \in Nat : \A id \in EventId :
              Called(c, pending'[Host], i, id) <=> Called(c, pending[Host], i, id),
           pending'[c] = pending[c], batch'[c] = batch[c], outgoing'[c] = outgoing[c],
           next_event_id'[c] = next_event_id[c],
           UNCHANGED <<waiting, responses, flush_end, flushed, to_host, to_client>>
    PROVE  Trip(c)'
  <1>1. Same(c, Stages)
    BY DEF Same, At
  <1> QED
    BY <1>1, SameKeepsTrip DEF Trip, InFlight

\* Accepted or rejected, an event of a client is answered.
LEMMA HostProcessKeepsTrip ==
    ASSUME TypeOK, NEW c \in Clients, Trip(c), HostProcess
    PROVE  Trip(c)'
  <1>0. batch[Host] # <<>>
    BY DEF HostProcess, HostAnswer, HostBroadcast, HostApply, HostReject, MainInBatch
  <1>1. CASE HostAnswer
    <2>1. /\ HostWork = batch[Host] /\ HostWork' = Tail(batch[Host])
          /\ Answer(Head(batch[Host]), TRUE)
          /\ UNCHANGED <<next_event_id, pending, batch, outgoing, waiting, responses, flush_end,
                         flushed, to_host>>
      BY <1>1 DEF HostAnswer, HostWork, flushVars
    <2> QED
      BY <1>0, <2>1, AnswerKeepsTrip
  <1>2. CASE HostReject
    <2>1. /\ HostWork = batch[Host] /\ HostWork' = Tail(batch[Host])
          /\ batch'[c] = batch[c]
          /\ Answer(Head(batch[Host]), FALSE)
          /\ UNCHANGED <<next_event_id, pending, outgoing, waiting, responses, flush_end,
                         flushed, to_host>>
      BY <1>2, QueueTypes DEF HostReject, HostWork, flushVars, TypeOK
    <2> QED
      BY <1>0, <2>1, AnswerKeepsTrip
  <1>3. CASE HostBroadcast
    <2>1. /\ HostWork' = Tail(batch[Host])
          /\ outgoing'[c] = outgoing[c]
          /\ UNCHANGED <<next_event_id, pending, batch, waiting, responses, flush_end,
                         flushed, to_host, to_client>>
      BY <1>3, QueueTypes DEF HostBroadcast, Broadcast, HostWork, netVars, TypeOK
    <2>2. CASE stage = "answered"
      <3>1. HostWork = Tail(batch[Host])
        BY <2>2 DEF HostWork
      <3> QED
        BY <2>1, <3>1, AnsweredKeepsTrip
    <2>3. CASE stage = "idle" /\ Head(batch[Host]).caller = Host
      <3>1. HostWork = batch[Host] /\ Answer(Head(batch[Host]), TRUE)
        BY <2>1, <2>3 DEF HostWork, Answer
      <3> QED
        BY <1>0, <2>1, <3>1, AnswerKeepsTrip
    <2> QED
      BY <1>3, <2>2, <2>3 DEF HostBroadcast
  <1>4. CASE HostApply
    <2> DEFINE adv == NewEvent(Host, "advance_turn", turn[Host] + 1)
    <2>1. adv \in Event /\ adv.caller = Host
      <3>1. Host \in Nodes /\ turn[Host] + 1 \in Nat /\ "advance_turn" \in EventName
        BY DEF EventName, TypeOK, Nodes
      <3> QED
        BY <3>1, NewEventIsEvent DEF NewEvent
    <2>2. /\ pending'[Host] = pending[Host] \/ pending'[Host] = Append(pending[Host], adv)
          /\ pending'[c] = pending[c] /\ next_event_id'[c] = next_event_id[c]
      BY <1>4, QueueTypes DEF HostApply, RaiseAdvance, TypeOK
    <2> HIDE DEF adv
    <2>3. ASSUME NEW i \in Nat, NEW id \in EventId
          PROVE  Called(c, pending'[Host], i, id) <=> Called(c, pending[Host], i, id)
      <3>1. pending[Host] \in Seq(Event) /\ c # Host
        BY QueueTypes
      <3>2. Called(c, Append(pending[Host], adv), i, id) <=> Called(c, pending[Host], i, id)
        BY <2>1, <3>1, AppendPlaces
      <3> QED
        BY <2>2, <3>2
    <2>4. /\ HostWork = Tail(batch[Host]) /\ HostWork' = Tail(batch[Host])
          /\ batch'[c] = batch[c]
          /\ UNCHANGED <<outgoing, waiting, responses, flush_end, flushed, to_host, to_client>>
      BY <1>4, QueueTypes DEF HostApply, HostWork, flushVars, netVars, TypeOK
    <2> QED
      BY <2>2, <2>3, <2>4, AnsweredKeepsTrip
  <1> QED
    BY <1>1, <1>2, <1>3, <1>4 DEF HostProcess

\* A local event that is applied is sent and waited for.
LEMMA ClientApplyKeepsTrip ==
    ASSUME TypeOK, NEW c \in Clients, Trip(c), NEW d \in Clients, ClientApply(d)
    PROVE  Trip(c)'
  <1> DEFINE ev == Head(batch[d])
             last == Len(outgoing[c]) + 1
  <1>1. /\ MainInBatch(d) /\ batch[d] # <<>>
        /\ batch' = [batch EXCEPT ![d] = Tail(@)]
        /\ IF ev.source = "LOCAL" THEN StoreAndSend(d, ev) ELSE UNCHANGED <<waiting, outgoing>>
        /\ UNCHANGED <<next_event_id, stage, pending, responses, flush_end, flushed, to_host, to_client>>
    BY DEF ClientApply, MainInBatch, joinVars, netVars
  <1>2. /\ waiting'[c] = IF d = c /\ ev.source = "LOCAL" THEN waiting[c] \cup {ev} ELSE waiting[c]
        /\ outgoing'[c] = IF d = c /\ ev.source = "LOCAL" THEN Append(outgoing[c], ev) ELSE outgoing[c]
        /\ batch'[c] = IF d = c THEN Tail(batch[c]) ELSE batch[c]
        /\ batch'[Host] = batch[Host]
    <2>1. d \in Nodes /\ d # Host
      BY QueueTypes
    <2> QED
      BY ZenonT(30), <1>1, <2>1, QueueTypes DEF StoreAndSend, TypeOK
  <1>3. CASE d # c
    <2>1. Same(c, Stages)
      BY <1>1, <1>2, <1>3 DEF Same, At, HostWork
    <2> QED
      BY <1>1, <1>2, <1>3, <2>1, SameKeepsTrip DEF Trip, InFlight
  <1>4. CASE d = c
    <2>1. ev \in Event /\ ev = batch[c][1] /\ 1 \in 1..Len(batch[c])
      BY <1>1, <1>4, QueueTypes, QueueFacts
    <2>2. \A id \in EventId : Local(batch[c], 1, id) <=> ev.source = "LOCAL" /\ ev.id = id
      BY <2>1 DEF Local
    <2>3. \A i \in Nat : \A id \in EventId :
             Local(batch'[c], i, id) <=> Local(batch[c], i + 1, id) /\ i + 1 # 1
      BY <1>1, <1>2, <1>4, QueueTypes, TailPlaces
    <2>4. ASSUME NEW i \in Nat, NEW id \in EventId
          PROVE  /\ Unsent(outgoing'[c], flushed[c], i, id) <=>
                       Unsent(outgoing[c], flushed[c], i, id) \/ (i = last /\ Local(batch[c], 1, id))
                 /\ ~Unsent(outgoing[c], flushed[c], last, id)
      <3>1. outgoing[c] \in Seq(Event) /\ flushed[c] \in 0..Len(outgoing[c]) /\ flushed[c] \in Nat
        BY QueueTypes
      <3>2. Unsent(Append(outgoing[c], ev), flushed[c], i, id) <=>
               Unsent(outgoing[c], flushed[c], i, id) \/ (i = last /\ ev.id = id)
        BY <2>1, <3>1, AppendPlaces
      <3>3. ~Unsent(outgoing[c], flushed[c], last, id)
        BY <3>1, LastPlaceFree
      <3> QED
        BY <1>2, <1>4, <2>2, <3>2, <3>3
    <2>5. Moved(c, "batch", 1, 1, "outgoing", last)
      BY <1>1, <1>2, <2>3, <2>4 DEF Moved, TakenOut, Same, At, HostWork
    <2>6. last \in Nat /\ 1 \in Nat /\ 1 \in {0, 1}
      BY QueueTypes
    <2>7. "batch" \in Stages /\ "outgoing" \in Sent /\ Sent \subseteq Stages /\ "batch" # "outgoing"
      BY DEF Stages, Sent
    <2>8. Once(c)' /\ Issued(c)'
      BY <1>1, <2>5, <2>6, <2>7, MovedKeepsOnce DEF Trip
    <2>9. \A id \in EventId : At(c, "batch", 1, id) <=> ev.source = "LOCAL" /\ ev.id = id
      BY <2>2 DEF At
    <2>10. Awaited(c)'
      <3>1. waiting[c] \subseteq waiting'[c]
        BY <1>2
      <3>2. \A id \in EventId : At(c, "batch", 1, id) => \E w \in waiting'[c] : w.id = id
        BY <1>2, <1>4, <2>9
      <3> QED
        BY <2>5, <2>6, <2>7, <3>1, <3>2, MovedKeepsAwaited DEF Trip
    <2>11. ASSUME SingleThread
           PROVE  InFlight(c)'
      <3>1. InFlight(c) /\ flush_end[c] = 0
        BY <1>1, <1>4, <2>11 DEF Trip, MainInBatch
      <3>2. \A w \in waiting[c] : w.id \in EventId
        BY DEF TypeOK, Event
      <3>3. ASSUME NEW w \in waiting[c]
            PROVE  \E s \in Sent : \E i \in Nat : At(c, s, i, w.id)'
        <4>1. PICK s \in Sent, i \in Nat : At(c, s, i, w.id)
          BY <3>1 DEF InFlight
        <4>2. s # "batch" /\ s \in Stages
          BY DEF Stages, Sent
        <4>3. At(c, s, i, w.id)'
          BY <2>5, <3>2, <4>1, <4>2 DEF Moved, Same
        <4> QED
          BY <4>3
      <3>4. CASE ev.source = "LOCAL"
        <4>1. ev.id \in EventId /\ At(c, "batch", 1, ev.id)
          BY <2>1, <2>9, <3>4 DEF Event
        <4>2. PICK place \in Nat, id \in EventId : id = ev.id /\ At(c, "outgoing", place, id)'
          <5> HIDE DEF last, ev
          <5>1. \A i \in Nat : \A id \in EventId :
                   i = last /\ At(c, "batch", 1, id) => At(c, "outgoing", i, id)'
            BY <2>5 DEF Moved
          <5> QED
            BY <2>6, <4>1, <5>1
        <4>3. \A w \in waiting[c] : w.id # ev.id
          <5> SUFFICES ASSUME NEW w \in waiting[c], w.id = ev.id
                       PROVE  FALSE
            OBVIOUS
          <5>1. PICK s \in Sent, i \in Nat : At(c, s, i, w.id)
            BY <3>1 DEF InFlight
          <5>2. s # "batch" /\ s \in Stages
            BY DEF Stages, Sent
          <5> QED
            BY <2>6, <2>7, <4>1, <5>1, <5>2 DEF Trip, Once
        <4>4. waiting'[c] = waiting[c] \cup {ev}
          BY <1>2, <1>4, <3>4
        <4>5. \A w \in waiting'[c] : \E s \in Sent : \E i \in Nat : At(c, s, i, w.id)'
          <5> TAKE w \in waiting'[c]
          <5>1. CASE w \in waiting[c]
            BY <3>3, <5>1
          <5>2. CASE w = ev
            BY <2>7, <4>2, <5>2
          <5> QED
            BY <4>4, <5>1, <5>2
        <4>6. \A w, other \in waiting'[c] : w.id = other.id => w = other
          BY <3>1, <4>3, <4>4 DEF InFlight
        <4>7. flush_end'[c] = 0
          BY <1>1, <3>1
        <4> QED
          BY <4>5, <4>6, <4>7 DEF InFlight
      <3>5. CASE ev.source # "LOCAL"
        BY <1>1, <1>2, <3>1, <3>3, <3>5 DEF InFlight
      <3> QED
        BY <3>4, <3>5
    <2> QED
      BY <2>8, <2>10, <2>11 DEF Trip
  <1> QED
    BY <1>3, <1>4

\* A local event that is refused ends its trip before it was sent.
LEMMA ClientRefuseKeepsTrip ==
    ASSUME TypeOK, NEW c \in Clients, Trip(c), NEW d \in Clients, ClientRefuse(d)
    PROVE  Trip(c)'
  <1>1. /\ batch[d] # <<>>
        /\ batch' = [batch EXCEPT ![d] = Tail(@)]
        /\ UNCHANGED <<next_event_id, stage, pending, waiting, responses, outgoing, flush_end, flushed,
                       to_host, to_client>>
    BY DEF ClientRefuse, MainInBatch, replicaVars, flushVars, joinVars, netVars
  <1>2. /\ batch'[c] = IF d = c THEN Tail(batch[c]) ELSE batch[c]
        /\ batch'[Host] = batch[Host]
    <2>1. d \in Nodes /\ d # Host
      BY QueueTypes
    <2> QED
      BY <1>1, <2>1, QueueTypes DEF TypeOK
  <1>3. SingleThread => flush_end'[c] \in {0, Len(outgoing'[c])}
    BY <1>1 DEF Trip, InFlight
  <1>4. CASE d # c
    <2>1. Same(c, Stages)
      BY <1>1, <1>2, <1>4 DEF Same, At, HostWork
    <2> QED
      BY <1>1, <1>3, <2>1, SameKeepsTrip
  <1>5. CASE d = c
    <2>1. \A i \in Nat : \A id \in EventId :
             Local(batch'[c], i, id) <=> Local(batch[c], i + 1, id) /\ i + 1 # 1
      BY <1>1, <1>2, <1>5, QueueTypes, TailPlaces
    <2>2. Dropped(c, "batch")
      BY <1>1, <1>2, <2>1 DEF Dropped, TakenOut, Same, At, HostWork
    <2>3. "batch" \in Stages /\ "batch" \notin Sent
      BY DEF Stages, Sent
    <2>4. Once(c)' /\ Issued(c)'
      BY <1>1, <2>2, <2>3, DroppedKeepsOnce DEF Trip
    <2>5. Awaited(c)'
      BY <1>1, <2>2, <2>3, DroppedKeepsAwaited DEF Trip
    <2>6. SingleThread => InFlight(c)'
      BY <1>1, <1>3, <2>2, <2>3, NoPlaceZero, DroppedKeepsInFlight DEF Trip
    <2> QED
      BY <2>4, <2>5, <2>6 DEF Trip
  <1> QED
    BY <1>4, <1>5

\* The response ends the trip of the one event that is waited for under its id.
LEMMA HandleResponseKeepsTrip ==
    ASSUME TypeOK, NEW c \in Clients, Trip(c), NEW d \in Clients, HandleResponse(d)
    PROVE  Trip(c)'
  <1> DEFINE r == Head(responses[d])
  <1>1. PICK ev \in waiting[d] : ev.id = r.id /\ waiting' = [waiting EXCEPT ![d] = @ \ {ev}]
    BY DEF HandleResponse
  <1>2. /\ responses[d] # <<>>
        /\ responses' = [responses EXCEPT ![d] = Tail(@)]
        /\ UNCHANGED <<next_event_id, stage, pending, batch, outgoing, flush_end, flushed,
                       to_host, to_client>>
    BY DEF HandleResponse, flushVars, joinVars, netVars
  <1>3. /\ waiting'[c] = IF d = c THEN waiting[c] \ {ev} ELSE waiting[c]
        /\ responses'[c] = IF d = c THEN Tail(responses[c]) ELSE responses[c]
    BY <1>1, <1>2 DEF TypeOK
  <1>4. SingleThread => flush_end'[c] \in {0, Len(outgoing'[c])}
    BY <1>2 DEF Trip, InFlight
  <1>5. CASE d # c
    <2>1. Same(c, Stages)
      BY <1>2, <1>3, <1>5 DEF Same, At, HostWork
    <2> QED
      BY <1>2, <1>3, <1>4, <1>5, <2>1, SameKeepsTrip
  <1>6. CASE d = c
    <2>1. \A i \in Nat : \A id \in EventId :
             Answered(responses'[c], i, id) <=> Answered(responses[c], i + 1, id) /\ i + 1 # 1
      BY <1>2, <1>3, <1>6, QueueTypes, TailPlaces
    <2>2. Dropped(c, "responses")
      BY <1>2, <2>1 DEF Dropped, TakenOut, Same, At, HostWork
    <2>3. "responses" \in Stages /\ "responses" \in Sent /\ Sent \subseteq Stages
      BY DEF Stages, Sent
    <2>4. ev.id \in EventId /\ \A id \in EventId : At(c, "responses", 1, id) <=> id = ev.id
      <3>1. ev \in Event /\ responses[c] \in Seq(Response)
        BY <1>6, QueueTypes DEF TypeOK
      <3>2. r = responses[c][1] /\ 1 \in 1..Len(responses[c])
        BY <1>2, <1>6, <3>1, QueueFacts
      <3> QED
        BY <1>1, <3>1, <3>2 DEF At, Answered, Event
    <2>5. Once(c)' /\ Issued(c)'
      BY <1>2, <2>2, <2>3, DroppedKeepsOnce DEF Trip
    <2>6. \A s \in Sent : \A i \in Nat : ~At(c, s, i, ev.id)'
      <3> SUFFICES ASSUME NEW s \in Sent, NEW i \in Nat, At(c, s, i, ev.id)'
                   PROVE  FALSE
        OBVIOUS
      <3>1. At(c, "responses", 1, ev.id) /\ s \in Stages
        BY <2>3, <2>4
      <3>2. CASE s = "responses"
        <4>1. At(c, s, i + 1, ev.id) /\ i + 1 # 1 /\ i + 1 \in Nat
          BY <2>2, <2>4, <3>2 DEF Dropped, TakenOut
        <4> QED
          BY <2>3, <2>4, <3>1, <3>2, <4>1 DEF Trip, Once
      <3>3. CASE s # "responses"
        <4>1. At(c, s, i, ev.id)
          BY <2>2, <2>4, <3>1, <3>3 DEF Dropped, Same
        <4> QED
          BY <2>3, <2>4, <3>1, <3>3, <4>1 DEF Trip, Once
      <3> QED
        BY <3>2, <3>3
    <2>7. Awaited(c)'
      <3>1. \A w \in waiting[c] : \/ w \in waiting'[c]
                                  \/ \A s \in Sent : \A i \in Nat : ~At(c, s, i, w.id)'
        BY <1>3, <1>6, <2>6
      <3> QED
        BY <2>2, <2>3, <3>1, DroppedKeepsAwaited DEF Trip
    <2>8. ASSUME SingleThread
          PROVE  InFlight(c)'
      <3>1. \A w \in waiting'[c] : w \in waiting[c] /\ w.id \in EventId /\ w.id # ev.id
        BY <1>3, <1>6, <2>8 DEF Trip, InFlight, TypeOK, Event
      <3>2. \A w \in waiting'[c] : ~At(c, "responses", 1, w.id)
        BY <2>4, <3>1
      <3> QED
        BY <1>4, <2>2, <2>3, <2>8, <3>1, <3>2, NoPlaceZero, DroppedKeepsInFlight DEF Trip
    <2> QED
      BY <2>5, <2>7, <2>8 DEF Trip
  <1> QED
    BY <1>5, <1>6

\* Packets that are no events and no responses are on nobody's trip.
LEMMA JoinKeepsTrip ==
    ASSUME TypeOK, NEW c \in Clients, Trip(c), NEW d \in Clients,
           RequestDownload(d) \/ HostSendSnapshot(d) \/ HostReceiveFlags(d)
    PROVE  Trip(c)'
  <1>1. UNCHANGED <<next_event_id, stage, pending, batch, waiting, responses, outgoing, flush_end, flushed>>
    BY DEF RequestDownload, HostSendSnapshot, HostReceiveFlags, replicaVars, queueVars, flushVars
  <1>2. SingleThread => flush_end'[c] \in {0, Len(outgoing'[c])}
    BY <1>1 DEF Trip, InFlight
  <1>3. CASE RequestDownload(d)
    <2> DEFINE p == [type |-> "download"]
    <2>1. p \in ClientPacket /\ p.type # "event"
      BY DEF ClientPacket
    <2>2. /\ to_host'[c] = to_host[c] \/ to_host'[c] = Append(to_host[c], p)
          /\ to_client' = to_client
      BY <1>3 DEF RequestDownload, TypeOK
    <2> HIDE DEF p
    <2>3. ASSUME NEW i \in Nat, NEW id \in EventId
          PROVE  EventPacket(to_host'[c], i, id) <=> EventPacket(to_host[c], i, id)
      <3>1. EventPacket(Append(to_host[c], p), i, id) <=> EventPacket(to_host[c], i, id)
        <4>1. to_host[c] \in Seq(ClientPacket)
          BY QueueTypes
        <4> QED
          BY <2>1, <4>1, AppendPlaces
      <3> QED
        BY <2>2, <3>1
    <2>4. Same(c, Stages)
      BY <1>1, <2>2, <2>3 DEF Same, At, HostWork
    <2> QED
      BY <1>1, <1>2, <2>4, SameKeepsTrip
  <1>4. CASE HostSendSnapshot(d) \/ HostReceiveFlags(d)
    <2>1. /\ to_host[d] # <<>> /\ Head(to_host[d]).type # "event"
          /\ to_host' = [to_host EXCEPT ![d] = Tail(@)]
          /\ to_client' = to_client \/ to_client' = [to_client EXCEPT ![d] = Append(@, Snapshot)]
      BY <1>4 DEF HostSendSnapshot, HostReceiveFlags
    <2>2. Snapshot \in ServerPacket /\ Snapshot.type # "response"
      BY DEF Snapshot, ServerPacket, TypeOK, Nodes
    <2>3. /\ to_host'[c] = IF d = c THEN Tail(to_host[c]) ELSE to_host[c]
          /\ to_client'[c] = to_client[c] \/ to_client'[c] = Append(to_client[c], Snapshot)
      BY <2>1 DEF TypeOK
    <2>4. ASSUME NEW i \in Nat, NEW id \in EventId
          PROVE  ResponsePacket(to_client'[c], i, id) <=> ResponsePacket(to_client[c], i, id)
      <3>1. ResponsePacket(Append(to_client[c], Snapshot), i, id) <=>
               ResponsePacket(to_client[c], i, id)
        BY <2>2, QueueTypes, AppendPlaces
      <3> QED
        BY <2>3, <3>1
    <2>5. CASE d # c
      <3>1. Same(c, Stages)
        BY <1>1, <2>3, <2>4, <2>5 DEF Same, At, HostWork
      <3> QED
        BY <1>1, <1>2, <3>1, SameKeepsTrip
    <2>6. CASE d = c
      <3>1. \A i \in Nat : \A id \in EventId :
               EventPacket(to_host'[c], i, id) <=> EventPacket(to_host[c], i + 1, id) /\ i + 1 # 1
        <4>1. to_host[c] \in Seq(ClientPacket) /\ to_host[c] # <<>>
          BY <2>1, <2>6, QueueTypes
        <4>2. to_host'[c] = Tail(to_host[c])
          BY <2>3, <2>6
        <4> QED
          BY <4>1, <4>2, TailPlaces
      <3>2. Dropped(c, "to_host")
        BY <1>1, <2>4, <3>1 DEF Dropped, TakenOut, Same, At, HostWork
      <3>3. \A id : ~At(c, "to_host", 1, id)
        <4>1. Head(to_host[c]) = to_host[c][1]
          BY <2>1, <2>6, QueueTypes, QueueFacts
        <4> QED
          BY <2>1, <2>6, <4>1 DEF At, EventPacket
      <3>4. "to_host" \in Stages
        BY DEF Stages, Sent
      <3>5. Once(c)' /\ Issued(c)'
        BY <1>1, <3>2, <3>4, DroppedKeepsOnce DEF Trip
      <3>6. Awaited(c)'
        BY <1>1, <3>2, <3>4, DroppedKeepsAwaited DEF Trip
      <3>7. SingleThread => InFlight(c)'
        BY <1>1, <1>2, <3>2, <3>3, <3>4, NoPlaceZero, DroppedKeepsInFlight DEF Trip
      <3> QED
        BY <3>5, <3>6, <3>7 DEF Trip
    <2> QED
      BY <2>5, <2>6
  <1> QED
    BY <1>3, <1>4

\* The host queues what a client sent under the client's name.
LEMMA HostReceiveEventKeepsTrip ==
    ASSUME TypeOK, NEW c \in Clients, Trip(c), NEW d \in Clients, HostReceiveEvent(d)
    PROVE  Trip(c)'
  <1> DEFINE p == Head(to_host[d])
             ev == Deserialized(p.event, "CLIENT")
             last == Len(pending[Host]) + 1
  <1>1. /\ to_host[d] # <<>> /\ p.type = "event" /\ ev.caller = d
        /\ pending' = [pending EXCEPT ![Host] = Append(@, ev)]
        /\ to_host' = [to_host EXCEPT ![d] = Tail(@)]
        /\ UNCHANGED <<next_event_id, stage, batch, waiting, responses, outgoing, flush_end, flushed,
                       to_client>>
    BY DEF HostReceiveEvent, replicaVars, flushVars, joinVars
  <1>2. /\ p \in ClientPacket /\ p = to_host[d][1] /\ 1 \in 1..Len(to_host[d])
        /\ ev \in Event /\ ev.id = p.event.id
    <2>1. p \in ClientPacket /\ p = to_host[d][1] /\ 1 \in 1..Len(to_host[d])
      BY <1>1, QueueTypes, QueueFacts
    <2>2. p.event \in Event
      BY <1>1, <2>1 DEF ClientPacket
    <2>3. ev \in Event
      BY <2>2, DeserializedIsEvent DEF Source
    <2>4. ev.id = p.event.id
      BY <2>2 DEF Deserialized, Event
    <2> QED
      BY <2>1, <2>3, <2>4
  <1>3. /\ pending'[Host] = Append(pending[Host], ev) /\ pending'[c] = pending[c]
        /\ to_host'[c] = IF d = c THEN Tail(to_host[c]) ELSE to_host[c]
    BY <1>1, QueueTypes DEF TypeOK
  <1>4. SingleThread => flush_end'[c] \in {0, Len(outgoing'[c])}
    BY <1>1 DEF Trip, InFlight
  <1>5. ASSUME NEW i \in Nat, NEW id \in EventId
        PROVE  /\ Called(c, pending'[Host], i, id) <=>
                     Called(c, pending[Host], i, id) \/ (i = last /\ d = c /\ p.event.id = id)
               /\ ~Called(c, pending[Host], last, id)
    <2>1. pending[Host] \in Seq(Event)
      BY QueueTypes
    <2>2. Called(c, Append(pending[Host], ev), i, id) <=>
             Called(c, pending[Host], i, id) \/ (i = last /\ ev.caller = c /\ ev.id = id)
      BY <1>2, <2>1, AppendPlaces
    <2>3. ~Called(c, pending[Host], last, id)
      BY <2>1, LastPlaceFree
    <2> QED
      BY <1>1, <1>2, <1>3, <2>2, <2>3
  <1>6. CASE d # c
    <2>1. Same(c, Stages)
      BY <1>1, <1>3, <1>5, <1>6 DEF Same, At, HostWork
    <2> QED
      BY <1>1, <1>4, <2>1, SameKeepsTrip
  <1>7. CASE d = c
    <2>1. \A i \in Nat : \A id \in EventId :
             EventPacket(to_host'[c], i, id) <=> EventPacket(to_host[c], i + 1, id) /\ i + 1 # 1
      <3>1. to_host[c] \in Seq(ClientPacket) /\ to_host[c] # <<>>
        BY <1>1, <1>7, QueueTypes
      <3>2. to_host'[c] = Tail(to_host[c])
        BY <1>3, <1>7
      <3> QED
        BY <3>1, <3>2, TailPlaces
    <2>2. \A id \in EventId : EventPacket(to_host[c], 1, id) <=> p.event.id = id
      BY <1>1, <1>2, <1>7 DEF EventPacket
    <2>3. Moved(c, "to_host", 1, 1, "host_pending", last)
      BY <1>1, <1>3, <1>5, <1>7, <2>1, <2>2 DEF Moved, TakenOut, Same, At, HostWork
    <2>4. last \in Nat /\ 1 \in Nat /\ 1 \in {0, 1}
      BY QueueTypes
    <2>5. "to_host" \in Sent /\ "host_pending" \in Sent /\ Sent \subseteq Stages
      BY DEF Stages, Sent
    <2>6. Once(c)' /\ Issued(c)'
      BY <1>1, <2>3, <2>4, <2>5, MovedKeepsOnce DEF Trip
    <2>7. Awaited(c)'
      BY <1>1, <2>3, <2>4, <2>5, MovedKeepsAwaited DEF Trip
    <2>8. SingleThread => InFlight(c)'
      BY <1>1, <1>4, <2>3, <2>4, <2>5, NoPlaceZero, MovedKeepsInFlight DEF Trip
    <2> QED
      BY <2>6, <2>7, <2>8 DEF Trip
  <1> QED
    BY <1>6, <1>7

\* A response waits to be handled; a broadcast or a snapshot is on no trip.
LEMMA ClientReceiveKeepsTrip ==
    ASSUME TypeOK, NEW c \in Clients, Trip(c), NEW d \in Clients, ClientReceive(d)
    PROVE  Trip(c)'
  <1> DEFINE p == Head(to_client[d])
             last == Len(responses[c]) + 1
  <1>1. /\ to_client[d] # <<>>
        /\ to_client' = [to_client EXCEPT ![d] = Tail(@)]
        /\ UNCHANGED <<next_event_id, stage, batch, waiting, outgoing, flush_end, flushed>>
    BY DEF ClientReceive, ClientReceiveSnapshot, ClientReceiveEvent, ClientReceiveResponse,
           replicaVars, queueVars, flushVars, joinVars
  <1>2. p \in ServerPacket /\ p = to_client[d][1] /\ 1 \in 1..Len(to_client[d])
    BY <1>1, QueueTypes, QueueFacts
  <1>3. to_client'[c] = IF d = c THEN Tail(to_client[c]) ELSE to_client[c]
    BY <1>1 DEF TypeOK
  <1>4. SingleThread => flush_end'[c] \in {0, Len(outgoing'[c])}
    BY <1>1 DEF Trip, InFlight
  <1>5. \A i \in Nat : \A id \in EventId : d = c =>
           (ResponsePacket(to_client'[c], i, id) <=> ResponsePacket(to_client[c], i + 1, id) /\ i + 1 # 1)
    <2> SUFFICES ASSUME d = c
                 PROVE  \A i \in Nat : \A id \in EventId :
                           ResponsePacket(to_client'[c], i, id) <=>
                              ResponsePacket(to_client[c], i + 1, id) /\ i + 1 # 1
      OBVIOUS
    <2>1. to_client[c] \in Seq(ServerPacket) /\ to_client[c] # <<>>
      BY <1>1, QueueTypes
    <2>2. to_client'[c] = Tail(to_client[c])
      BY <1>3
    <2> QED
      BY <2>1, <2>2, TailPlaces
  <1>6. \A id \in EventId :
           d = c => (ResponsePacket(to_client[c], 1, id) <=> p.type = "response" /\ p.id = id)
    BY <1>2 DEF ResponsePacket
  <1>7. ASSUME p.type # "response", UNCHANGED responses, pending'[Host] = pending[Host],
               \A i \in Nat : \A id \in EventId :
                  /\ Local(pending'[c], i, id) <=> Local(pending[c], i, id)
                  /\ EventPacket(to_host'[c], i, id) <=> EventPacket(to_host[c], i, id)
        PROVE  Trip(c)'
    <2>1. CASE d # c
      <3>1. Same(c, Stages)
        BY <1>1, <1>3, <1>7, <2>1 DEF Same, At, HostWork
      <3> QED
        BY <1>1, <1>4, <3>1, SameKeepsTrip
    <2>2. CASE d = c
      <3>1. Dropped(c, "to_client")
        BY <1>1, <1>5, <1>7, <2>2 DEF Dropped, TakenOut, Same, At, HostWork
      <3>2. \A id \in EventId : ~At(c, "to_client", 1, id)
        BY <1>6, <1>7, <2>2 DEF At
      <3>3. "to_client" \in Stages
        BY DEF Stages, Sent
      <3>4. Once(c)' /\ Issued(c)'
        BY <1>1, <3>1, <3>3, DroppedKeepsOnce DEF Trip
      <3>5. Awaited(c)'
        BY <1>1, <3>1, <3>3, DroppedKeepsAwaited DEF Trip
      <3>6. SingleThread => InFlight(c)'
        <4>1. \A ev \in waiting'[c] : ~At(c, "to_client", 1, ev.id)
          BY <1>1, <3>2 DEF TypeOK, Event
        <4> QED
          BY <1>1, <1>4, <3>1, <3>3, <4>1, NoPlaceZero, DroppedKeepsInFlight DEF Trip
      <3> QED
        BY <3>4, <3>5, <3>6 DEF Trip
    <2> QED
      BY <2>1, <2>2
  <1>8. CASE ClientReceiveSnapshot(d)
    <2> DEFINE f == [type |-> "flags"]
    <2>1. f \in ClientPacket /\ f.type # "event"
      BY DEF ClientPacket
    <2>2. /\ p.type = "snapshot"
          /\ UNCHANGED <<responses, pending>>
          /\ to_host'[c] = to_host[c] \/ to_host'[c] = Append(to_host[c], f)
      BY <1>8 DEF ClientReceiveSnapshot, queueVars, TypeOK
    <2> HIDE DEF f
    <2>3. ASSUME NEW i \in Nat, NEW id \in EventId
          PROVE  EventPacket(to_host'[c], i, id) <=> EventPacket(to_host[c], i, id)
      <3>1. to_host[c] \in Seq(ClientPacket)
        BY QueueTypes
      <3>2. EventPacket(Append(to_host[c], f), i, id) <=> EventPacket(to_host[c], i, id)
        BY <2>1, <3>1, AppendPlaces
      <3> QED
        BY <2>2, <3>2
    <2> QED
      BY <1>7, <2>2, <2>3
  <1>9. CASE ClientReceiveEvent(d)
    <2> DEFINE ev == Deserialized(p.event, "SERVER")
    <2>1. ev \in Event /\ ev.source # "LOCAL"
      <3>1. p.event \in Event
        BY <1>2, <1>9 DEF ClientReceiveEvent, ServerPacket, Response
      <3> QED
        BY <3>1, DeserializedIsEvent DEF Source, Deserialized, Event
    <2>2. /\ p.type = "event"
          /\ UNCHANGED <<responses, to_host>>
          /\ pending' = [pending EXCEPT ![d] = Append(@, ev)]
      BY <1>9 DEF ClientReceiveEvent
    <2>3. /\ pending'[Host] = pending[Host]
          /\ pending'[c] = pending[c] \/ pending'[c] = Append(pending[c], ev)
      <3>1. d \in Nodes /\ d # Host
        BY QueueTypes
      <3> QED
        BY <2>2, <3>1, QueueTypes DEF TypeOK
    <2> HIDE DEF ev
    <2>4. ASSUME NEW i \in Nat, NEW id \in EventId
          PROVE  Local(pending'[c], i, id) <=> Local(pending[c], i, id)
      <3>1. pending[c] \in Seq(Event)
        BY QueueTypes
      <3>2. Local(Append(pending[c], ev), i, id) <=> Local(pending[c], i, id)
        BY <2>1, <3>1, AppendPlaces
      <3> QED
        BY <2>3, <3>2
    <2> QED
      BY <1>7, <2>2, <2>3, <2>4
  <1>10. CASE ClientReceiveResponse(d)
    <2>1. /\ p.type = "response"
          /\ responses' = [responses EXCEPT ![d] = Append(@, p)]
          /\ UNCHANGED <<pending, to_host>>
      BY <1>10 DEF ClientReceiveResponse
    <2>2. p \in Response
      BY <1>2, <2>1 DEF ServerPacket
    <2>3. responses'[c] = IF d = c THEN Append(responses[c], p) ELSE responses[c]
      BY <2>1 DEF TypeOK
    <2>4. CASE d # c
      <3>1. Same(c, Stages)
        BY <1>1, <1>3, <2>1, <2>3, <2>4 DEF Same, At, HostWork
      <3> QED
        BY <1>1, <1>4, <3>1, SameKeepsTrip
    <2>5. CASE d = c
      <3>1. ASSUME NEW i \in Nat, NEW id \in EventId
            PROVE  /\ Answered(responses'[c], i, id) <=>
                         \/ Answered(responses[c], i, id)
                         \/ i = last /\ ResponsePacket(to_client[c], 1, id)
                   /\ ~Answered(responses[c], last, id)
        <4>1. responses[c] \in Seq(Response)
          BY QueueTypes
        <4>2. Answered(Append(responses[c], p), i, id) <=>
                 Answered(responses[c], i, id) \/ (i = last /\ p.id = id)
          BY <2>2, <4>1, AppendPlaces
        <4>3. ~Answered(responses[c], last, id)
          BY <4>1, LastPlaceFree
        <4> QED
          BY <1>6, <2>1, <2>3, <2>5, <4>2, <4>3
      <3>2. Moved(c, "to_client", 1, 1, "responses", last)
        BY <1>1, <1>5, <2>1, <2>5, <3>1 DEF Moved, TakenOut, Same, At, HostWork
      <3>3. last \in Nat /\ 1 \in Nat /\ 1 \in {0, 1}
        BY QueueTypes
      <3>4. "to_client" \in Sent /\ "responses" \in Sent /\ Sent \subseteq Stages
        BY DEF Stages, Sent
      <3>5. Once(c)' /\ Issued(c)'
        BY <1>1, <3>2, <3>3, <3>4, MovedKeepsOnce DEF Trip
      <3>6. Awaited(c)'
        BY <1>1, <3>2, <3>3, <3>4, MovedKeepsAwaited DEF Trip
      <3>7. SingleThread => InFlight(c)'
        BY <1>1, <1>4, <3>2, <3>3, <3>4, NoPlaceZero, MovedKeepsInFlight DEF Trip
      <3> QED
        BY <3>5, <3>6, <3>7 DEF Trip
    <2> QED
      BY <2>4, <2>5
  <1> QED
    BY <1>8, <1>9, <1>10 DEF ClientReceive

-----------------------------------------------------------------------------
(* The trips of every run *)

\* Nothing is on its way when a client starts.
LEMMA InitTripInv == Init => TripInv
<1> SUFFICES ASSUME Init, NEW c \in Clients
             PROVE  Trip(c)
  BY DEF TripInv
<1>1. /\ pending[c] = <<>> /\ pending[Host] = <<>> /\ batch[c] = <<>> /\ batch[Host] = <<>>
      /\ outgoing[c] = <<>> /\ to_host[c] = <<>> /\ to_client[c] = <<>> /\ responses[c] = <<>>
      /\ waiting[c] = {} /\ flush_end[c] = 0 /\ HostWork = <<>>
  BY DEF Init, Nodes, HostWork
<1>2. \A s, i, id : ~At(c, s, i, id)
  BY <1>1 DEF At, Local, Unsent, EventPacket, Called, ResponsePacket, Answered
<1> QED
  BY <1>1, <1>2 DEF Trip, Once, Issued, Awaited, InFlight

\* Every step of any thread keeps every client's trips.
LEMMA StepTripInv == TypeOK /\ TripInv /\ [Next]_vars => TripInv'
<1> SUFFICES ASSUME TypeOK, TripInv, [Next]_vars, NEW c \in Clients
             PROVE  Trip(c)'
  BY DEF TripInv
<1>1. Trip(c)
  BY DEF TripInv
<1>2. CASE \E n \in Nodes : \E name \in {"complete_turn", "uncomplete_turn"} : Click(n, name)
  BY <1>1, <1>2, ClickKeepsTrip
<1>3. CASE \E n \in Nodes : StartBatch(n)
  BY <1>1, <1>3, StartBatchKeepsTrip
<1>4. CASE \E n \in Nodes : Flush(n)
  BY <1>1, <1>4, SendPendingKeepsTrip, ClearPendingKeepsTrip DEF Flush
<1>5. CASE HostProcess
  BY <1>1, <1>5, HostProcessKeepsTrip
<1>6. CASE \E d \in Clients : RequestDownload(d)
  BY <1>1, <1>6, JoinKeepsTrip
<1>7. CASE \E d \in Clients : ClientProcess(d)
  BY <1>1, <1>7, ClientApplyKeepsTrip, ClientRefuseKeepsTrip DEF ClientProcess
<1>8. CASE \E d \in Clients : HandleResponse(d)
  BY <1>1, <1>8, HandleResponseKeepsTrip
<1>9. CASE \E d \in Clients : HostReceive(d)
  BY <1>1, <1>9, JoinKeepsTrip, HostReceiveEventKeepsTrip DEF HostReceive
<1>10. CASE \E d \in Clients : ClientReceive(d)
  BY <1>1, <1>10, ClientReceiveKeepsTrip
<1>11. CASE UNCHANGED vars
  <2>1. UNCHANGED <<next_event_id, stage, pending, batch, waiting, responses, outgoing, flush_end,
                    flushed, to_host, to_client>>
    BY <1>11 DEF vars, replicaVars, queueVars, flushVars, joinVars, netVars
  <2>2. Same(c, Stages)
    BY <2>1 DEF Same, At, HostWork
  <2> QED
    BY <1>1, <2>1, <2>2, SameKeepsTrip DEF Trip, InFlight
<1> QED
  BY <1>2, <1>3, <1>4, <1>5, <1>6, <1>7, <1>8, <1>9, <1>10, <1>11 DEF Next

\* The trips, with no bound on the number of events under way.
THEOREM TripsInOrder == Spec => []TripInv
<1>1. Init => TripInv
  BY InitTripInv
<1>2. TypeOK /\ TripInv /\ [Next]_vars => TripInv'
  BY StepTripInv
<1> QED
  BY <1>1, <1>2, TypeCorrect, PTL DEF Spec

\* Game.cpp:331's assertion holds of every run: whatever a client clicks while
\* answers, broadcasts and rejections arrive, in one thread or in two, the event
\* a response is about is waiting when the response is handled.
THEOREM ResponsesFindEvents == Spec => []ResponseHasEvent
<1>1. TypeOK /\ TripInv => ResponseHasEvent
  <2> SUFFICES ASSUME TypeOK, TripInv, NEW c \in Clients, NEW i \in 1..Len(responses[c])
               PROVE  \E ev \in waiting[c] : ev.id = responses[c][i].id
    BY DEF ResponseHasEvent
  <2> DEFINE id == responses[c][i].id
  <2>1. i \in Nat /\ id \in EventId
    <3>1. responses[c] \in Seq(Response)
      BY QueueTypes
    <3>2. responses[c][i] \in Response
      BY <3>1
    <3> QED
      BY <3>2 DEF Response
  <2>2. At(c, "responses", i, id)
    BY DEF At, Answered
  <2> QED
    BY <2>1, <2>2 DEF TripInv, Trip, Awaited, Sent
<1> QED
  BY <1>1, TypeCorrect, TripsInOrder, PTL

\* With --single-thread, where a flush and a batch exclude each other, no queue
\* forgets an event whose answer is awaited.
THEOREM AwaitedAreInFlight == Spec => [](SingleThread => AwaitedEventInFlight)
<1>1. TypeOK /\ TripInv => (SingleThread => AwaitedEventInFlight)
  <2> SUFFICES ASSUME TypeOK, TripInv, SingleThread, NEW c \in Clients, NEW ev \in waiting[c]
               PROVE  \/ \E i \in (flushed[c] + 1)..Len(outgoing[c]) : outgoing[c][i].id = ev.id
                      \/ \E i \in 1..Len(to_host[c]) :
                            to_host[c][i].type = "event" /\ to_host[c][i].event.id = ev.id
                      \/ \E i \in 1..Len(pending[Host]) : pending[Host][i].id = ev.id
                      \/ \E i \in 1..Len(batch[Host]) :
                            (stage = "idle" \/ i > 1) /\ batch[Host][i].id = ev.id
                      \/ \E i \in 1..Len(to_client[c]) :
                            to_client[c][i].type = "response" /\ to_client[c][i].id = ev.id
                      \/ \E i \in 1..Len(responses[c]) : responses[c][i].id = ev.id
    BY DEF AwaitedEventInFlight
  <2>1. PICK s \in Sent, i \in Nat : At(c, s, i, ev.id)
    BY DEF TripInv, Trip, InFlight
  <2>2. flushed[c] \in Nat
    BY QueueTypes
  <2>3. i \in 1..Len(outgoing[c]) /\ i > flushed[c] => i \in (flushed[c] + 1)..Len(outgoing[c])
    BY <2>2
  <2>4. CASE s = "host_batch"
    <3>1. i \in 1..Len(HostWork) /\ HostWork[i].id = ev.id
      BY <2>1, <2>4 DEF At, Called
    <3>2. CASE stage = "idle"
      BY <3>1, <3>2 DEF HostWork
    <3>3. CASE stage # "idle"
      <4>1. batch[Host] \in Seq(Event) /\ batch[Host] # <<>> /\ HostWork = Tail(batch[Host])
        BY <3>3, QueueTypes DEF TypeOK, HostWork
      <4>2. i + 1 \in 1..Len(batch[Host]) /\ i + 1 > 1 /\ batch[Host][i + 1].id = ev.id
        BY <3>1, <4>1, QueueFacts
      <4> QED
        BY <4>2
    <3> QED
      BY <3>2, <3>3
  <2> QED
    BY <2>1, <2>3, <2>4 DEF Sent, At, Unsent, EventPacket, Called, ResponsePacket, Answered
<1> QED
  BY <1>1, TypeCorrect, TripsInOrder, PTL
=============================================================================
