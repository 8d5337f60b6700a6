------------------------- MODULE TurnAgreementProofs -------------------------
(***************************************************************************)
(* Proofs about TurnAgreement, for any set of clients, any number of       *)
(* clicks and either thread mode: a client that has no excuse has the turn *)
(* and the completions of the host once nothing is on its way.             *)
(***************************************************************************)
EXTENDS TurnAgreement, TurnOrderProofs

-----------------------------------------------------------------------------
(* Whose events are where *)

\* What e says of a click is what is waited for under its id.
Known(W, e) == \A w \in W : w.id = e.id => w.name = e.name

\* What c is to handle is a click of its own, not waited for yet, or the host's
\* copy of another player's event.
Fresh(W, c, e) ==
    \/ e.source = "LOCAL" /\ e.caller = c /\ \A w \in W : w.id # e.id
    \/ e.source = "SERVER" /\ e.caller # c

FreshIn(W, c, q) == \A i \in 1..Len(q) : Fresh(W, c, q[i])
KnownAfter(W, q, k) == \A i \in 1..Len(q) : i > k => Known(W, q[i])
KnownOf(W, c, q) == \A i \in 1..Len(q) : q[i].caller = c => Known(W, q[i])
KnownPackets(W, q) == \A i \in 1..Len(q) : q[i].type = "event" => Known(W, q[i].event)
OfOthers(c, q) == \A i \in 1..Len(q) : q[i].type = "event" => q[i].event.caller # c
IssuedBy(c, W, id) == \A w \in W : w.source = "LOCAL" /\ w.caller = c /\ w.id[2] <= id
HostsAdvances(q) == \A i \in 1..Len(q) : q[i].name = "advance_turn" => q[i].caller = Host

Identity(c) ==
    /\ IssuedBy(c, waiting[c], next_event_id[c])
    /\ FreshIn(waiting[c], c, pending[c]) /\ FreshIn(waiting[c], c, batch[c])
    /\ KnownAfter(waiting[c], outgoing[c], flushed[c])
    /\ KnownPackets(waiting[c], to_host[c])
    /\ KnownOf(waiting[c], c, pending[Host]) /\ KnownOf(waiting[c], c, HostWork)
    /\ OfOthers(c, to_client[c])
    /\ client_state[c] # "running" => waiting[c] = {} /\ done[c] = {}
    /\ HostsAdvances(outgoing[Host])

IdentityInv == \A c \in Clients : Identity(c)

\* These say something of every element of a queue, so a queue keeps them when
\* it is shortened, and when what is appended has them.
LEMMA AppendIdentity ==
    ASSUME NEW c, NEW W
    PROVE  /\ \A q \in Seq(Event), e \in Event :
                 /\ FreshIn(W, c, q) /\ Fresh(W, c, e) => FreshIn(W, c, Append(q, e))
                 /\ \A k \in Nat : KnownAfter(W, q, k) /\ Known(W, e) => KnownAfter(W, Append(q, e), k)
                 /\ KnownOf(W, c, q) /\ (e.caller = c => Known(W, e)) => KnownOf(W, c, Append(q, e))
                 /\ HostsAdvances(q) /\ (e.name = "advance_turn" => e.caller = Host) =>
                       HostsAdvances(Append(q, e))
           /\ \A q \in Seq(ClientPacket), p \in ClientPacket :
                 KnownPackets(W, q) /\ (p.type = "event" => Known(W, p.event)) =>
                    KnownPackets(W, Append(q, p))
           /\ \A q \in Seq(ServerPacket), p \in ServerPacket :
                 OfOthers(c, q) /\ (p.type = "event" => p.event.caller # c) =>
                    OfOthers(c, Append(q, p))
  <1>1. ASSUME NEW q \in Seq(Event), NEW e \in Event
        PROVE  /\ FreshIn(W, c, q) /\ Fresh(W, c, e) => FreshIn(W, c, Append(q, e))
               /\ \A k \in Nat : KnownAfter(W, q, k) /\ Known(W, e) => KnownAfter(W, Append(q, e), k)
               /\ KnownOf(W, c, q) /\ (e.caller = c => Known(W, e)) => KnownOf(W, c, Append(q, e))
               /\ HostsAdvances(q) /\ (e.name = "advance_turn" => e.caller = Host) =>
                     HostsAdvances(Append(q, e))
    <2>1. \A i \in 1..Len(Append(q, e)) :
             Append(q, e)[i] = e \/ (i \in 1..Len(q) /\ Append(q, e)[i] = q[i])
      BY AppendElements
    <2> QED
      BY <2>1 DEF FreshIn, KnownAfter, KnownOf, HostsAdvances
  <1>2. ASSUME NEW q \in Seq(ClientPacket), NEW p \in ClientPacket
        PROVE  KnownPackets(W, q) /\ (p.type = "event" => Known(W, p.event)) =>
                  KnownPackets(W, Append(q, p))
    <2>1. \A i \in 1..Len(Append(q, p)) :
             Append(q, p)[i] = p \/ (i \in 1..Len(q) /\ Append(q, p)[i] = q[i])
      BY AppendElements
    <2> QED
      BY <2>1 DEF KnownPackets
  <1>3. ASSUME NEW q \in Seq(ServerPacket), NEW p \in ServerPacket
        PROVE  OfOthers(c, q) /\ (p.type = "event" => p.event.caller # c) => OfOthers(c, Append(q, p))
    <2>1. \A i \in 1..Len(Append(q, p)) :
             Append(q, p)[i] = p \/ (i \in 1..Len(q) /\ Append(q, p)[i] = q[i])
      BY AppendElements
    <2> QED
      BY <2>1 DEF OfOthers
  <1> QED
    BY <1>1, <1>2, <1>3

\* Nor does taking the head of a queue change them, and the head is as they say.
LEMMA TailIdentity ==
    ASSUME NEW c, NEW W
    PROVE  /\ \A q \in Seq(Event) : q # <<>> =>
                 /\ FreshIn(W, c, q) => Fresh(W, c, Head(q)) /\ FreshIn(W, c, Tail(q))
                 /\ KnownOf(W, c, q) => (Head(q).caller = c => Known(W, Head(q))) /\ KnownOf(W, c, Tail(q))
           /\ \A q \in Seq(ClientPacket) : q # <<>> =>
                 (KnownPackets(W, q) => /\ Head(q).type = "event" => Known(W, Head(q).event)
                                        /\ KnownPackets(W, Tail(q)))
           /\ \A q \in Seq(ServerPacket) : q # <<>> =>
                 (OfOthers(c, q) => /\ Head(q).type = "event" => Head(q).event.caller # c
                                    /\ OfOthers(c, Tail(q)))
  <1>1. ASSUME NEW q \in Seq(Event), q # <<>>
        PROVE  /\ FreshIn(W, c, q) => Fresh(W, c, Head(q)) /\ FreshIn(W, c, Tail(q))
               /\ KnownOf(W, c, q) => (Head(q).caller = c => Known(W, Head(q))) /\ KnownOf(W, c, Tail(q))
    <2>1. /\ 1 \in 1..Len(q) /\ Head(q) = q[1]
          /\ \A i \in 1..Len(Tail(q)) : i + 1 \in 1..Len(q) /\ Tail(q)[i] = q[i + 1]
      BY <1>1, TailElements
    <2> QED
      BY <2>1 DEF FreshIn, KnownOf
  <1>2. ASSUME NEW q \in Seq(ClientPacket), q # <<>>
        PROVE  KnownPackets(W, q) => /\ Head(q).type = "event" => Known(W, Head(q).event)
                                     /\ KnownPackets(W, Tail(q))
    <2>1. /\ 1 \in 1..Len(q) /\ Head(q) = q[1]
          /\ \A i \in 1..Len(Tail(q)) : i + 1 \in 1..Len(q) /\ Tail(q)[i] = q[i + 1]
      BY <1>2, TailElements
    <2> QED
      BY <2>1 DEF KnownPackets
  <1>3. ASSUME NEW q \in Seq(ServerPacket), q # <<>>
        PROVE  OfOthers(c, q) => /\ Head(q).type = "event" => Head(q).event.caller # c
                                 /\ OfOthers(c, Tail(q))
    <2>1. /\ 1 \in 1..Len(q) /\ Head(q) = q[1]
          /\ \A i \in 1..Len(Tail(q)) : i + 1 \in 1..Len(q) /\ Tail(q)[i] = q[i + 1]
      BY <1>3, TailElements
    <2> QED
      BY <2>1 DEF OfOthers
  <1> QED
    BY <1>1, <1>2, <1>3

\* They ask nothing of an empty queue.
LEMMA EmptyIdentity ==
    ASSUME NEW c, NEW W
    PROVE  /\ FreshIn(W, c, <<>>) /\ KnownOf(W, c, <<>>) /\ KnownPackets(W, <<>>)
           /\ OfOthers(c, <<>>) /\ HostsAdvances(<<>>)
           /\ \A k : KnownAfter(W, <<>>, k)
  BY DEF FreshIn, KnownOf, KnownPackets, OfOthers, HostsAdvances, KnownAfter

\* They ask less when less is waited for.
LEMMA FewerIdentity ==
    ASSUME NEW c, NEW W, NEW V \in SUBSET W
    PROVE  /\ \A q : FreshIn(W, c, q) => FreshIn(V, c, q)
           /\ \A q, k : KnownAfter(W, q, k) => KnownAfter(V, q, k)
           /\ \A q : KnownOf(W, c, q) => KnownOf(V, c, q)
           /\ \A q : KnownPackets(W, q) => KnownPackets(V, q)
           /\ \A id : IssuedBy(c, W, id) => IssuedBy(c, V, id)
  <1>1. \A e : (Fresh(W, c, e) => Fresh(V, c, e)) /\ (Known(W, e) => Known(V, e))
    BY DEF Fresh, Known
  <1> QED
    BY <1>1 DEF FreshIn, KnownAfter, KnownOf, KnownPackets, IssuedBy

\* Nobody has clicked, and nobody waits.
LEMMA InitIdentity == Init => IdentityInv
  <1> SUFFICES ASSUME Init, NEW c \in Clients
               PROVE  Identity(c)
    BY DEF IdentityInv
  <1>1. /\ pending[c] = <<>> /\ pending[Host] = <<>> /\ batch[c] = <<>> /\ batch[Host] = <<>>
        /\ outgoing[c] = <<>> /\ outgoing[Host] = <<>> /\ to_host[c] = <<>> /\ to_client[c] = <<>>
        /\ waiting[c] = {} /\ done[c] = {}
    BY SlotAssumption DEF Init, Nodes
  <1>2. \A id : IssuedBy(c, {}, id)
    BY DEF IssuedBy
  <1>3. HostWork = <<>>
    BY <1>1 DEF Init, HostWork
  <1> QED
    BY <1>1, <1>2, <1>3, EmptyIdentity DEF Identity

\* What the host has still to answer depends on its batch and its stage.
LEMMA SameWork ==
    ASSUME stage' = stage, batch'[Host] = batch[Host]
    PROVE  HostWork' = HostWork
  BY DEF HostWork

\* A click gets an id that nothing waited for has.
LEMMA ClickKeepsIdentity ==
    ASSUME TypeOK, NEW c \in Clients, Identity(c), NEW n \in Nodes,
           NEW name \in {"complete_turn", "uncomplete_turn"}, Click(n, name)
    PROVE  Identity(c)'
  <1> DEFINE e == NewEvent(n, name, 0)
             W == waiting[c]
  <1>0. c \in Nodes /\ Host \in Nodes /\ c # Host /\ pending[c] \in Seq(Event) /\ pending[Host] \in Seq(Event)
    BY WayTypes
  <1>1. /\ e \in Event /\ e.name # "advance_turn" /\ e.caller = n /\ e.source = "LOCAL"
        /\ e.id = <<n, next_event_id[n] + 1>>
    BY <1>0, NewEventIsEvent DEF EventName, NewEvent
  <1>2. /\ pending' = [pending EXCEPT ![n] = Append(@, e)]
        /\ next_event_id' = [next_event_id EXCEPT ![n] = @ + 1]
        /\ UNCHANGED <<done, batch, stage, outgoing, flushed, to_client, to_host, client_state, waiting>>
    BY DEF Click, replicaVars, flushVars, joinVars, netVars
  <1> HIDE DEF e
  <1>3. /\ pending'[c] = IF n = c THEN Append(pending[c], e) ELSE pending[c]
        /\ pending'[Host] = IF n = Host THEN Append(pending[Host], e) ELSE pending[Host]
        /\ next_event_id'[c] = IF n = c THEN next_event_id[c] + 1 ELSE next_event_id[c]
        /\ next_event_id[c] \in Nat
    BY <1>0, <1>2 DEF TypeOK
  <1>4. W \subseteq Event
    BY DEF TypeOK
  <1>5. ASSUME NEW w \in W
        PROVE  w.id[2] \in Nat /\ w.id[2] <= next_event_id[c] /\ w.source = "LOCAL" /\ w.caller = c
    BY <1>4 DEF Event, EventId, Identity, IssuedBy
  <1>6. IssuedBy(c, W, next_event_id'[c])
    <2> SUFFICES ASSUME NEW w \in W
                 PROVE  w.source = "LOCAL" /\ w.caller = c /\ w.id[2] <= next_event_id'[c]
      BY DEF IssuedBy
    <2> QED
      BY <1>3, <1>5
  <1>7. FreshIn(W, c, pending'[c])
    <2>1. n = c => Fresh(W, c, e)
      <3> SUFFICES ASSUME n = c, NEW w \in W
                   PROVE  w.id # e.id
        BY <1>1 DEF Fresh
      <3> QED
        BY <1>1, <1>3, <1>5
    <2>2. FreshIn(W, c, pending[c])
      BY DEF Identity
    <2>3. n = c => FreshIn(W, c, Append(pending[c], e))
      BY <1>0, <1>1, <2>1, <2>2, AppendIdentity
    <2> QED
      BY <1>3, <2>2, <2>3
  <1>8. KnownOf(W, c, pending'[Host])
    <2>1. n = Host => e.caller # c
      BY <1>0, <1>1
    <2>2. KnownOf(W, c, pending[Host])
      BY DEF Identity
    <2>3. n = Host => KnownOf(W, c, Append(pending[Host], e))
      BY <1>0, <1>1, <2>1, <2>2, AppendIdentity
    <2> QED
      BY <1>3, <2>2, <2>3
  <1>9. HostWork' = HostWork
    BY <1>2, SameWork
  <1> QED
    BY <1>2, <1>6, <1>7, <1>8, <1>9 DEF Identity

\* Swapping m_pending_events out moves a queue as a whole.
LEMMA StartBatchKeepsIdentity ==
    ASSUME TypeOK, NEW c \in Clients, Identity(c), NEW n \in Nodes, StartBatch(n)
    PROVE  Identity(c)'
  <1>0. c \in Nodes /\ Host \in Nodes /\ c # Host
    BY WayTypes
  <1>1. /\ pending' = [pending EXCEPT ![n] = <<>>] /\ batch' = [batch EXCEPT ![n] = pending[n]]
        /\ batch[n] = <<>>
        /\ UNCHANGED <<done, stage, outgoing, flushed, to_client, to_host, client_state, waiting, next_event_id>>
    BY DEF StartBatch, MainIdle, replicaVars, flushVars, joinVars, netVars
  <1>2. /\ pending'[c] = IF n = c THEN <<>> ELSE pending[c]
        /\ pending'[Host] = IF n = Host THEN <<>> ELSE pending[Host]
        /\ batch'[c] = IF n = c THEN pending[c] ELSE batch[c]
        /\ batch'[Host] = IF n = Host THEN pending[Host] ELSE batch[Host]
    BY <1>0, <1>1 DEF TypeOK
  <1>3. HostWork' = IF n = Host THEN pending[Host] ELSE HostWork
    <2>1. n = Host => stage = "idle"
      BY <1>1 DEF TypeOK
    <2> QED
      BY <1>1, <1>2, <2>1 DEF HostWork
  <1> QED
    BY <1>1, <1>2, <1>3, EmptyIdentity DEF Identity

\* A flush hands c what others did, and the host what c did.
LEMMA FlushKeepsIdentity ==
    ASSUME TypeOK, NEW c \in Clients, Identity(c), NEW n \in Nodes, Flush(n)
    PROVE  Identity(c)'
  <1>0. /\ c \in Nodes /\ Host \in Nodes /\ c # Host
        /\ to_host[c] \in Seq(ClientPacket) /\ to_client[c] \in Seq(ServerPacket)
        /\ outgoing[c] \in Seq(Event)
    BY WayTypes
  <1>1. UNCHANGED <<done, pending, batch, client_state, waiting, next_event_id>> /\ HostWork' = HostWork
    <2>1. UNCHANGED <<done, pending, batch, stage, client_state, waiting, next_event_id>>
      BY DEF Flush, SendPending, ClearPending, replicaVars, queueVars, joinVars
    <2> QED
      BY <2>1, SameWork
  <1>2. CASE SendPending(n)
    <2> DEFINE ev == outgoing[n][flushed[n] + 1]
               p == [type |-> "event", event |-> ev]
    <2>1. ev \in Event /\ flushed[n] \in Nat /\ flushed[n] + 1 \in 1..Len(outgoing[n])
      BY <1>2, SentIsQueued
    <2>2. p \in ServerPacket /\ p \in ClientPacket /\ p.type = "event" /\ p.event = ev
      BY <2>1 DEF ServerPacket, ClientPacket
    <2>3. /\ outgoing' = outgoing /\ flushed' = [flushed EXCEPT ![n] = @ + 1]
          /\ to_client'[c] = to_client[c]
                \/ (n = Host /\ ev.caller # c /\ to_client'[c] = Append(to_client[c], p))
          /\ to_host'[c] = IF n = c THEN Append(to_host[c], p) ELSE to_host[c]
      <3>1. CASE n = Host
        BY <1>0, <1>2, <3>1 DEF SendPending, IsSentTo
      <3>2. CASE n # Host
        BY <1>0, <1>2, <3>2 DEF SendPending, TypeOK
      <3> QED
        BY <3>1, <3>2
    <2> HIDE DEF p
    <2>4. OfOthers(c, to_client'[c])
      BY <1>0, <2>2, <2>3, AppendIdentity DEF Identity
    <2>5. KnownPackets(waiting[c], to_host'[c])
      <3>1. n = c => Known(waiting[c], ev)
        BY <2>1 DEF Identity, KnownAfter
      <3> QED
        BY <1>0, <2>2, <2>3, <3>1, AppendIdentity DEF Identity
    <2>6. KnownAfter(waiting[c], outgoing[c], flushed'[c])
      <3>1. flushed'[c] = IF n = c THEN flushed[c] + 1 ELSE flushed[c]
        BY <1>0, <2>3 DEF TypeOK
      <3>2. flushed[c] \in Nat
        BY <1>0 DEF TypeOK
      <3>3. \A i \in 1..Len(outgoing[c]) : i > flushed'[c] => i > flushed[c]
        BY <3>1, <3>2
      <3> QED
        BY <3>3 DEF Identity, KnownAfter
    <2> QED
      BY <1>1, <2>3, <2>4, <2>5, <2>6 DEF Identity
  <1>3. CASE ClearPending(n)
    <2>1. /\ UNCHANGED <<to_host, to_client>>
          /\ outgoing'[c] = IF n = c THEN <<>> ELSE outgoing[c]
          /\ flushed'[c] = IF n = c THEN 0 ELSE flushed[c]
          /\ outgoing'[Host] = IF n = Host THEN <<>> ELSE outgoing[Host]
      BY <1>0, <1>3 DEF ClearPending, TypeOK, netVars
    <2> QED
      BY <1>1, <2>1, EmptyIdentity DEF Identity
  <1> QED
    BY <1>2, <1>3 DEF Flush

\* The host answers c, and queues events of its own.
LEMMA HostProcessKeepsIdentity ==
    ASSUME TypeOK, HostQueueInv, NEW c \in Clients, Identity(c), HostProcess
    PROVE  Identity(c)'
  <1>0. /\ c \in Nodes /\ Host \in Nodes /\ c # Host
        /\ pending[Host] \in Seq(Event) /\ batch[Host] \in Seq(Event) /\ outgoing[Host] \in Seq(Event)
        /\ to_client[c] \in Seq(ServerPacket) /\ turn[Host] \in Nat
    BY WayTypes
  <1>1. /\ batch[Host] # <<>>
        /\ pending'[c] = pending[c] /\ batch'[c] = batch[c] /\ outgoing'[c] = outgoing[c]
        /\ UNCHANGED <<waiting, flushed, client_state, to_host>>
        /\ \/ to_client'[c] = to_client[c]
           \/ \E r \in Response : to_client'[c] = Append(to_client[c], r)
    BY HostProcessFrame DEF joinVars
  <1>2. done'[c] = done[c] /\ next_event_id'[c] = next_event_id[c]
    <2>1. CASE HostApply
      BY <1>0, <2>1 DEF HostApply, Apply, RaiseAdvance, TypeOK
    <2>2. CASE HostAnswer \/ HostBroadcast \/ HostReject
      BY <2>2 DEF HostAnswer, HostBroadcast, HostReject, replicaVars
    <2> QED
      BY <2>1, <2>2 DEF HostProcess
  <1>3. OfOthers(c, to_client'[c])
    <2>1. ASSUME NEW r \in Response
          PROVE  OfOthers(c, Append(to_client[c], r))
      <3>1. r \in ServerPacket /\ r.type = "response"
        BY DEF ServerPacket, Response
      <3> QED
        BY <1>0, <3>1, AppendIdentity DEF Identity
    <2> QED
      BY <1>1, <2>1 DEF Identity
  <1>4. KnownOf(waiting[c], c, HostWork')
    <2>1. HostWork' = HostWork \/ (HostWork' = Tail(HostWork) /\ HostWork # <<>>)
      <3>1. CASE stage = "idle"
        <4>1. /\ HostWork = batch[Host]
              /\ \/ stage' # "idle" /\ batch' = batch
                 \/ stage' = "idle" /\ batch' = [batch EXCEPT ![Host] = Tail(@)]
          BY <3>1 DEF HostProcess, HostAnswer, HostBroadcast, HostApply, HostReject, HostWork
        <4>2. HostWork' = Tail(batch[Host])
          BY <1>0, <4>1 DEF HostWork, TypeOK
        <4> QED
          BY <1>1, <4>1, <4>2
      <3>2. CASE stage # "idle"
        <4>1. /\ HostWork = Tail(batch[Host])
              /\ \/ stage' # "idle" /\ batch' = batch
                 \/ stage' = "idle" /\ batch' = [batch EXCEPT ![Host] = Tail(@)]
          BY <3>2 DEF HostProcess, HostAnswer, HostBroadcast, HostApply, HostReject, HostWork
        <4>2. HostWork' = Tail(batch[Host])
          BY <1>0, <4>1 DEF HostWork, TypeOK
        <4> QED
          BY <4>1, <4>2
      <3> QED
        BY <3>1, <3>2
    <2>2. KnownOf(waiting[c], c, HostWork) /\ HostWork \in Seq(Event)
      BY QueueTypes DEF Identity
    <2> QED
      BY <2>1, <2>2, TailIdentity
  <1>5. KnownOf(waiting[c], c, pending'[Host])
    <2>1. CASE HostApply
      <3> DEFINE e == NewEvent(Host, "advance_turn", turn[Host] + 1)
      <3>1. e \in Event /\ e.caller = Host
        <4>1. turn[Host] + 1 \in Nat /\ "advance_turn" \in EventName
          BY <1>0 DEF EventName
        <4> QED
          BY <1>0, <4>1, NewEventIsEvent DEF NewEvent
      <3>2. pending'[Host] = pending[Host] \/ pending'[Host] = Append(pending[Host], e)
        <4>1. \/ pending' = pending
              \/ pending' = [pending EXCEPT ![Host] = Append(@, e)]
          BY <2>1 DEF HostApply, RaiseAdvance
        <4>2. DOMAIN pending = Nodes
          BY DEF TypeOK
        <4> HIDE DEF e
        <4> QED
          BY <1>0, <4>1, <4>2
      <3> HIDE DEF e
      <3>3. KnownOf(waiting[c], c, pending[Host])
        BY DEF Identity
      <3>4. KnownOf(waiting[c], c, Append(pending[Host], e))
        BY <1>0, <3>1, <3>3, AppendIdentity
      <3> QED
        BY <3>2, <3>3, <3>4
    <2>2. CASE HostAnswer \/ HostBroadcast \/ HostReject
      BY <2>2 DEF HostAnswer, HostBroadcast, HostReject, Identity
    <2> QED
      BY <2>1, <2>2 DEF HostProcess
  <1>6. HostsAdvances(outgoing'[Host])
    <2>1. CASE HostBroadcast
      <3> DEFINE ev == batch[Host][1]
      <3>1. ev \in Event /\ outgoing'[Host] = Append(outgoing[Host], ev) /\ Validate(Host, ev)
        <4>1. ev \in Event /\ Head(batch[Host]) = ev
          BY <1>0, <1>1, TailElements
        <4> QED
          BY <1>0, <2>1, <4>1 DEF HostBroadcast, Broadcast, HostQueueInv, TypeOK
      <3>2. ev.name = "advance_turn" => ev.caller = Host
        BY <3>1 DEF Validate
      <3> QED
        BY <1>0, <3>1, <3>2, AppendIdentity DEF Identity
    <2>2. CASE HostAnswer \/ HostApply \/ HostReject
      BY <2>2 DEF HostAnswer, HostApply, HostReject, flushVars, Identity
    <2> QED
      BY <2>1, <2>2 DEF HostProcess
  <1> QED
    BY <1>1, <1>2, <1>3, <1>4, <1>5, <1>6 DEF Identity


\* The click at the head of c's batch is nowhere else.
LEMMA LocalElsewhere ==
    ASSUME TypeOK, NEW c \in Clients, Once(c), batch[c] # <<>>, batch[c][1].source = "LOCAL",
           NEW x, x = batch[c][1].id
    PROVE  /\ \A i \in 1..Len(pending[c]) : pending[c][i].source = "LOCAL" => pending[c][i].id # x
           /\ \A i \in 1..Len(batch[c]) : i # 1 /\ batch[c][i].source = "LOCAL" => batch[c][i].id # x
           /\ \A i \in 1..Len(outgoing[c]) : i > flushed[c] => outgoing[c][i].id # x
           /\ \A i \in 1..Len(to_host[c]) : to_host[c][i].type = "event" => to_host[c][i].event.id # x
           /\ \A i \in 1..Len(pending[Host]) : pending[Host][i].caller = c => pending[Host][i].id # x
           /\ \A i \in 1..Len(HostWork) : HostWork[i].caller = c => HostWork[i].id # x
           /\ \A i \in 1..Len(to_client[c]) : to_client[c][i].type = "response" => to_client[c][i].id # x
           /\ \A i \in 1..Len(responses[c]) : responses[c][i].id # x
  <1>1. 1 \in 1..Len(batch[c]) /\ batch[c][1] \in Event
    BY TailElements, WayTypes
  <1>2. x \in EventId /\ At(c, "batch", 1, x)
    BY <1>1 DEF Event, At, Local
  <1>3. \A s \in Stages : \A i \in Nat : At(c, s, i, x) => s = "batch" /\ i = 1
    <2>1. "batch" \in Stages /\ 1 \in Nat
      BY DEF Stages
    <2> QED
      BY <1>2, <2>1 DEF Once
  <1>4. /\ {"pending", "batch", "outgoing", "to_host", "host_pending", "host_batch", "to_client",
            "responses"} \subseteq Stages
        /\ \A q : \A i \in 1..Len(q) : i \in Nat
    BY DEF Stages, Sent
  <1>5. \A i \in 1..Len(pending[c]) : pending[c][i].source = "LOCAL" => pending[c][i].id # x
    BY <1>3, <1>4 DEF At, Local
  <1>6. \A i \in 1..Len(batch[c]) : i # 1 /\ batch[c][i].source = "LOCAL" => batch[c][i].id # x
    BY <1>3, <1>4 DEF At, Local
  <1>7. \A i \in 1..Len(outgoing[c]) : i > flushed[c] => outgoing[c][i].id # x
    BY <1>3, <1>4 DEF At, Unsent
  <1>8. \A i \in 1..Len(to_host[c]) : to_host[c][i].type = "event" => to_host[c][i].event.id # x
    BY <1>3, <1>4 DEF At, EventPacket
  <1>9. /\ \A i \in 1..Len(pending[Host]) : pending[Host][i].caller = c => pending[Host][i].id # x
        /\ \A i \in 1..Len(HostWork) : HostWork[i].caller = c => HostWork[i].id # x
    BY <1>3, <1>4 DEF At, Called
  <1>10. \A i \in 1..Len(to_client[c]) : to_client[c][i].type = "response" => to_client[c][i].id # x
    BY <1>3, <1>4 DEF At, ResponsePacket
  <1>11. \A i \in 1..Len(responses[c]) : responses[c][i].id # x
    BY <1>3, <1>4 DEF At, Answered
  <1> QED
    BY <1>5, <1>6, <1>7, <1>8, <1>9, <1>10, <1>11

\* What c handles next is a click of its own or another's event.
LEMMA HeadIsFresh ==
    ASSUME TypeOK, NEW c \in Clients, Identity(c), batch[c] # <<>>
    PROVE  /\ batch[c][1] \in Event /\ Head(batch[c]) = batch[c][1]
           /\ Fresh(waiting[c], c, batch[c][1])
           /\ FreshIn(waiting[c], c, Tail(batch[c]))
  <1>1. FreshIn(waiting[c], c, batch[c]) /\ batch[c] \in Seq(Event)
    BY WayTypes DEF Identity
  <1>2. Head(batch[c]) = batch[c][1] /\ batch[c][1] \in Event
    BY <1>1, TailElements
  <1>3. Fresh(waiting[c], c, Head(batch[c])) /\ FreshIn(waiting[c], c, Tail(batch[c]))
    BY <1>1, TailIdentity
  <1> QED
    BY <1>2, <1>3

\* c applies its click, and waits for it from now on.
LEMMA ApplyLocalKeepsIdentity ==
    ASSUME TypeOK, JoinInv, NEW c \in Clients, Trip(c), Identity(c), ClientApply(c),
           batch[c][1].source = "LOCAL"
    PROVE  Identity(c)'
  <1> DEFINE ev == batch[c][1]
             W == waiting[c]
             V == waiting[c] \cup {ev}
  <1>1. batch[c] # <<>> /\ Head(batch[c]) = ev /\ ev \in Event /\ Fresh(W, c, ev) /\ FreshIn(W, c, Tail(batch[c]))
    BY HeadIsFresh DEF ClientApply, MainInBatch
  <1>2. /\ waiting'[c] = V /\ batch'[c] = Tail(batch[c]) /\ batch'[Host] = batch[Host]
        /\ outgoing'[c] = Append(outgoing[c], ev) /\ outgoing'[Host] = outgoing[Host]
        /\ HostWork' = HostWork
        /\ UNCHANGED <<pending, flushed, to_client, to_host, client_state, next_event_id>>
    <2>1. /\ batch' = [batch EXCEPT ![c] = Tail(@)]
          /\ waiting' = [waiting EXCEPT ![c] = @ \cup {ev}]
          /\ outgoing' = [outgoing EXCEPT ![c] = Append(@, ev)]
          /\ UNCHANGED <<pending, stage, flushed, to_client, to_host, client_state, next_event_id>>
      BY <1>1 DEF ClientApply, StoreAndSend, joinVars, netVars
    <2>2. batch'[Host] = batch[Host]
      BY <2>1, WayTypes DEF TypeOK
    <2> QED
      BY <2>1, <2>2, SameWork, WayTypes DEF TypeOK
  <1>3. client_state[c] = "running"
    BY <1>1 DEF JoinInv, Joining, Idle
  <1>4. ev.caller = c /\ \A w \in W : w.id # ev.id
    BY <1>1 DEF Fresh
  <1>5. /\ \A e : Known(W, e) /\ e.id # ev.id => Known(V, e)
        /\ Known(V, ev)
        /\ \A e : Fresh(W, c, e) /\ (e.source = "LOCAL" => e.id # ev.id) => Fresh(V, c, e)
    BY <1>4 DEF Known, Fresh
  <1>6. IssuedBy(c, V, next_event_id[c])
    <2>1. ev.id[2] <= next_event_id[c]
      <3>1. 1 \in 1..Len(batch[c]) /\ 1 \in Nat /\ "batch" \in Stages /\ ev.id \in EventId
        BY <1>1, TailElements, WayTypes DEF Stages, Event
      <3>2. At(c, "batch", 1, ev.id)
        BY <3>1 DEF At, Local
      <3> QED
        BY <3>1, <3>2 DEF Trip, Issued
    <2> QED
      BY <1>4, <2>1 DEF Identity, IssuedBy
  <1>7. /\ \A i \in 1..Len(pending[c]) : pending[c][i].source = "LOCAL" => pending[c][i].id # ev.id
        /\ \A i \in 1..Len(batch[c]) : i # 1 /\ batch[c][i].source = "LOCAL" => batch[c][i].id # ev.id
        /\ \A i \in 1..Len(outgoing[c]) : i > flushed[c] => outgoing[c][i].id # ev.id
        /\ \A i \in 1..Len(to_host[c]) : to_host[c][i].type = "event" => to_host[c][i].event.id # ev.id
        /\ \A i \in 1..Len(pending[Host]) : pending[Host][i].caller = c => pending[Host][i].id # ev.id
        /\ \A i \in 1..Len(HostWork) : HostWork[i].caller = c => HostWork[i].id # ev.id
    BY <1>1, LocalElsewhere DEF Trip
  <1> HIDE DEF ev, V
  <1>8. FreshIn(V, c, pending[c])
    BY <1>5, <1>7 DEF Identity, FreshIn
  <1>9. FreshIn(V, c, Tail(batch[c]))
    <2>1. \A i \in 1..Len(Tail(batch[c])) :
             i + 1 # 1 /\ i + 1 \in 1..Len(batch[c]) /\ Tail(batch[c])[i] = batch[c][i + 1]
      BY <1>1, TailElements, WayTypes
    <2> QED
      BY <1>1, <1>5, <1>7, <2>1 DEF FreshIn
  <1>10. KnownAfter(V, Append(outgoing[c], ev), flushed[c])
    <2>1. KnownAfter(V, outgoing[c], flushed[c])
      BY <1>5, <1>7 DEF Identity, KnownAfter
    <2>2. outgoing[c] \in Seq(Event) /\ c \in Nodes /\ flushed[c] \in Nat
      BY WayTypes DEF TypeOK
    <2> QED
      BY <1>1, <1>5, <2>1, <2>2, AppendIdentity
  <1>11. KnownPackets(V, to_host[c])
    BY <1>5, <1>7 DEF Identity, KnownPackets
  <1>12. KnownOf(V, c, pending[Host]) /\ KnownOf(V, c, HostWork)
    BY <1>5, <1>7 DEF Identity, KnownOf
  <1> QED
    BY <1>2, <1>3, <1>6, <1>8, <1>9, <1>10, <1>11, <1>12 DEF Identity

\* Anything else it handles it waits for no longer, or never did.
LEMMA ClientMainKeepsIdentity ==
    ASSUME TypeOK, JoinInv, NEW c \in Clients, Trip(c), Identity(c),
           ClientProcess(c) \/ HandleResponse(c)
    PROVE  Identity(c)'
  <1>0. c \in Nodes /\ Host \in Nodes /\ c # Host /\ batch[c] \in Seq(Event)
    BY WayTypes
  <1>1. CASE ClientApply(c) /\ batch[c][1].source = "LOCAL"
    BY <1>1, ApplyLocalKeepsIdentity
  <1>2. CASE \/ ClientApply(c) /\ batch[c][1].source # "LOCAL"
             \/ ClientRefuse(c)
    <2>1. batch[c] # <<>>
      BY <1>2 DEF ClientApply, ClientRefuse, MainInBatch
    <2>2. Head(batch[c]) = batch[c][1] /\ FreshIn(waiting[c], c, Tail(batch[c]))
      BY <2>1, HeadIsFresh
    <2>3. /\ batch'[c] = Tail(batch[c]) /\ batch'[Host] = batch[Host]
          /\ UNCHANGED <<waiting, outgoing, pending, flushed, to_client, to_host, client_state, next_event_id>>
      BY <1>0, <1>2, <2>2 DEF ClientApply, ClientRefuse, TypeOK, joinVars, netVars, flushVars
    <2>4. client_state[c] = "running"
      BY <2>1 DEF JoinInv, Joining, Idle
    <2>5. HostWork' = HostWork
      BY <1>2, <2>3, SameWork DEF ClientApply, ClientRefuse
    <2> QED
      BY <2>2, <2>3, <2>4, <2>5 DEF Identity
  <1>3. CASE HandleResponse(c)
    <2>1. /\ UNCHANGED <<batch, stage, outgoing, pending, flushed, to_client, to_host, client_state, next_event_id>>
          /\ waiting'[c] \in SUBSET waiting[c]
      BY <1>3 DEF HandleResponse, TypeOK, joinVars, netVars, flushVars
    <2>2. client_state[c] = "running"
      BY <1>3 DEF HandleResponse, JoinInv, Joining, Idle
    <2>3. /\ IssuedBy(c, waiting'[c], next_event_id[c])
          /\ FreshIn(waiting'[c], c, pending[c]) /\ FreshIn(waiting'[c], c, batch[c])
          /\ KnownAfter(waiting'[c], outgoing[c], flushed[c])
          /\ KnownPackets(waiting'[c], to_host[c])
          /\ KnownOf(waiting'[c], c, pending[Host]) /\ KnownOf(waiting'[c], c, HostWork)
      BY <2>1, FewerIdentity DEF Identity
    <2>4. HostWork' = HostWork
      BY <2>1, SameWork
    <2> QED
      BY <2>1, <2>2, <2>3, <2>4 DEF Identity
  <1> QED
    BY <1>1, <1>2, <1>3 DEF ClientProcess


\* A snapshot for c is no event, and what the host receives of c is c's.
LEMMA HostReceiveKeepsIdentity ==
    ASSUME TypeOK, NEW c \in Clients, Identity(c), NEW d \in Clients,
           RequestDownload(d) \/ HostReceive(d)
    PROVE  Identity(c)'
  <1>0. /\ c \in Nodes /\ Host \in Nodes /\ c # Host /\ d # Host
        /\ to_host[c] \in Seq(ClientPacket) /\ to_host[d] \in Seq(ClientPacket)
        /\ to_client[c] \in Seq(ServerPacket) /\ pending[Host] \in Seq(Event)
    BY WayTypes
  <1>1. UNCHANGED <<waiting, done, next_event_id, batch, stage, outgoing, flushed>>
    BY DEF RequestDownload, HostReceive, HostSendSnapshot, HostReceiveFlags, HostReceiveEvent,
           replicaVars, queueVars, flushVars
  <1>2. client_state[c] = "running" => client_state'[c] = "running"
    BY DEF RequestDownload, HostReceive, HostSendSnapshot, HostReceiveFlags, HostReceiveEvent,
           joinVars, TypeOK
  <1>3. client_state'[c] = "running" => client_state[c] = "running"
    BY DEF RequestDownload, HostReceive, HostSendSnapshot, HostReceiveFlags, HostReceiveEvent,
           joinVars, TypeOK
  <1>4. OfOthers(c, to_client'[c])
    <2>1. CASE HostSendSnapshot(d)
      <3>1. Snapshot \in ServerPacket /\ Snapshot.type = "snapshot"
        BY <1>0 DEF Snapshot, ServerPacket, TypeOK
      <3>2. to_client'[c] = to_client[c] \/ to_client'[c] = Append(to_client[c], Snapshot)
        BY <2>1 DEF HostSendSnapshot, TypeOK
      <3>3. OfOthers(c, to_client[c])
        BY DEF Identity
      <3>4. OfOthers(c, Append(to_client[c], Snapshot))
        BY <1>0, <3>1, <3>3, AppendIdentity
      <3> QED
        BY <3>2, <3>3, <3>4
    <2>2. CASE ~HostSendSnapshot(d)
      BY <2>2 DEF RequestDownload, HostReceive, HostReceiveFlags, HostReceiveEvent, Identity
    <2> QED
      BY <2>1, <2>2
  <1>5. KnownPackets(waiting[c], to_host'[c])
    <2>1. KnownPackets(waiting[c], to_host[c])
      BY DEF Identity
    <2>2. CASE RequestDownload(d)
      <3> DEFINE p == [type |-> "download"]
      <3>1. p \in ClientPacket /\ p.type = "download"
        BY DEF ClientPacket
      <3>2. to_host'[c] = to_host[c] \/ to_host'[c] = Append(to_host[c], p)
        BY <2>2 DEF RequestDownload, TypeOK
      <3> HIDE DEF p
      <3>3. KnownPackets(waiting[c], Append(to_host[c], p))
        BY <1>0, <2>1, <3>1, AppendIdentity
      <3> QED
        BY <2>1, <3>2, <3>3
    <2>3. CASE HostReceive(d)
      <3>1. /\ to_host[d] # <<>>
            /\ to_host'[c] = IF d = c THEN Tail(to_host[c]) ELSE to_host[c]
        BY <2>3 DEF HostReceive, HostSendSnapshot, HostReceiveFlags, HostReceiveEvent, TypeOK
      <3>2. to_host[c] # <<>> => KnownPackets(waiting[c], Tail(to_host[c]))
        BY <1>0, <2>1, TailIdentity
      <3> QED
        BY <2>1, <3>1, <3>2
    <2> QED
      BY <2>2, <2>3
  <1>6. pending'[c] = pending[c] /\ KnownOf(waiting[c], c, pending'[Host])
    <2>1. CASE HostReceiveEvent(d)
      <3> DEFINE p == Head(to_host[d])
                 ev == Deserialized(p.event, "CLIENT")
      <3>1. to_host[d] # <<>> /\ p.type = "event" /\ p \in ClientPacket
        BY <1>0, <2>1, TailElements DEF HostReceiveEvent
      <3>2. p.event \in Event
        BY <3>1 DEF ClientPacket
      <3>3. ev \in Event
        BY <3>2, DeserializedIsEvent DEF Source
      <3>4. ev.id = p.event.id /\ ev.name = p.event.name /\ ev.caller = p.event.caller
        BY <3>2 DEF Deserialized, Event
      <3>5. ev.caller = d /\ pending' = [pending EXCEPT ![Host] = Append(@, ev)]
        BY <2>1 DEF HostReceiveEvent
      <3> HIDE DEF ev
      <3>6. ev.caller = c => Known(waiting[c], ev)
        <4>1. KnownPackets(waiting[c], to_host[c])
          BY DEF Identity
        <4>2. d = c => Known(waiting[c], p.event)
          BY <1>0, <3>1, <4>1, TailIdentity
        <4> QED
          BY <3>4, <3>5, <4>2 DEF Known
      <3>7. KnownOf(waiting[c], c, pending[Host])
        BY DEF Identity
      <3>8. KnownOf(waiting[c], c, Append(pending[Host], ev))
        BY <1>0, <3>3, <3>6, <3>7, AppendIdentity
      <3> QED
        BY <1>0, <3>5, <3>8 DEF TypeOK
    <2>2. CASE ~HostReceiveEvent(d)
      BY <2>2 DEF RequestDownload, HostReceive, HostSendSnapshot, HostReceiveFlags, queueVars, Identity
    <2> QED
      BY <2>1, <2>2
  <1>7. HostWork' = HostWork
    BY <1>1, SameWork
  <1> QED
    BY <1>1, <1>2, <1>3, <1>4, <1>5, <1>6, <1>7 DEF Identity

\* A broadcast that c receives is of another player's event.
LEMMA ClientReceiveKeepsIdentity ==
    ASSUME TypeOK, NEW c \in Clients, Identity(c), ClientReceive(c)
    PROVE  Identity(c)'
  <1>0. /\ c \in Nodes /\ Host \in Nodes /\ c # Host
        /\ to_host[c] \in Seq(ClientPacket) /\ to_client[c] \in Seq(ServerPacket)
        /\ pending[c] \in Seq(Event)
    BY WayTypes
  <1>1. UNCHANGED <<waiting, next_event_id, batch, stage, outgoing, flushed>>
    BY DEF ClientReceive, ClientReceiveSnapshot, ClientReceiveEvent, ClientReceiveResponse,
           queueVars, flushVars
  <1>2. to_client[c] # <<>> /\ to_client'[c] = Tail(to_client[c])
    BY DEF ClientReceive, ClientReceiveSnapshot, ClientReceiveEvent, ClientReceiveResponse, TypeOK
  <1>3. client_state'[c] # "running" => client_state[c] # "running" /\ done'[c] = done[c]
    BY <1>0 DEF ClientReceive, ClientReceiveSnapshot, ClientReceiveEvent, ClientReceiveResponse, TypeOK,
           joinVars, replicaVars
  <1>4. OfOthers(c, to_client[c])
    BY DEF Identity
  <1>5. /\ OfOthers(c, Tail(to_client[c]))
        /\ Head(to_client[c]).type = "event" => Head(to_client[c]).event.caller # c
    BY <1>0, <1>2, <1>4, TailIdentity
  <1>6. KnownPackets(waiting[c], to_host'[c])
    <2> DEFINE p == [type |-> "flags"]
    <2>1. p \in ClientPacket /\ p.type = "flags"
      BY DEF ClientPacket
    <2>2. to_host'[c] = to_host[c] \/ to_host'[c] = Append(to_host[c], p)
      BY DEF ClientReceive, ClientReceiveSnapshot, ClientReceiveEvent, ClientReceiveResponse, TypeOK
    <2> HIDE DEF p
    <2>3. KnownPackets(waiting[c], to_host[c])
      BY DEF Identity
    <2>4. KnownPackets(waiting[c], Append(to_host[c], p))
      BY <1>0, <2>1, <2>3, AppendIdentity
    <2> QED
      BY <2>2, <2>3, <2>4
  <1>7. pending'[Host] = pending[Host] /\ FreshIn(waiting[c], c, pending'[c])
    <2>1. CASE ClientReceiveEvent(c)
      <3> DEFINE p == Head(to_client[c])
                 ev == Deserialized(p.event, "SERVER")
      <3>1. p.type = "event" /\ p \in ServerPacket
        BY <1>0, <1>2, <2>1, TailElements DEF ClientReceiveEvent
      <3>2. p.event \in Event
        BY <3>1 DEF ServerPacket, Response
      <3>3. ev \in Event
        BY <3>2, DeserializedIsEvent DEF Source
      <3>4. ev.source = "SERVER" /\ ev.caller = p.event.caller
        BY <3>2 DEF Deserialized, Event
      <3>5. pending' = [pending EXCEPT ![c] = Append(@, ev)]
        BY <2>1 DEF ClientReceiveEvent
      <3> HIDE DEF ev
      <3>6. Fresh(waiting[c], c, ev)
        BY <1>5, <3>1, <3>4 DEF Fresh
      <3>7. FreshIn(waiting[c], c, pending[c])
        BY DEF Identity
      <3>8. FreshIn(waiting[c], c, Append(pending[c], ev))
        BY <1>0, <3>3, <3>6, <3>7, AppendIdentity
      <3> QED
        BY <1>0, <3>5, <3>8 DEF TypeOK
    <2>2. CASE ~ClientReceiveEvent(c)
      BY <2>2 DEF ClientReceive, ClientReceiveSnapshot, ClientReceiveResponse, queueVars, Identity
    <2> QED
      BY <2>1, <2>2
  <1>8. HostWork' = HostWork
    BY <1>1, SameWork
  <1> QED
    BY <1>1, <1>2, <1>3, <1>5, <1>6, <1>7, <1>8 DEF Identity

\* What another client does leaves c's events where they are.
LEMMA OthersKeepIdentity ==
    ASSUME TypeOK, NEW c \in Clients, Identity(c), NEW d \in Clients, d # c,
           ClientProcess(d) \/ HandleResponse(d) \/ ClientReceive(d)
    PROVE  Identity(c)'
  <1>1. /\ batch'[c] = batch[c] /\ pending'[c] = pending[c] /\ waiting'[c] = waiting[c]
        /\ to_client'[c] = to_client[c] /\ outgoing'[Host] = outgoing[Host]
    BY OthersKeepWay
  <1>2. /\ c \in Nodes /\ Host \in Nodes /\ c # Host /\ d \in Nodes /\ d # Host
    BY WayTypes
  <1>3. done'[c] = done[c] /\ client_state'[c] = client_state[c]
    BY <1>2 DEF ClientProcess, ClientApply, ClientRefuse, Apply, HandleResponse, ClientReceive,
           ClientReceiveSnapshot, ClientReceiveEvent, ClientReceiveResponse, TypeOK, joinVars, replicaVars
  <1>4. /\ outgoing'[c] = outgoing[c] /\ to_host'[c] = to_host[c]
        /\ UNCHANGED <<next_event_id, flushed>>
    BY <1>2 DEF ClientProcess, ClientApply, ClientRefuse, StoreAndSend, HandleResponse, ClientReceive,
           ClientReceiveSnapshot, ClientReceiveEvent, ClientReceiveResponse, TypeOK, netVars, queueVars,
           flushVars
  <1>5. pending'[Host] = pending[Host] /\ batch'[Host] = batch[Host] /\ stage' = stage
    BY <1>2 DEF ClientProcess, ClientApply, ClientRefuse, HandleResponse, ClientReceive,
           ClientReceiveSnapshot, ClientReceiveEvent, ClientReceiveResponse, TypeOK, queueVars
  <1>6. HostWork' = HostWork
    BY <1>5, SameWork
  <1> QED
    BY <1>1, <1>3, <1>4, <1>5, <1>6 DEF Identity

\* Every step keeps IdentityInv: one step for each action of Next.
LEMMA StepIdentity == TypeOK /\ HostQueueInv /\ JoinInv /\ TripInv /\ IdentityInv /\ [Next]_vars => IdentityInv'
<1> SUFFICES ASSUME TypeOK, HostQueueInv, JoinInv, TripInv, IdentityInv, [Next]_vars, NEW c \in Clients
             PROVE  Identity(c)'
  BY DEF IdentityInv
<1>0. Identity(c) /\ Trip(c)
  BY DEF IdentityInv, TripInv
<1>1. ASSUME NEW n \in Nodes, NEW name \in {"complete_turn", "uncomplete_turn"}, Click(n, name)
      PROVE  Identity(c)'
  BY <1>0, <1>1, ClickKeepsIdentity
<1>2. ASSUME NEW n \in Nodes, StartBatch(n)
      PROVE  Identity(c)'
  BY <1>0, <1>2, StartBatchKeepsIdentity
<1>3. ASSUME NEW n \in Nodes, Flush(n)
      PROVE  Identity(c)'
  BY <1>0, <1>3, FlushKeepsIdentity
<1>4. CASE HostProcess
  BY <1>0, <1>4, HostProcessKeepsIdentity
<1>5. ASSUME NEW d \in Clients, RequestDownload(d) \/ HostReceive(d)
      PROVE  Identity(c)'
  BY <1>0, <1>5, HostReceiveKeepsIdentity
<1>6. ASSUME NEW d \in Clients, ClientProcess(d) \/ HandleResponse(d) \/ ClientReceive(d)
      PROVE  Identity(c)'
  <2>1. CASE d # c
    BY <1>0, <1>6, <2>1, OthersKeepIdentity
  <2>2. CASE d = c
    BY <1>0, <1>6, <2>2, ClientMainKeepsIdentity, ClientReceiveKeepsIdentity
  <2> QED
    BY <2>1, <2>2
<1>7. CASE UNCHANGED vars
  BY <1>0, <1>7 DEF vars, replicaVars, queueVars, flushVars, joinVars, netVars, HostWork, Identity
<1> QED
  BY <1>1, <1>2, <1>3, <1>4, <1>5, <1>6, <1>7 DEF Next

\* Wherever a click of a client is, it is the one that the client waits for, and
\* what a client hears of others is not its own.
THEOREM EventsKeepTheirCaller == Spec => []IdentityInv
<1>1. Init => IdentityInv
  BY InitIdentity
<1>2. TypeOK /\ HostQueueInv /\ JoinInv /\ TripInv /\ IdentityInv /\ [Next]_vars => IdentityInv'
  BY StepIdentity
<1> QED
  BY <1>1, <1>2, TypeCorrect, HostQueueOrdered, JoinsOnce, TripsInOrder, PTL DEF Spec

-----------------------------------------------------------------------------
(* What the last event of a queue leaves *)

\* After an append it is what was appended, or what it was.
LEMMA AppendLeaves ==
    ASSUME NEW q \in Seq(Event), NEW e \in Event, NEW k \in 0..Len(q), NEW who, NEW D, NEW t
    PROVE  /\ About(e, who) /\ Leaves(e, who, D, t) => LastLeaves(Append(q, e), k, who, D, t)
           /\ ~About(e, who) /\ LastLeaves(q, k, who, D, t) => LastLeaves(Append(q, e), k, who, D, t)
           /\ NoneAbout(Append(q, e), k, who) <=> NoneAbout(q, k, who) /\ ~About(e, who)
  <1>1. /\ Len(q) \in Nat /\ Len(Append(q, e)) = Len(q) + 1
        /\ \A i \in 1..Len(q) : Append(q, e)[i] = q[i]
        /\ Append(q, e)[Len(q) + 1] = e
    BY AppendFacts
  <1> DEFINE r == Append(q, e)
             n == Len(q) + 1
  <1>2. /\ n \in 1..Len(r) /\ n > k /\ r[n] = e
        /\ \A i \in 1..Len(r) : ~(i > n) /\ (i = n \/ i \in 1..Len(q))
        /\ \A i \in 1..Len(q) : i \in 1..Len(r) /\ r[i] = q[i]
    BY <1>1
  <1> HIDE DEF r, n
  <1>3. About(e, who) /\ Leaves(e, who, D, t) => LastLeaves(r, k, who, D, t)
    BY <1>2 DEF LastLeaves
  <1>4. ~About(e, who) /\ LastLeaves(q, k, who, D, t) => LastLeaves(r, k, who, D, t)
    <2> SUFFICES ASSUME ~About(e, who),
                        NEW i \in 1..Len(q), i > k, About(q[i], who), Leaves(q[i], who, D, t),
                        \A j \in 1..Len(q) : j > i => ~About(q[j], who)
                 PROVE  LastLeaves(r, k, who, D, t)
      BY DEF LastLeaves
    <2>1. \A j \in 1..Len(r) : j > i => ~About(r[j], who)
      BY <1>2
    <2> QED
      BY <1>2, <2>1 DEF LastLeaves
  <1>5. NoneAbout(r, k, who) <=> NoneAbout(q, k, who) /\ ~About(e, who)
    <2>1. NoneAbout(r, k, who) => NoneAbout(q, k, who) /\ ~About(e, who)
      BY <1>2 DEF NoneAbout
    <2>2. NoneAbout(q, k, who) /\ ~About(e, who) => NoneAbout(r, k, who)
      <3> SUFFICES ASSUME NoneAbout(q, k, who), ~About(e, who), NEW i \in 1..Len(r), i > k
                   PROVE  ~About(r[i], who)
        BY DEF NoneAbout
      <3> QED
        BY <1>2 DEF NoneAbout
    <2> QED
      BY <2>1, <2>2
  <1> QED
    BY <1>3, <1>4, <1>5 DEF r

\* When the front is taken it may be that of the front, or it is what it was.
LEMMA FrontLeaves ==
    ASSUME NEW q \in Seq(Event), NEW k \in Nat, NEW n \in 1..Len(q), n = k + 1, NEW who, NEW D, NEW t
    PROVE  /\ LastLeaves(q, k, who, D, t) =>
                 \/ LastLeaves(q, n, who, D, t)
                 \/ /\ NoneAbout(q, n, who)
                    /\ About(q[n], who) /\ Leaves(q[n], who, D, t)
           /\ NoneAbout(q, k, who) <=> NoneAbout(q, n, who) /\ ~About(q[n], who)
  <1>1. \A i \in 1..Len(q) : i > k <=> i = n \/ i > n
    OBVIOUS
  <1>2. NoneAbout(q, k, who) <=> NoneAbout(q, n, who) /\ ~About(q[n], who)
    BY <1>1 DEF NoneAbout
  <1>3. ASSUME NEW i \in 1..Len(q), i > k, About(q[i], who), Leaves(q[i], who, D, t),
               \A j \in 1..Len(q) : j > i => ~About(q[j], who)
        PROVE  \/ LastLeaves(q, n, who, D, t)
               \/ /\ NoneAbout(q, n, who)
                  /\ About(q[n], who) /\ Leaves(q[n], who, D, t)
    <2>1. CASE i = n
      BY <1>3, <2>1 DEF NoneAbout
    <2>2. CASE i > n
      BY <1>3, <2>2 DEF LastLeaves
    <2> QED
      BY <1>1, <1>3, <2>1, <2>2
  <1> QED
    BY <1>2, <1>3 DEF LastLeaves

\* The last event about who is behind the head, or is the head.
LEMMA TailLeaves ==
    ASSUME NEW q \in Seq(Event), q # <<>>, NEW who, NEW D, NEW t
    PROVE  /\ LastLeaves(q, 0, who, D, t) =>
                 \/ LastLeaves(Tail(q), 0, who, D, t)
                 \/ /\ NoneAbout(Tail(q), 0, who)
                    /\ About(Head(q), who) /\ Leaves(Head(q), who, D, t)
           /\ NoneAbout(q, 0, who) <=> NoneAbout(Tail(q), 0, who) /\ ~About(Head(q), who)
  <1> DEFINE r == Tail(q)
  <1>1. /\ Len(q) \in Nat /\ Len(r) = Len(q) - 1 /\ Head(q) = q[1]
        /\ \A i \in 1..Len(r) : r[i] = q[i + 1]
    BY QueueFacts
  <1>0. Len(r) \in Nat /\ 1 \in 1..Len(q)
    BY QueueFacts
  <1> HIDE DEF r
  <1>2. /\ 0 + 1 \in 1..Len(q) /\ 0 + 1 = 1
        /\ \A i \in 1..Len(r) : i > 0 /\ i + 1 \in 1..Len(q) /\ i + 1 > 1 /\ r[i] = q[i + 1]
        /\ \A i \in 1..Len(q) : i > 1 => i - 1 \in 1..Len(r) /\ r[i - 1] = q[i]
    <2>1. \A i \in 1..Len(r) : i > 0 /\ i + 1 \in 1..Len(q) /\ i + 1 > 1 /\ r[i] = q[i + 1]
      BY <1>0, <1>1
    <2>2. ASSUME NEW i \in 1..Len(q), i > 1
          PROVE  i - 1 \in 1..Len(r) /\ r[i - 1] = q[i]
      <3>1. i - 1 \in 1..Len(r) /\ (i - 1) + 1 = i
        BY <1>0, <1>1, <2>2
      <3> QED
        BY <1>1, <3>1
    <2> QED
      BY <1>0, <2>1, <2>2
  <1>3. NoneAbout(q, 1, who) <=> NoneAbout(r, 0, who)
    <2>1. NoneAbout(q, 1, who) => NoneAbout(r, 0, who)
      BY <1>2 DEF NoneAbout
    <2>2. NoneAbout(r, 0, who) => NoneAbout(q, 1, who)
      <3> SUFFICES ASSUME NoneAbout(r, 0, who), NEW i \in 1..Len(q), i > 1
                   PROVE  ~About(q[i], who)
        BY DEF NoneAbout
      <3>1. i - 1 \in 1..Len(r) /\ r[i - 1] = q[i] /\ i - 1 > 0
        BY <1>2
      <3> QED
        BY <3>1 DEF NoneAbout
    <2> QED
      BY <2>1, <2>2
  <1>4. LastLeaves(q, 1, who, D, t) => LastLeaves(r, 0, who, D, t)
    <2> SUFFICES ASSUME NEW i \in 1..Len(q), i > 1, About(q[i], who), Leaves(q[i], who, D, t),
                        \A j \in 1..Len(q) : j > i => ~About(q[j], who)
                 PROVE  LastLeaves(r, 0, who, D, t)
      BY DEF LastLeaves
    <2>1. i - 1 \in 1..Len(r) /\ r[i - 1] = q[i] /\ i - 1 > 0
      BY <1>2
    <2>2. ASSUME NEW j \in 1..Len(r), j > i - 1
          PROVE  ~About(r[j], who)
      <3>1. j + 1 \in 1..Len(q) /\ j + 1 > i /\ r[j] = q[j + 1]
        BY <1>2, <2>2
      <3> QED
        BY <3>1
    <2> QED
      BY <2>1, <2>2 DEF LastLeaves
  <1>5. /\ LastLeaves(q, 0, who, D, t) =>
              \/ LastLeaves(q, 1, who, D, t)
              \/ NoneAbout(q, 1, who) /\ About(q[1], who) /\ Leaves(q[1], who, D, t)
        /\ NoneAbout(q, 0, who) <=> NoneAbout(q, 1, who) /\ ~About(q[1], who)
    <2>1. 0 \in Nat /\ 1 \in 1..Len(q) /\ 1 = 0 + 1
      BY <1>2
    <2> QED
      BY <2>1, FrontLeaves
  <1> QED
    BY <1>1, <1>3, <1>4, <1>5 DEF r

\* The same of a channel.
LEMMA AppendPacketLeaves ==
    ASSUME NEW q \in Seq(ServerPacket), NEW p \in ServerPacket, NEW who, NEW D, NEW t
    PROVE  /\ p.type = "event" /\ About(p.event, who) /\ Leaves(p.event, who, D, t) =>
                 LastPacketLeaves(Append(q, p), who, D, t)
           /\ (p.type = "event" => ~About(p.event, who)) =>
                 /\ LastPacketLeaves(q, who, D, t) => LastPacketLeaves(Append(q, p), who, D, t)
                 /\ NoPacketAbout(Append(q, p), who) <=> NoPacketAbout(q, who)
           /\ NoPacketAbout(Append(q, p), who) =>
                 NoPacketAbout(q, who) /\ (p.type = "event" => ~About(p.event, who))
  <1>1. /\ Len(q) \in Nat /\ Len(Append(q, p)) = Len(q) + 1
        /\ \A i \in 1..Len(q) : Append(q, p)[i] = q[i]
        /\ Append(q, p)[Len(q) + 1] = p
    BY AppendFacts
  <1> DEFINE r == Append(q, p)
             n == Len(q) + 1
  <1>2. /\ n \in 1..Len(r) /\ r[n] = p
        /\ \A i \in 1..Len(r) : ~(i > n) /\ (i = n \/ i \in 1..Len(q))
        /\ \A i \in 1..Len(q) : i \in 1..Len(r) /\ r[i] = q[i]
    BY <1>1
  <1> HIDE DEF r, n
  <1>3. p.type = "event" /\ About(p.event, who) /\ Leaves(p.event, who, D, t) =>
           LastPacketLeaves(r, who, D, t)
    BY <1>2 DEF LastPacketLeaves
  <1>4. ASSUME p.type = "event" => ~About(p.event, who), LastPacketLeaves(q, who, D, t)
        PROVE  LastPacketLeaves(r, who, D, t)
    <2>1. PICK i \in 1..Len(q) :
              /\ q[i].type = "event" /\ About(q[i].event, who) /\ Leaves(q[i].event, who, D, t)
              /\ \A j \in 1..Len(q) : j > i /\ q[j].type = "event" => ~About(q[j].event, who)
      BY <1>4 DEF LastPacketLeaves
    <2>2. \A j \in 1..Len(r) : j > i /\ r[j].type = "event" => ~About(r[j].event, who)
      BY <1>2, <1>4, <2>1
    <2> QED
      BY <1>2, <2>1, <2>2 DEF LastPacketLeaves
  <1>5. (p.type = "event" => ~About(p.event, who)) /\ NoPacketAbout(q, who) => NoPacketAbout(r, who)
    BY <1>2 DEF NoPacketAbout
  <1>6. NoPacketAbout(r, who) => NoPacketAbout(q, who) /\ (p.type = "event" => ~About(p.event, who))
    BY <1>2 DEF NoPacketAbout
  <1> QED
    BY <1>3, <1>4, <1>5, <1>6 DEF r

\* The last packet about who is behind the head, or is the head.
LEMMA TailPacketLeaves ==
    ASSUME NEW q \in Seq(ServerPacket), q # <<>>, NEW who, NEW D, NEW t
    PROVE  /\ LastPacketLeaves(q, who, D, t) =>
                 \/ LastPacketLeaves(Tail(q), who, D, t)
                 \/ /\ NoPacketAbout(Tail(q), who) /\ Head(q).type = "event"
                    /\ About(Head(q).event, who) /\ Leaves(Head(q).event, who, D, t)
           /\ NoPacketAbout(q, who) <=>
                 NoPacketAbout(Tail(q), who) /\ (Head(q).type = "event" => ~About(Head(q).event, who))
  <1> DEFINE r == Tail(q)
  <1>1. /\ Len(q) \in Nat /\ Len(r) = Len(q) - 1 /\ Head(q) = q[1]
        /\ \A i \in 1..Len(r) : r[i] = q[i + 1]
    BY QueueFacts
  <1>0. Len(r) \in Nat /\ 1 \in 1..Len(q)
    BY QueueFacts
  <1> HIDE DEF r
  <1>2. /\ 1 \in 1..Len(q)
        /\ \A i \in 1..Len(r) : i + 1 \in 1..Len(q) /\ i + 1 > 1 /\ r[i] = q[i + 1]
        /\ \A i \in 1..Len(q) : i = 1 \/ (i - 1 \in 1..Len(r) /\ r[i - 1] = q[i])
    <2>1. \A i \in 1..Len(r) : i + 1 \in 1..Len(q) /\ i + 1 > 1 /\ r[i] = q[i + 1]
      BY <1>0, <1>1
    <2>2. ASSUME NEW i \in 1..Len(q), i # 1
          PROVE  i - 1 \in 1..Len(r) /\ r[i - 1] = q[i]
      <3>1. i - 1 \in 1..Len(r) /\ (i - 1) + 1 = i
        BY <1>0, <1>1, <2>2
      <3> QED
        BY <1>1, <3>1
    <2> QED
      BY <1>0, <2>1, <2>2
  <1>3. NoPacketAbout(q, who) => NoPacketAbout(r, who) /\ (q[1].type = "event" => ~About(q[1].event, who))
    BY <1>2 DEF NoPacketAbout
  <1>4. ASSUME NoPacketAbout(r, who), q[1].type = "event" => ~About(q[1].event, who)
        PROVE  NoPacketAbout(q, who)
    <2> SUFFICES ASSUME NEW i \in 1..Len(q), q[i].type = "event"
                 PROVE  ~About(q[i].event, who)
      BY DEF NoPacketAbout
    <2>1. CASE i = 1
      BY <1>4, <2>1
    <2>2. CASE i - 1 \in 1..Len(r) /\ r[i - 1] = q[i]
      BY <1>4, <2>2 DEF NoPacketAbout
    <2> QED
      BY <1>2, <2>1, <2>2
  <1>5. ASSUME LastPacketLeaves(q, who, D, t)
        PROVE  \/ LastPacketLeaves(r, who, D, t)
               \/ /\ NoPacketAbout(r, who) /\ q[1].type = "event"
                  /\ About(q[1].event, who) /\ Leaves(q[1].event, who, D, t)
    <2>1. PICK i \in 1..Len(q) :
              /\ q[i].type = "event" /\ About(q[i].event, who) /\ Leaves(q[i].event, who, D, t)
              /\ \A j \in 1..Len(q) : j > i /\ q[j].type = "event" => ~About(q[j].event, who)
      BY <1>5 DEF LastPacketLeaves
    <2>2. CASE i = 1
      <3>1. NoPacketAbout(r, who)
        BY <1>2, <2>1, <2>2 DEF NoPacketAbout
      <3> QED
        BY <2>1, <2>2, <3>1
    <2>3. CASE i - 1 \in 1..Len(r) /\ r[i - 1] = q[i]
      <3>1. ASSUME NEW j \in 1..Len(r), j > i - 1, r[j].type = "event"
            PROVE  ~About(r[j].event, who)
        <4>1. j + 1 \in 1..Len(q) /\ j + 1 > i /\ r[j] = q[j + 1]
          BY <1>2, <3>1
        <4> QED
          BY <2>1, <3>1, <4>1
      <3> QED
        BY <2>1, <2>3, <3>1 DEF LastPacketLeaves
    <2> QED
      BY <1>2, <2>2, <2>3
  <1> QED
    BY <1>1, <1>3, <1>4, <1>5 DEF r

\* Nothing is in an empty queue.
LEMMA NothingLeft ==
    ASSUME NEW who
    PROVE  /\ \A k \in Nat : NoneAbout(<<>>, k, who)
           /\ NoPacketAbout(<<>>, who)
           /\ NoAnswer(<<>>)
  BY DEF NoneAbout, NoPacketAbout, NoAnswer

\* What is left depends only on whom it is about.
LEMMA SameLeaves ==
    ASSUME NEW who, NEW D, NEW E, NEW t, NEW u,
           \A p \in who : p \in D <=> p \in E, t = u
    PROVE  /\ \A q, k : LastLeaves(q, k, who, D, t) => LastLeaves(q, k, who, E, u)
           /\ \A q : LastPacketLeaves(q, who, D, t) => LastPacketLeaves(q, who, E, u)
  <1>1. \A e : Leaves(e, who, D, t) => Leaves(e, who, E, u)
    BY DEF Leaves
  <1> QED
    BY <1>1 DEF LastLeaves, LastPacketLeaves

-----------------------------------------------------------------------------
(* What follows the host *)

\* The turn, and the completion of another player.
Subjects(c) == {{}} \cup {{p} : p \in Nodes \ {c}}

\* All that Follows, OwnFollows and AnswersFirst depend on.
LEMMA SameKeepsFollowing ==
    ASSUME NEW c,
           turn'[c] = turn[c], done'[c] = done[c], pending'[c] = pending[c], batch'[c] = batch[c],
           waiting'[c] = waiting[c], responses'[c] = responses[c], to_client'[c] = to_client[c],
           client_state'[c] = "running" <=> client_state[c] = "running",
           outgoing'[Host] = outgoing[Host], flushed'[Host] = flushed[Host],
           ToldTurn(c)' = ToldTurn(c), ToldDone(c)' = ToldDone(c)
    PROVE  /\ \A who : Follows(c, who) => Follows(c, who)'
           /\ OwnFollows(c) => OwnFollows(c)'
           /\ AnswersFirst(c) => AnswersFirst(c)'
  <1>1. \A who : Follows(c, who) => Follows(c, who)'
    BY DEF Follows, Agrees
  <1>2. OwnFollows(c) => OwnFollows(c)'
    BY DEF OwnFollows, NoTurnComing
  <1>3. AnswersFirst(c) => AnswersFirst(c)'
    BY DEF AnswersFirst
  <1> QED
    BY <1>1, <1>2, <1>3

\* The host tells c of an event that it accepts: of c's own with the answer, of
\* another's when it is queued for the clients.
Tells(c) ==
    \/ HostAnswer /\ Head(batch[Host]).caller = c
    \/ HostBroadcast /\ Head(batch[Host]).caller # c

\* What it told c it has, but for this event, which c is told with an answer or
\* a broadcast.
LEMMA TellEffect ==
    ASSUME TypeOK, HostQueueInv, NEW c \in Clients, Tells(c)
    PROVE  LET ev == batch[Host][1]
               r == [type |-> "response", id |-> ev.id, accepted |-> TRUE]
           IN  /\ batch[Host] # <<>> /\ 1 \in 1..Len(batch[Host])
               /\ Head(batch[Host]) = ev /\ ev \in Event /\ r \in ServerPacket
               /\ ev.name = "advance_turn" => ev.caller = Host
               /\ ToldTurn(c)' = TurnAfter(Host, ev) /\ ToldDone(c)' = DoneAfter(Host, ev)
               /\ ToldTurn(c) = turn[Host] /\ ToldDone(c) = done[Host]
               /\ stage # "queued" /\ (ev.caller = c => stage = "idle" /\ stage' = "answered")
               /\ outgoing'[Host] = IF ev.caller = c THEN outgoing[Host] ELSE Append(outgoing[Host], ev)
               /\ to_client'[c] = IF ev.caller = c THEN Append(to_client[c], r) ELSE to_client[c]
               /\ UNCHANGED <<turn, done, pending, batch, waiting, responses, flushed, client_state>>
  <1> DEFINE ev == batch[Host][1]
             r == [type |-> "response", id |-> ev.id, accepted |-> TRUE]
  <1>1. /\ batch[Host] # <<>> /\ 1 \in 1..Len(batch[Host]) /\ Head(batch[Host]) = ev /\ ev \in Event
        /\ Host \in Nodes /\ c \in Nodes /\ c # Host
    BY TailElements, WayTypes DEF Tells, HostAnswer, HostBroadcast, MainInBatch
  <1>2. Validate(Host, ev) /\ (ev.name = "advance_turn" => ev.caller = Host)
    <2>1. Validate(Host, ev)
      BY <1>1 DEF Tells, HostAnswer, HostBroadcast, HostQueueInv
    <2> QED
      BY <2>1 DEF Validate
  <1>3. UNCHANGED <<turn, done, pending, batch, waiting, responses, flushed, client_state>>
    BY DEF Tells, HostAnswer, HostBroadcast, replicaVars, flushVars, joinVars
  <1>4. /\ stage # "queued" /\ (ev.caller = c => stage = "idle" /\ stage' = "answered")
        /\ stage = "answered" => ev.caller # c
        /\ stage' = "queued" \/ (stage' = "answered" /\ ev.caller = c)
    BY <1>1 DEF Tells, HostAnswer, HostBroadcast
  <1>5. ~Told(c) /\ Told(c)'
    BY <1>1, <1>3, <1>4 DEF Told
  <1>6. ToldTurn(c) = turn[Host] /\ ToldDone(c) = done[Host]
    BY <1>5 DEF ToldTurn, ToldDone
  <1>7. ToldTurn(c)' = TurnAfter(Host, ev) /\ ToldDone(c)' = DoneAfter(Host, ev)
    BY <1>1, <1>3, <1>5 DEF ToldTurn, ToldDone, TurnAfter, DoneAfter
  <1>8. /\ outgoing'[Host] = IF ev.caller = c THEN outgoing[Host] ELSE Append(outgoing[Host], ev)
        /\ to_client'[c] = IF ev.caller = c THEN Append(to_client[c], r) ELSE to_client[c]
    <2>1. CASE HostAnswer /\ ev.caller = c
      BY <1>1, <2>1 DEF HostAnswer, Answer, flushVars, TypeOK
    <2>2. CASE HostBroadcast /\ ev.caller # c
      BY <1>1, <2>2 DEF HostBroadcast, Broadcast, netVars, TypeOK
    <2> QED
      BY <1>1, <2>1, <2>2 DEF Tells
  <1>9. r \in ServerPacket
    BY <1>1 DEF ServerPacket, Response, Event
  <1> QED
    BY <1>1, <1>2, <1>3, <1>4, <1>6, <1>7, <1>8, <1>9

\* Nothing but the host's own MAIN tells c anything.
LEMMA OthersTellNothing ==
    ASSUME TypeOK, [Next]_vars, ~HostProcess, NEW c \in Clients
    PROVE  ToldTurn(c)' = ToldTurn(c) /\ ToldDone(c)' = ToldDone(c)
  <1>1. /\ stage' = stage /\ turn'[Host] = turn[Host] /\ done'[Host] = done[Host]
        /\ stage # "idle" => batch'[Host] = batch[Host]
    BY OthersLeaveStage, OthersLeaveHost DEF HostProcess, TypeOK
  <1>2. CASE stage = "idle"
    BY <1>1, <1>2 DEF ToldTurn, ToldDone, Told
  <1>3. CASE stage # "idle"
    <2>1. batch'[Host] = batch[Host] /\ (Told(c)' <=> Told(c))
      BY <1>1, <1>3 DEF Told
    <2>2. TurnAfter(Host, Head(batch[Host]))' = TurnAfter(Host, Head(batch[Host]))
      BY <1>1, <2>1 DEF TurnAfter
    <2>3. DoneAfter(Host, Head(batch[Host]))' = DoneAfter(Host, Head(batch[Host]))
      BY <1>1, <2>1 DEF DoneAfter
    <2> QED
      BY <1>1, <2>1, <2>2, <2>3 DEF ToldTurn, ToldDone
  <1> QED
    BY <1>2, <1>3

\* What the host tells leaves what the host has from then on.
LEMMA TellLeaves ==
    ASSUME TypeOK, HostQueueInv, NEW c \in Clients, Tells(c), NEW who \in Subjects(c)
    PROVE  LET ev == batch[Host][1]
           IN  /\ About(ev, who) => Leaves(ev, who, ToldDone(c)', ToldTurn(c)')
               /\ ~About(ev, who) => /\ ToldTurn(c)' = ToldTurn(c)
                                     /\ \A p \in who : p \in ToldDone(c) <=> p \in ToldDone(c)'
  <1> DEFINE ev == batch[Host][1]
  <1>1. /\ ev.name \in EventName
        /\ ToldTurn(c)' = TurnAfter(Host, ev) /\ ToldDone(c)' = DoneAfter(Host, ev)
        /\ ToldTurn(c) = turn[Host] /\ ToldDone(c) = done[Host]
    BY TellEffect DEF Event
  <1> HIDE DEF ev
  <1>2. ASSUME who = {}
        PROVE  /\ About(ev, who) => Leaves(ev, who, ToldDone(c)', ToldTurn(c)')
               /\ ~About(ev, who) => /\ ToldTurn(c)' = ToldTurn(c)
                                     /\ \A x \in who : x \in ToldDone(c) <=> x \in ToldDone(c)'
    <2>1. /\ About(ev, who) <=> ev.name = "advance_turn"
          /\ Leaves(ev, who, ToldDone(c)', ToldTurn(c)') <=>
                (ev.name = "advance_turn" => ev.turn_id = ToldTurn(c)')
          /\ \A p \in who : p \in ToldDone(c) <=> p \in ToldDone(c)'
      BY <1>2 DEF About, Leaves
    <2>2. ToldTurn(c)' = IF ev.name = "advance_turn" THEN ev.turn_id ELSE ToldTurn(c)
      BY <1>1 DEF TurnAfter
    <2> QED
      BY <2>1, <2>2
  <1>3. ASSUME NEW p, who = {p}
        PROVE  /\ About(ev, who) => Leaves(ev, who, ToldDone(c)', ToldTurn(c)')
               /\ ~About(ev, who) => /\ ToldTurn(c)' = ToldTurn(c)
                                     /\ \A x \in who : x \in ToldDone(c) <=> x \in ToldDone(c)'
    <2>1. About(ev, who) <=> ev.name = "advance_turn" \/ ev.caller = p
      BY <1>3 DEF About
    <2>2. CASE ev.name = "advance_turn"
      BY <1>1, <1>3, <2>1, <2>2 DEF Leaves, TurnAfter, DoneAfter
    <2>3. CASE ev.name = "complete_turn"
      BY <1>1, <1>3, <2>1, <2>3 DEF Leaves, TurnAfter, DoneAfter
    <2>4. CASE ev.name = "uncomplete_turn"
      BY <1>1, <1>3, <2>1, <2>4 DEF Leaves, TurnAfter, DoneAfter
    <2> QED
      BY <1>1, <2>2, <2>3, <2>4 DEF EventName
  <1> QED
    BY <1>2, <1>3 DEF Subjects, ev

\* A packet that is no event changes nothing that is left.
LEMMA NoEventAppended ==
    ASSUME NEW q \in Seq(ServerPacket), NEW p \in ServerPacket, p.type # "event", NEW who
    PROVE  /\ \A D, t : LastPacketLeaves(q, who, D, t) => LastPacketLeaves(Append(q, p), who, D, t)
           /\ NoPacketAbout(Append(q, p), who) <=> NoPacketAbout(q, who)
  BY AppendPacketLeaves

\* An event of c itself, which names no turn, is not about the others.
LEMMA OwnIsNotAbout ==
    ASSUME NEW c \in Clients, NEW e, e.caller = c, e.name # "advance_turn", NEW who \in Subjects(c)
    PROVE  ~About(e, who)
  BY DEF About, Subjects

\* What the host accepts of others, its replica takes over and its vector ends
\* with; what it accepts of c itself changes nothing about the others.
LEMMA TellKeepsFollows ==
    ASSUME TypeOK, HostQueueInv, NEW c \in Clients, Tells(c), NEW who \in Subjects(c), Follows(c, who)
    PROVE  Follows(c, who)'
  <1> DEFINE ev == batch[Host][1]
             r == [type |-> "response", id |-> ev.id, accepted |-> TRUE]
             O == outgoing[Host]
             k == flushed[Host]
  <1>1. /\ O \in Seq(Event) /\ k \in 0..Len(O) /\ ev \in Event /\ to_client[c] \in Seq(ServerPacket)
        /\ r \in ServerPacket /\ r.type # "event"
    <2>1. k \in 0..Len(O)
      <3>1. Host \in Nodes /\ O \in Seq(Event) /\ Len(O) \in Nat
        BY WayTypes
      <3>2. k \in Nat /\ flush_end[Host] \in Nat /\ k <= flush_end[Host] /\ flush_end[Host] <= Len(O)
        BY <3>1 DEF TypeOK
      <3> QED
        BY <3>1, <3>2
    <2>2. O \in Seq(Event) /\ to_client[c] \in Seq(ServerPacket)
      BY WayTypes
    <2>3. ev \in Event /\ r \in ServerPacket
      BY TellEffect
    <2> QED
      BY <2>1, <2>2, <2>3
  <1>2. /\ outgoing'[Host] = IF ev.caller = c THEN O ELSE Append(O, ev)
        /\ flushed'[Host] = k
        /\ to_client'[c] = Append(to_client[c], r) \/ to_client'[c] = to_client[c]
        /\ turn'[c] = turn[c] /\ done'[c] = done[c] /\ pending'[c] = pending[c] /\ batch'[c] = batch[c]
        /\ client_state' = client_state
    BY TellEffect
  <1>5. About(ev, who) => ev.caller # c
    <2>1. ev.caller = c => ev.name # "advance_turn"
      BY TellEffect, WayTypes
    <2> QED
      BY <2>1, OwnIsNotAbout
  <1> HIDE DEF r, ev
  <1>3. CASE About(ev, who)
    <2>1. Leaves(ev, who, ToldDone(c)', ToldTurn(c)')
      BY <1>3, TellLeaves DEF ev
    <2>2. LastLeaves(Append(O, ev), k, who, ToldDone(c)', ToldTurn(c)')
      BY <1>1, <1>3, <2>1, AppendLeaves
    <2> QED
      BY <1>2, <1>3, <1>5, <2>2 DEF Follows
  <1>4. CASE ~About(ev, who)
    <2>1. ToldTurn(c) = ToldTurn(c)' /\ \A p \in who : p \in ToldDone(c) <=> p \in ToldDone(c)'
      BY <1>4, TellLeaves DEF ev
    <2>2. /\ \A q, l : LastLeaves(q, l, who, ToldDone(c), ToldTurn(c)) =>
                          LastLeaves(q, l, who, ToldDone(c)', ToldTurn(c)')
          /\ \A q : LastPacketLeaves(q, who, ToldDone(c), ToldTurn(c)) =>
                          LastPacketLeaves(q, who, ToldDone(c)', ToldTurn(c)')
      BY <2>1, SameLeaves
    <2>3. /\ LastLeaves(O, k, who, ToldDone(c), ToldTurn(c)) =>
                LastLeaves(outgoing'[Host], k, who, ToldDone(c)', ToldTurn(c)')
          /\ NoneAbout(O, k, who) => NoneAbout(outgoing'[Host], k, who)
      <3>1. CASE outgoing'[Host] = O
        BY <2>2, <3>1
      <3>2. CASE outgoing'[Host] = Append(O, ev)
        <4>1. /\ NoneAbout(O, k, who) => NoneAbout(Append(O, ev), k, who)
              /\ \A D, t : LastLeaves(O, k, who, D, t) => LastLeaves(Append(O, ev), k, who, D, t)
          BY <1>1, <1>4, AppendLeaves
        <4> QED
          BY <2>2, <3>2, <4>1
      <3> QED
        BY <1>2, <3>1, <3>2
    <2>4. /\ LastPacketLeaves(to_client[c], who, ToldDone(c), ToldTurn(c)) =>
                LastPacketLeaves(to_client'[c], who, ToldDone(c)', ToldTurn(c)')
          /\ NoPacketAbout(to_client[c], who) => NoPacketAbout(to_client'[c], who)
      <3>1. CASE to_client'[c] = to_client[c]
        BY <2>2, <3>1
      <3>2. CASE to_client'[c] = Append(to_client[c], r)
        BY <1>1, <2>2, <3>2, NoEventAppended
      <3> QED
        BY <1>2, <3>1, <3>2
    <2>5. Agrees(c, who) => Agrees(c, who)'
      BY <1>2, <2>1 DEF Agrees
    <2> QED
      BY <1>2, <2>2, <2>3, <2>4, <2>5 DEF Follows
  <1> QED
    BY <1>3, <1>4

\* A click of c is about nobody else.
LEMMA ClickKeepsFollows ==
    ASSUME TypeOK, NEW c \in Clients, NEW name \in {"complete_turn", "uncomplete_turn"},
           Click(c, name), NEW who \in Subjects(c),
           ToldTurn(c)' = ToldTurn(c), ToldDone(c)' = ToldDone(c)
    PROVE  /\ Follows(c, who) => Follows(c, who)'
           /\ NoneAbout(pending'[c], 0, who) <=> NoneAbout(pending[c], 0, who)
  <1> DEFINE e == NewEvent(c, name, 0)
  <1>0. c \in Nodes /\ pending[c] \in Seq(Event) /\ 0 \in 0..Len(pending[c])
    BY WayTypes
  <1>1. e \in Event /\ e.name # "advance_turn" /\ e.caller = c
    BY <1>0, NewEventIsEvent DEF EventName, NewEvent
  <1>2. ~About(e, who)
    BY <1>1 DEF About, Subjects
  <1>3. /\ pending'[c] = Append(pending[c], e)
        /\ UNCHANGED <<turn, done, batch, outgoing, flushed, to_client, client_state>>
    BY <1>0 DEF Click, TypeOK, replicaVars, flushVars, joinVars, netVars
  <1> HIDE DEF e
  <1>4. /\ LastLeaves(pending[c], 0, who, ToldDone(c), ToldTurn(c)) =>
              LastLeaves(pending'[c], 0, who, ToldDone(c), ToldTurn(c))
        /\ NoneAbout(pending'[c], 0, who) <=> NoneAbout(pending[c], 0, who)
    BY <1>0, <1>1, <1>2, <1>3, AppendLeaves
  <1>5. Agrees(c, who) => Agrees(c, who)'
    BY <1>3 DEF Agrees
  <1> QED
    BY <1>3, <1>4, <1>5 DEF Follows

\* The queue becomes the batch.
LEMMA StartBatchKeepsFollows ==
    ASSUME TypeOK, NEW c \in Clients, StartBatch(c), NEW who,
           ToldTurn(c)' = ToldTurn(c), ToldDone(c)' = ToldDone(c)
    PROVE  Follows(c, who) => Follows(c, who)'
  <1>1. /\ batch'[c] = pending[c] /\ pending'[c] = <<>> /\ batch[c] = <<>>
        /\ UNCHANGED <<turn, done, outgoing, flushed, to_client, client_state>>
    BY WayTypes DEF StartBatch, MainIdle, TypeOK, replicaVars, flushVars, joinVars, netVars
  <1>2. NoneAbout(<<>>, 0, who) /\ ~LastLeaves(<<>>, 0, who, ToldDone(c), ToldTurn(c))
    BY DEF NoneAbout, LastLeaves
  <1>3. Agrees(c, who) => Agrees(c, who)'
    BY <1>1 DEF Agrees
  <1> QED
    BY <1>1, <1>2, <1>3 DEF Follows

-----------------------------------------------------------------------------
(* What the last answer of a channel leaves *)

\* After an append it is the answer that was appended, or what it was.
LEMMA AppendAnswer ==
    ASSUME NEW S, NEW q \in Seq(S), NEW p \in S, NEW W, NEW c, NEW D
    PROVE  /\ p.type # "response" =>
                 /\ LastAnswerLeaves(q, W, c, D) => LastAnswerLeaves(Append(q, p), W, c, D)
                 /\ NoAnswer(q) => NoAnswer(Append(q, p))
                 /\ AllAccepted(q) => AllAccepted(Append(q, p))
           /\ p.type = "response" =>
                 /\ (\A w \in W : w.id = p.id => (c \in D <=> w.name = "complete_turn")) =>
                       LastAnswerLeaves(Append(q, p), W, c, D)
                 /\ AllAccepted(q) /\ p.accepted => AllAccepted(Append(q, p))
  <1>1. /\ Len(q) \in Nat /\ Len(Append(q, p)) = Len(q) + 1
        /\ \A i \in 1..Len(q) : Append(q, p)[i] = q[i]
        /\ Append(q, p)[Len(q) + 1] = p
    BY AppendFacts
  <1> DEFINE r == Append(q, p)
             n == Len(q) + 1
  <1>2. /\ n \in 1..Len(r) /\ r[n] = p
        /\ \A i \in 1..Len(r) : ~(i > n) /\ (i = n \/ i \in 1..Len(q))
        /\ \A i \in 1..Len(q) : i \in 1..Len(r) /\ r[i] = q[i]
    BY <1>1
  <1> HIDE DEF r, n
  <1>3. ASSUME p.type # "response", LastAnswerLeaves(q, W, c, D)
        PROVE  LastAnswerLeaves(r, W, c, D)
    <2>1. PICK i \in 1..Len(q) :
              /\ q[i].type = "response"
              /\ \A w \in W : w.id = q[i].id => (c \in D <=> w.name = "complete_turn")
              /\ \A j \in 1..Len(q) : j > i => q[j].type # "response"
      BY <1>3 DEF LastAnswerLeaves
    <2>2. \A j \in 1..Len(r) : j > i => r[j].type # "response"
      BY <1>2, <1>3, <2>1
    <2> QED
      BY <1>2, <2>1, <2>2 DEF LastAnswerLeaves
  <1>4. p.type # "response" => /\ NoAnswer(q) => NoAnswer(r)
                               /\ AllAccepted(q) => AllAccepted(r)
    BY <1>2 DEF NoAnswer, AllAccepted
  <1>5. ASSUME p.type = "response"
        PROVE  /\ (\A w \in W : w.id = p.id => (c \in D <=> w.name = "complete_turn")) =>
                     LastAnswerLeaves(r, W, c, D)
               /\ AllAccepted(q) /\ p.accepted => AllAccepted(r)
    <2>1. (\A w \in W : w.id = p.id => (c \in D <=> w.name = "complete_turn")) =>
             LastAnswerLeaves(r, W, c, D)
      BY <1>2, <1>5 DEF LastAnswerLeaves
    <2>2. AllAccepted(q) /\ p.accepted => AllAccepted(r)
      BY <1>2 DEF AllAccepted
    <2> QED
      BY <2>1, <2>2
  <1> QED
    BY <1>3, <1>4, <1>5 DEF r

\* When the first packet is taken it may be that one, or it is what it was.
LEMMA TailAnswer ==
    ASSUME NEW S, NEW q \in Seq(S), q # <<>>, NEW W, NEW c, NEW D
    PROVE  /\ LastAnswerLeaves(q, W, c, D) =>
                 \/ LastAnswerLeaves(Tail(q), W, c, D)
                 \/ /\ NoAnswer(Tail(q)) /\ Head(q).type = "response"
                    /\ \A w \in W : w.id = Head(q).id => (c \in D <=> w.name = "complete_turn")
           /\ NoAnswer(q) => NoAnswer(Tail(q)) /\ Head(q).type # "response"
           /\ AllAccepted(q) => AllAccepted(Tail(q)) /\ (Head(q).type = "response" => Head(q).accepted)
  <1> DEFINE r == Tail(q)
  <1>1. /\ Len(q) \in Nat /\ Len(r) = Len(q) - 1 /\ Head(q) = q[1]
        /\ \A i \in 1..Len(r) : r[i] = q[i + 1]
    BY QueueFacts
  <1>0. Len(r) \in Nat /\ 1 \in 1..Len(q)
    BY QueueFacts
  <1> HIDE DEF r
  <1>2. /\ 1 \in 1..Len(q)
        /\ \A i \in 1..Len(r) : i + 1 \in 1..Len(q) /\ i + 1 > 1 /\ r[i] = q[i + 1]
        /\ \A i \in 1..Len(q) : i = 1 \/ (i - 1 \in 1..Len(r) /\ r[i - 1] = q[i])
    <2>1. \A i \in 1..Len(r) : i + 1 \in 1..Len(q) /\ i + 1 > 1 /\ r[i] = q[i + 1]
      BY <1>0, <1>1
    <2>2. ASSUME NEW i \in 1..Len(q), i # 1
          PROVE  i - 1 \in 1..Len(r) /\ r[i - 1] = q[i]
      <3>1. i - 1 \in 1..Len(r) /\ (i - 1) + 1 = i
        BY <1>0, <1>1, <2>2
      <3> QED
        BY <1>1, <3>1
    <2> QED
      BY <1>0, <2>1, <2>2
  <1>3. /\ NoAnswer(q) => NoAnswer(r) /\ q[1].type # "response"
        /\ AllAccepted(q) => AllAccepted(r) /\ (q[1].type = "response" => q[1].accepted)
    BY <1>2 DEF NoAnswer, AllAccepted
  <1>4. ASSUME LastAnswerLeaves(q, W, c, D)
        PROVE  \/ LastAnswerLeaves(r, W, c, D)
               \/ /\ NoAnswer(r) /\ q[1].type = "response"
                  /\ \A w \in W : w.id = q[1].id => (c \in D <=> w.name = "complete_turn")
    <2>1. PICK i \in 1..Len(q) :
              /\ q[i].type = "response"
              /\ \A w \in W : w.id = q[i].id => (c \in D <=> w.name = "complete_turn")
              /\ \A j \in 1..Len(q) : j > i => q[j].type # "response"
      BY <1>4 DEF LastAnswerLeaves
    <2>2. CASE i = 1
      <3>1. NoAnswer(r)
        BY <1>2, <2>1, <2>2 DEF NoAnswer
      <3> QED
        BY <2>1, <2>2, <3>1
    <2>3. CASE i - 1 \in 1..Len(r) /\ r[i - 1] = q[i]
      <3>1. ASSUME NEW j \in 1..Len(r), j > i - 1
            PROVE  r[j].type # "response"
        <4>1. j + 1 \in 1..Len(q) /\ j + 1 > i /\ r[j] = q[j + 1]
          BY <1>2, <3>1
        <4> QED
          BY <2>1, <4>1
      <3> QED
        BY <2>1, <2>3, <3>1 DEF LastAnswerLeaves
    <2> QED
      BY <1>2, <2>2, <2>3
  <1> QED
    BY <1>1, <1>3, <1>4 DEF r

\* It is judged by the answered event only.
LEMMA SameAnswer ==
    ASSUME NEW W, NEW V, NEW c, NEW D, NEW E, c \in D <=> c \in E, NEW q,
           \A i \in 1..Len(q) : q[i].type = "response" =>
              \A v \in V : v.id = q[i].id => v \in W
    PROVE  LastAnswerLeaves(q, W, c, D) => LastAnswerLeaves(q, V, c, E)
  BY DEF LastAnswerLeaves

\* No answer is behind a new turn after an append or without the first packet.
LEMMA AnswersBehind ==
    ASSUME NEW q \in Seq(ServerPacket), NoAnswerBehind(q)
    PROVE  /\ \A p \in ServerPacket : p.type # "response" \/ NoPacketAbout(q, {}) =>
                 NoAnswerBehind(Append(q, p))
           /\ q # <<>> =>
                 /\ NoAnswerBehind(Tail(q))
                 /\ Head(q).type = "event" /\ About(Head(q).event, {}) => NoAnswer(Tail(q))
  <1>1. ASSUME NEW p \in ServerPacket, p.type # "response" \/ NoPacketAbout(q, {})
        PROVE  NoAnswerBehind(Append(q, p))
    <2> DEFINE r == Append(q, p)
               n == Len(q) + 1
    <2>1. /\ Len(q) \in Nat /\ Len(r) = n
          /\ \A i \in 1..Len(q) : r[i] = q[i]
          /\ r[n] = p
      BY AppendFacts
    <2> SUFFICES ASSUME NEW i \in 1..Len(r), NEW j \in 1..Len(r), i < j,
                        r[i].type = "event", About(r[i].event, {})
                 PROVE  r[j].type # "response"
      BY DEF NoAnswerBehind
    <2>2. i \in 1..Len(q) /\ (j \in 1..Len(q) \/ j = n)
      BY <2>1
    <2>3. r[i] = q[i] /\ q[i].type = "event" /\ About(q[i].event, {})
      BY <2>1, <2>2
    <2> HIDE DEF r
    <2>4. ~NoPacketAbout(q, {})
      BY <2>2, <2>3 DEF NoPacketAbout
    <2>5. CASE j \in 1..Len(q)
      BY <2>1, <2>2, <2>3, <2>5 DEF NoAnswerBehind
    <2>6. CASE j = n
      BY <1>1, <2>1, <2>4, <2>6
    <2> QED
      BY <2>2, <2>5, <2>6
  <1>2. ASSUME q # <<>>
        PROVE  /\ NoAnswerBehind(Tail(q))
               /\ Head(q).type = "event" /\ About(Head(q).event, {}) => NoAnswer(Tail(q))
    <2> DEFINE r == Tail(q)
    <2>1. /\ Len(q) \in Nat /\ Len(r) = Len(q) - 1 /\ Head(q) = q[1]
          /\ \A i \in 1..Len(r) : r[i] = q[i + 1]
      BY <1>2, QueueFacts
    <2>5. Len(r) \in Nat /\ 1 \in 1..Len(q)
      BY <1>2, QueueFacts
    <2> HIDE DEF r
    <2>2. /\ 1 \in 1..Len(q)
          /\ \A i \in 1..Len(r) : i + 1 \in 1..Len(q) /\ 1 < i + 1 /\ r[i] = q[i + 1]
          /\ \A i, j \in 1..Len(r) : i < j => i + 1 < j + 1
      BY <2>1, <2>5
    <2>3. NoAnswerBehind(r)
      BY <2>2 DEF NoAnswerBehind
    <2>4. q[1].type = "event" /\ About(q[1].event, {}) => NoAnswer(r)
      BY <2>2 DEF NoAnswerBehind, NoAnswer
    <2> QED
      BY <2>1, <2>3, <2>4 DEF r
  <1> QED
    BY <1>1, <1>2

-----------------------------------------------------------------------------
(* A client without excuse *)

Follower(c) ==
    /\ \A who \in Subjects(c) : Follows(c, who)
    /\ OwnFollows(c)
    /\ AnswersFirst(c)

\* Nothing that c is to be told, or has, changes.
LEMMA SameKeepsFollower ==
    ASSUME NEW c, Follower(c),
           turn'[c] = turn[c], done'[c] = done[c], pending'[c] = pending[c], batch'[c] = batch[c],
           waiting'[c] = waiting[c], responses'[c] = responses[c], to_client'[c] = to_client[c],
           client_state'[c] = "running" <=> client_state[c] = "running",
           outgoing'[Host] = outgoing[Host], flushed'[Host] = flushed[Host],
           ToldTurn(c)' = ToldTurn(c), ToldDone(c)' = ToldDone(c)
    PROVE  Follower(c)'
  <1>1. /\ \A who : Follows(c, who) => Follows(c, who)'
        /\ OwnFollows(c) => OwnFollows(c)'
        /\ AnswersFirst(c) => AnswersFirst(c)'
    BY SameKeepsFollowing
  <1>2. Subjects(c)' = Subjects(c)
    BY DEF Subjects
  <1> QED
    BY <1>1, <1>2 DEF Follower

\* A click is queued behind what is there, and applies nothing.
LEMMA ClickKeepsFollower ==
    ASSUME TypeOK, NEW c \in Clients, Follower(c), NEW n \in Nodes,
           NEW name \in {"complete_turn", "uncomplete_turn"}, Click(n, name),
           ToldTurn(c)' = ToldTurn(c), ToldDone(c)' = ToldDone(c)
    PROVE  Follower(c)'
  <1>1. CASE n = c
    <2>1. \A who \in Subjects(c) : /\ Follows(c, who) => Follows(c, who)'
                                   /\ NoneAbout(pending'[c], 0, who) <=> NoneAbout(pending[c], 0, who)
      BY <1>1, ClickKeepsFollows
    <2>2. {} \in Subjects(c) /\ Subjects(c)' = Subjects(c)
      BY DEF Subjects
    <2>3. UNCHANGED <<turn, done, batch, outgoing, flushed, to_client, responses, waiting>>
      BY DEF Click, replicaVars, flushVars, netVars
    <2>4. NoTurnComing(c)' <=> NoTurnComing(c)
      BY <2>1, <2>2, <2>3 DEF NoTurnComing
    <2>5. OwnFollows(c)'
      BY <2>3, <2>4 DEF OwnFollows, Follower
    <2>6. AnswersFirst(c)'
      BY <2>1, <2>2, <2>3 DEF AnswersFirst, Follower
    <2> QED
      BY <2>1, <2>2, <2>5, <2>6 DEF Follower
  <1>2. CASE n # c
    <2>1. pending'[c] = pending[c]
      BY <1>2, WayTypes DEF Click, TypeOK
    <2>2. UNCHANGED <<turn, done, batch, outgoing, flushed, to_client, responses, waiting, client_state>>
      BY DEF Click, replicaVars, flushVars, netVars, joinVars
    <2> QED
      BY <2>1, <2>2, SameKeepsFollower
  <1> QED
    BY <1>1, <1>2

\* A batch starts when there is no answer left to handle.
LEMMA StartBatchKeepsFollower ==
    ASSUME TypeOK, NEW c \in Clients, Follower(c), NEW n \in Nodes, StartBatch(n),
           ToldTurn(c)' = ToldTurn(c), ToldDone(c)' = ToldDone(c)
    PROVE  Follower(c)'
  <1>0. UNCHANGED <<turn, done, outgoing, flushed, to_client, responses, waiting, client_state>>
    BY DEF StartBatch, replicaVars, flushVars, netVars, joinVars
  <1>1. CASE n = c
    <2>1. /\ batch'[c] = pending[c] /\ pending'[c] = <<>> /\ batch[c] = <<>> /\ responses[c] = <<>>
      BY <1>1, WayTypes DEF StartBatch, MainIdle, TypeOK
    <2>2. \A who \in Subjects(c) : Follows(c, who)'
      BY <1>1, StartBatchKeepsFollows DEF Follower
    <2>3. /\ NoneAbout(batch'[c], 0, {}) <=> NoneAbout(pending[c], 0, {})
          /\ NoneAbout(pending'[c], 0, {}) /\ NoneAbout(batch[c], 0, {}) /\ NoAnswer(responses[c])
      BY <2>1, NothingLeft
    <2>4. NoTurnComing(c)' <=> NoTurnComing(c)
      BY <1>0, <2>3 DEF NoTurnComing
    <2>5. OwnFollows(c)'
      BY <1>0, <2>4 DEF OwnFollows, Follower
    <2>6. AnswersFirst(c)'
      BY <1>0, <2>3 DEF AnswersFirst, Follower
    <2>7. Subjects(c)' = Subjects(c)
      BY DEF Subjects
    <2> QED
      BY <2>2, <2>5, <2>6, <2>7 DEF Follower
  <1>2. CASE n # c
    <2>1. pending'[c] = pending[c] /\ batch'[c] = batch[c]
      BY <1>2, WayTypes DEF StartBatch, TypeOK
    <2> QED
      BY <1>0, <2>1, SameKeepsFollower
  <1> QED
    BY <1>1, <1>2

\* A broadcast goes from the host's vector to the channel, or is c's own.
LEMMA SendKeepsFollower ==
    ASSUME TypeOK, NEW c \in Clients, Identity(c), Follower(c), SendPending(Host), ~Missed(c),
           ToldTurn(c)' = ToldTurn(c), ToldDone(c)' = ToldDone(c)
    PROVE  Follower(c)'
  <1> DEFINE O == outgoing[Host]
             k == flushed[Host]
             n == k + 1
             ev == O[n]
             p == [type |-> "event", event |-> ev]
  <1>0. /\ Host \in Nodes /\ c \in Nodes /\ c # Host
        /\ O \in Seq(Event) /\ to_client[c] \in Seq(ServerPacket)
    BY WayTypes
  <1>1. k \in Nat /\ n \in 1..Len(O) /\ n = k + 1 /\ ev \in Event /\ flushed'[Host] = n
    BY <1>0, SentIsQueued
  <1>2. p \in ServerPacket /\ p.type = "event" /\ p.event = ev
    BY <1>1 DEF ServerPacket
  <1>3. UNCHANGED <<turn, done, pending, batch, waiting, responses, outgoing, client_state>>
    BY DEF SendPending, replicaVars, queueVars, joinVars
  <1>4. to_client'[c] = IF ev.caller # c THEN Append(to_client[c], p) ELSE to_client[c]
    <2>1. ev.caller # c => c \in initialized
      BY <1>1, <1>3 DEF Missed
    <2> QED
      BY <2>1 DEF SendPending, IsSentTo
  <1>5. ev.caller = c => \A who \in Subjects(c) : ~About(ev, who)
    <2>1. ev.caller = c => ev.name # "advance_turn"
      BY <1>0, <1>1 DEF Identity, HostsAdvances
    <2> QED
      BY <2>1, OwnIsNotAbout
  <1> HIDE DEF p, n, ev
  <1>6. ASSUME NEW who \in Subjects(c)
        PROVE  /\ NoneAbout(O, k, who) <=> NoneAbout(O, n, who) /\ ~About(O[n], who)
               /\ LastLeaves(O, k, who, ToldDone(c), ToldTurn(c)) =>
                     \/ LastLeaves(O, n, who, ToldDone(c), ToldTurn(c))
                     \/ NoneAbout(O, n, who) /\ About(O[n], who) /\ Leaves(O[n], who, ToldDone(c), ToldTurn(c))
    BY <1>0, <1>1, FrontLeaves
  <1>7. ev = O[n]
    BY DEF ev
  <1>8. ASSUME NEW who \in Subjects(c)
        PROVE  /\ ~About(ev, who) =>
                     /\ LastPacketLeaves(to_client[c], who, ToldDone(c), ToldTurn(c)) =>
                           LastPacketLeaves(to_client'[c], who, ToldDone(c), ToldTurn(c))
                     /\ NoPacketAbout(to_client[c], who) <=> NoPacketAbout(to_client'[c], who)
               /\ About(ev, who) => /\ ~NoPacketAbout(to_client'[c], who)
                                    /\ Leaves(ev, who, ToldDone(c), ToldTurn(c)) =>
                                          LastPacketLeaves(to_client'[c], who, ToldDone(c), ToldTurn(c))
    <2>1. CASE ev.caller = c
      BY <1>4, <1>5, <2>1
    <2>2. CASE ev.caller # c
      BY <1>0, <1>2, <1>4, <2>2, AppendPacketLeaves
    <2> QED
      BY <2>1, <2>2
  <1>9. ASSUME NEW who \in Subjects(c)
        PROVE  Follows(c, who)'
    <2>1. Agrees(c, who)' <=> Agrees(c, who)
      BY <1>3 DEF Agrees
    <2>2. Follows(c, who)
      BY DEF Follower
    <2> QED
      BY <1>1, <1>3, <1>6, <1>7, <1>8, <2>1, <2>2 DEF Follows
  <1>10. {} \in Subjects(c) /\ Subjects(c)' = Subjects(c)
    BY DEF Subjects
  <1>11. NoTurnComing(c)' <=> NoTurnComing(c)
    BY <1>1, <1>3, <1>6, <1>7, <1>8, <1>10 DEF NoTurnComing
  <1>12. /\ \A W, D : LastAnswerLeaves(to_client[c], W, c, D) => LastAnswerLeaves(to_client'[c], W, c, D)
         /\ NoAnswer(to_client[c]) => NoAnswer(to_client'[c])
         /\ AllAccepted(to_client[c]) => AllAccepted(to_client'[c])
    <2>1. p.type # "response"
      BY <1>2
    <2> QED
      BY <1>0, <1>2, <1>4, <2>1, AppendAnswer
  <1>13. OwnFollows(c)'
    BY <1>3, <1>11, <1>12 DEF OwnFollows, Follower
  <1>14. AnswersFirst(c)'
    <2>1. NoAnswerBehind(to_client[c]) => NoAnswerBehind(to_client'[c])
      BY <1>0, <1>2, <1>4, AnswersBehind
    <2> QED
      BY <1>3, <1>12, <2>1 DEF AnswersFirst, Follower
  <1> QED
    BY <1>9, <1>10, <1>13, <1>14 DEF Follower

\* A vector is cleared of what was sent, and of what is c's own.
LEMMA ClearKeepsFollower ==
    ASSUME TypeOK, NEW c \in Clients, Identity(c), Follower(c), ClearPending(Host), ~Lost(c),
           ToldTurn(c)' = ToldTurn(c), ToldDone(c)' = ToldDone(c)
    PROVE  Follower(c)'
  <1> DEFINE O == outgoing[Host]
             k == flushed[Host]
  <1>0. Host \in Nodes /\ c \in Nodes /\ O \in Seq(Event)
    BY WayTypes
  <1>1. UNCHANGED <<turn, done, pending, batch, waiting, responses, client_state, to_client>>
    BY DEF ClearPending, replicaVars, queueVars, joinVars, netVars
  <1>2. outgoing'[Host] = <<>> /\ flushed'[Host] = 0
    BY <1>0 DEF ClearPending, TypeOK
  <1>3. O # <<>> /\ flush_end[Host] = k /\ k \in Nat /\ Len(O) \in Nat
    <2>1. flushed[Host] = flush_end[Host] /\ flush_end[Host] # 0
      BY DEF ClearPending
    <2>2. /\ flush_end[Host] \in Nat /\ Len(outgoing[Host]) \in Nat
          /\ flush_end[Host] <= Len(outgoing[Host])
      BY <1>0 DEF TypeOK
    <2>3. Len(outgoing[Host]) # 0
      BY <2>1, <2>2
    <2> QED
      BY <2>1, <2>2, <2>3
  <1>4. \A i \in 1..Len(O) : i > k => O[i].caller = c
    <2>1. \A i \in (flush_end[Host] + 1)..Len(O) : O[i].caller = c
      BY <1>2, <1>3 DEF Lost
    <2> QED
      BY <1>3, <2>1
  <1>5. \A who \in Subjects(c) : NoneAbout(O, k, who)
    <2> SUFFICES ASSUME NEW who \in Subjects(c), NEW i \in 1..Len(O), i > k
                 PROVE  ~About(O[i], who)
      BY DEF NoneAbout
    <2>1. O[i].caller = c /\ O[i].name # "advance_turn"
      BY <1>0, <1>4, WayTypes DEF Identity, HostsAdvances
    <2> QED
      BY <2>1, OwnIsNotAbout
  <1>6. \A who : ~(NoneAbout(O, k, who) /\ LastLeaves(O, k, who, ToldDone(c), ToldTurn(c)))
    BY DEF NoneAbout, LastLeaves
  <1>7. \A who : NoneAbout(outgoing'[Host], flushed'[Host], who)
    <2>1. \A who : NoneAbout(<<>>, 0, who)
      BY DEF NoneAbout
    <2> QED
      BY <1>2, <2>1
  <1>8. {} \in Subjects(c) /\ Subjects(c)' = Subjects(c)
    BY DEF Subjects
  <1>9. ASSUME NEW who \in Subjects(c)
        PROVE  Follows(c, who)'
    <2>1. Agrees(c, who)' <=> Agrees(c, who)
      BY <1>1 DEF Agrees
    <2>2. Follows(c, who)
      BY DEF Follower
    <2> QED
      BY <1>1, <1>5, <1>6, <1>7, <2>1, <2>2 DEF Follows
  <1>10. NoTurnComing(c)' <=> NoTurnComing(c)
    BY <1>1, <1>5, <1>7, <1>8 DEF NoTurnComing
  <1>11. OwnFollows(c)' /\ AnswersFirst(c)'
    BY <1>1, <1>10 DEF OwnFollows, AnswersFirst, Follower
  <1> QED
    BY <1>8, <1>9, <1>11 DEF Follower

\* No turn is on its way to a client that is on the host's turn.
LEMMA OnHostTurn ==
    ASSUME TypeOK, HostQueueInv, NothingAhead, NEW c \in Clients, InOrder(c), turn[c] = ComingTurn
    PROVE  NoTurnComing(c)
  <1>1. /\ pending[c] \in Seq(Event) /\ batch[c] \in Seq(Event) /\ outgoing[Host] \in Seq(Event)
        /\ to_client[c] \in Seq(ServerPacket)
        /\ turn[c] \in Nat /\ ComingTurn \in Nat
    BY WayTypes, ComingTurnFacts
  <1>2. NamedAt(c, 0, 1, turn[c]) /\ 0 \in Way /\ 1 \in Nat
    BY DEF NamedAt, Way
  <1>3. \A s \in 1..4 : \A i, t \in Nat : ~NamedAt(c, s, i, t)
    <2> SUFFICES ASSUME NEW s \in 1..4, NEW i \in Nat, NEW t \in Nat, NamedAt(c, s, i, t)
                 PROVE  FALSE
      OBVIOUS
    <2>1. s \in Way /\ Earlier(0, 1, s, i)
      BY DEF Way, Earlier
    <2>2. turn[c] < t
      BY <1>1, <1>2, <2>1 DEF InOrder
    <2>3. t <= ComingTurn
      BY <2>1, NamedUpToHost
    <2> QED
      BY <1>1, <2>2, <2>3
  <1>4. \A e \in Event : e.turn_id \in Nat /\ (About(e, {}) => Names(e, e.turn_id))
    BY DEF Event, About, Names
  <1>5. 1 \in 1..4 /\ 2 \in 1..4 /\ 3 \in 1..4 /\ 4 \in 1..4
    OBVIOUS
  <1>6. NoneAbout(batch[c], 0, {})
    <2> SUFFICES ASSUME NEW i \in 1..Len(batch[c]), About(batch[c][i], {})
                 PROVE  FALSE
      BY DEF NoneAbout
    <2>1. batch[c][i] \in Event /\ i \in Nat
      BY <1>1
    <2>2. NamedAt(c, 1, i, batch[c][i].turn_id)
      BY <1>4, <2>1 DEF NamedAt, QueueNames
    <2> QED
      BY <1>3, <1>4, <1>5, <2>1, <2>2
  <1>7. NoneAbout(pending[c], 0, {})
    <2> SUFFICES ASSUME NEW i \in 1..Len(pending[c]), About(pending[c][i], {})
                 PROVE  FALSE
      BY DEF NoneAbout
    <2>1. pending[c][i] \in Event /\ i \in Nat
      BY <1>1
    <2>2. NamedAt(c, 2, i, pending[c][i].turn_id)
      BY <1>4, <2>1 DEF NamedAt, QueueNames
    <2> QED
      BY <1>3, <1>4, <1>5, <2>1, <2>2
  <1>8. NoPacketAbout(to_client[c], {})
    <2> SUFFICES ASSUME NEW i \in 1..Len(to_client[c]), to_client[c][i].type = "event",
                        About(to_client[c][i].event, {})
                 PROVE  FALSE
      BY DEF NoPacketAbout
    <2>1. to_client[c][i] \in ServerPacket /\ i \in Nat
      BY <1>1
    <2>2. to_client[c][i].event \in Event
      BY <2>1 DEF ServerPacket, Response
    <2>3. NamedAt(c, 3, i, to_client[c][i].event.turn_id)
      BY <1>4, <2>2 DEF NamedAt, ChannelNames
    <2> QED
      BY <1>3, <1>4, <1>5, <2>1, <2>2, <2>3
  <1>9. NoneAbout(outgoing[Host], flushed[Host], {})
    <2> SUFFICES ASSUME NEW i \in 1..Len(outgoing[Host]), i > flushed[Host],
                        About(outgoing[Host][i], {})
                 PROVE  FALSE
      BY DEF NoneAbout
    <2>1. outgoing[Host][i] \in Event /\ i \in Nat
      BY <1>1
    <2>2. NamedAt(c, 4, i, outgoing[Host][i].turn_id)
      BY <1>4, <2>1 DEF NamedAt, UnsentNames
    <2> QED
      BY <1>3, <1>4, <1>5, <2>1, <2>2
  <1> QED
    BY <1>6, <1>7, <1>8, <1>9 DEF NoTurnComing

\* The host answers c while c is on its turn, or it tells c of another's event.
LEMMA TellKeepsFollower ==
    ASSUME TypeOK, HostQueueInv, NothingAhead,
           NEW c \in Clients, InOrder(c), Identity(c), Follower(c), Tells(c), ~Belated(c)
    PROVE  Follower(c)'
  <1> DEFINE ev == batch[Host][1]
             r == [type |-> "response", id |-> ev.id, accepted |-> TRUE]
             O == outgoing[Host]
             k == flushed[Host]
             W == waiting[c]
  <1>1. /\ batch[Host] # <<>> /\ 1 \in 1..Len(batch[Host])
        /\ Head(batch[Host]) = ev /\ ev \in Event /\ r \in ServerPacket
        /\ ev.name = "advance_turn" => ev.caller = Host
        /\ ToldDone(c)' = DoneAfter(Host, ev) /\ ToldDone(c) = done[Host]
        /\ outgoing'[Host] = IF ev.caller = c THEN O ELSE Append(O, ev)
        /\ ev.caller = c => stage = "idle" /\ stage' = "answered"
    BY TellEffect
  <1>2. to_client'[c] = IF ev.caller = c THEN Append(to_client[c], r) ELSE to_client[c]
    BY TellEffect
  <1>3. /\ turn'[c] = turn[c] /\ done'[c] = done[c] /\ pending'[c] = pending[c] /\ batch'[c] = batch[c]
        /\ UNCHANGED <<waiting, responses, flushed, client_state>>
    BY TellEffect
  <1>4. r.type = "response" /\ r.id = ev.id /\ r.accepted
    OBVIOUS
  <1>5. /\ c \in Nodes /\ Host \in Nodes /\ c # Host
        /\ O \in Seq(Event) /\ k \in 0..Len(O) /\ to_client[c] \in Seq(ServerPacket)
    <2>1. /\ c \in Nodes /\ Host \in Nodes /\ c # Host
          /\ O \in Seq(Event) /\ to_client[c] \in Seq(ServerPacket)
      BY WayTypes
    <2>2. k \in Nat /\ flush_end[Host] \in Nat /\ k <= flush_end[Host] /\ flush_end[Host] <= Len(O)
      BY <2>1 DEF TypeOK
    <2> QED
      BY <2>1, <2>2
  <1>6. ev.caller = c => NoTurnComing(c)
    <2>1. ev.caller = c => turn[c] = turn[Host] /\ ComingTurn = turn[Host]
      BY <1>1 DEF Belated, AnswersOf, ComingTurn
    <2> QED
      BY <2>1, OnHostTurn
  <1> HIDE DEF ev, r
  <1>7. \A who \in Subjects(c) : Follows(c, who)'
    BY TellKeepsFollows DEF Follower
  <1>8. {} \in Subjects(c) /\ Subjects(c)' = Subjects(c)
    BY DEF Subjects
  <1>9. About(ev, {}) <=> ev.name = "advance_turn"
    BY DEF About
  <1>10. NoneAbout(outgoing'[Host], k, {}) <=> NoneAbout(O, k, {}) /\ ev.name # "advance_turn"
    <2>1. ASSUME NEW D, NEW t
          PROVE  NoneAbout(Append(O, ev), k, {}) <=> NoneAbout(O, k, {}) /\ ~About(ev, {})
      BY <1>1, <1>5, AppendLeaves
    <2>2. ev.caller = c => ev.name # "advance_turn"
      BY <1>1, <1>5
    <2> QED
      BY <1>1, <1>9, <2>1, <2>2
  <1>11. NoPacketAbout(to_client'[c], {}) <=> NoPacketAbout(to_client[c], {})
    <2>1. r.type # "event"
      BY <1>4
    <2> QED
      BY <1>1, <1>2, <1>5, <2>1, NoEventAppended
  <1>12. NoTurnComing(c)' <=> NoTurnComing(c) /\ ev.name # "advance_turn"
    BY <1>3, <1>10, <1>11 DEF NoTurnComing
  <1>13. ev.name \in EventName
    BY <1>1 DEF Event
  <1>14. OwnFollows(c)'
    <2>1. CASE ev.name = "advance_turn"
      <3>1. ToldDone(c)' = {}
        BY <1>1, <2>1 DEF DoneAfter
      <3> QED
        BY <1>12, <2>1, <3>1 DEF OwnFollows
    <2>2. CASE ev.caller = c
      <3>1. ev.name # "advance_turn"
        BY <1>1, <1>5, <2>2
      <3>2. c \in ToldDone(c)' <=> ev.name = "complete_turn"
        BY <1>1, <1>13, <2>2, <3>1 DEF DoneAfter, EventName
      <3>3. Known(W, ev)
        BY <1>1, <2>2 DEF Identity, KnownOf, HostWork, ev
      <3>4. \A w \in W : w.id = r.id => (c \in ToldDone(c)' <=> w.name = "complete_turn")
        BY <1>4, <3>2, <3>3 DEF Known
      <3>5. LastAnswerLeaves(to_client'[c], W, c, ToldDone(c)')
        BY <1>1, <1>2, <1>4, <1>5, <2>2, <3>4, AppendAnswer
      <3> QED
        BY <1>3, <1>6, <1>12, <2>2, <3>1, <3>5 DEF OwnFollows
    <2>3. CASE ev.name # "advance_turn" /\ ev.caller # c
      <3>1. c \in ToldDone(c)' <=> c \in ToldDone(c)
        BY <1>1, <1>13, <2>3 DEF DoneAfter, EventName
      <3>2. to_client'[c] = to_client[c]
        BY <1>2, <2>3
      <3>3. \A q : LastAnswerLeaves(q, W, c, ToldDone(c)) => LastAnswerLeaves(q, W, c, ToldDone(c)')
        BY <3>1, SameAnswer
      <3> QED
        BY <1>3, <1>12, <2>3, <3>1, <3>2, <3>3 DEF OwnFollows, Follower
    <2> QED
      BY <2>1, <2>2, <2>3
  <1>15. AnswersFirst(c)'
    <2>1. CASE ev.caller = c
      <3>1. AllAccepted(to_client'[c])
        BY <1>1, <1>2, <1>4, <1>5, <2>1, AppendAnswer DEF Follower, AnswersFirst
      <3>2. NoAnswerBehind(to_client'[c])
        BY <1>1, <1>2, <1>5, <1>6, <2>1, AnswersBehind DEF Follower, AnswersFirst, NoTurnComing
      <3> QED
        BY <1>3, <1>6, <2>1, <3>1, <3>2 DEF Follower, AnswersFirst, NoTurnComing
    <2>2. CASE ev.caller # c
      BY <1>2, <1>3, <2>2 DEF Follower, AnswersFirst
    <2> QED
      BY <2>1, <2>2
  <1> QED
    BY <1>7, <1>8, <1>14, <1>15 DEF Follower

\* c's own event, which the host has answered, is queued for the others.
LEMMA OwnBroadcastKeepsFollower ==
    ASSUME TypeOK, HostQueueInv, NEW c \in Clients, Follower(c),
           HostBroadcast, Head(batch[Host]).caller = c
    PROVE  Follower(c)'
  <1> DEFINE ev == batch[Host][1]
             O == outgoing[Host]
             k == flushed[Host]
  <1>1. /\ batch[Host] # <<>> /\ Head(batch[Host]) = ev /\ ev \in Event /\ ev.caller = c
        /\ Host \in Nodes /\ c # Host /\ O \in Seq(Event) /\ Len(O) \in Nat
    BY TailElements, WayTypes DEF HostBroadcast, MainInBatch
  <1>2. k \in 0..Len(O)
    <2>1. k \in Nat /\ flush_end[Host] \in Nat /\ k <= flush_end[Host] /\ flush_end[Host] <= Len(O)
      BY <1>1 DEF TypeOK
    <2> QED
      BY <1>1, <2>1
  <1>3. /\ outgoing'[Host] = Append(O, ev) /\ stage = "answered" /\ stage' = "queued"
        /\ UNCHANGED <<turn, done, pending, batch, waiting, responses, flushed, client_state, to_client>>
    BY <1>1 DEF HostBroadcast, Broadcast, TypeOK, replicaVars, joinVars, netVars
  <1>4. ToldTurn(c)' = ToldTurn(c) /\ ToldDone(c)' = ToldDone(c)
    <2>1. Told(c) /\ Told(c)'
      BY <1>1, <1>3 DEF Told
    <2> QED
      BY <1>3, <2>1 DEF ToldTurn, ToldDone, TurnAfter, DoneAfter
  <1>5. ev.name # "advance_turn"
    <2>1. Validate(Host, ev)
      BY <1>3 DEF HostQueueInv
    <2> QED
      BY <1>1, <2>1 DEF Validate
  <1> HIDE DEF ev
  <1>6. ASSUME NEW who \in Subjects(c)
        PROVE  /\ NoneAbout(outgoing'[Host], k, who) <=> NoneAbout(O, k, who)
               /\ LastLeaves(O, k, who, ToldDone(c), ToldTurn(c)) =>
                     LastLeaves(outgoing'[Host], k, who, ToldDone(c), ToldTurn(c))
    <2>1. ~About(ev, who)
      BY <1>1, <1>5, OwnIsNotAbout
    <2>2. /\ NoneAbout(Append(O, ev), k, who) <=> NoneAbout(O, k, who)
          /\ \A D, t : LastLeaves(O, k, who, D, t) => LastLeaves(Append(O, ev), k, who, D, t)
      BY <1>1, <1>2, <2>1, AppendLeaves
    <2> QED
      BY <1>3, <2>2
  <1>7. ASSUME NEW who \in Subjects(c)
        PROVE  Follows(c, who)'
    <2>1. Agrees(c, who)' <=> Agrees(c, who)
      BY <1>3, <1>4 DEF Agrees
    <2>2. Follows(c, who)
      BY DEF Follower
    <2> QED
      BY <1>3, <1>4, <1>6, <2>1, <2>2 DEF Follows
  <1>8. {} \in Subjects(c) /\ Subjects(c)' = Subjects(c)
    BY DEF Subjects
  <1>9. NoTurnComing(c)' <=> NoTurnComing(c)
    BY <1>3, <1>6, <1>8 DEF NoTurnComing
  <1>10. OwnFollows(c)' /\ AnswersFirst(c)'
    BY <1>3, <1>4, <1>9 DEF OwnFollows, AnswersFirst, Follower
  <1> QED
    BY <1>7, <1>8, <1>10 DEF Follower

\* An answer to somebody else is nothing to c; what is applied c was told; and
\* an event of somebody else that is rejected leaves no trace.
LEMMA SilentKeepsFollower ==
    ASSUME TypeOK, HostQueueInv, NEW c \in Clients, Follower(c),
           \/ HostAnswer /\ Head(batch[Host]).caller # c
           \/ HostApply
           \/ HostReject /\ ~Rejected(c)
    PROVE  Follower(c)'
  <1>1. /\ Host \in Nodes /\ c \in Nodes /\ c # Host
        /\ Head(batch[Host]) = batch[Host][1]
    BY TailElements, WayTypes DEF HostAnswer, HostApply, HostReject, MainInBatch
  <1>2. /\ turn'[c] = turn[c] /\ pending'[c] = pending[c] /\ batch'[c] = batch[c]
        /\ UNCHANGED <<waiting, responses, flushed, client_state>>
    BY HostProcessFrame DEF HostProcess, joinVars
  <1>3. UNCHANGED outgoing
    BY DEF HostAnswer, HostApply, HostReject, flushVars
  <1>4. CASE HostApply
    <2>1. /\ turn'[Host] = TurnAfter(Host, batch[Host][1]) /\ done'[Host] = DoneAfter(Host, batch[Host][1])
          /\ stage = "queued" /\ stage' = "idle" /\ to_client' = to_client
      BY <1>4, AppliedEvent DEF HostApply, netVars
    <2>2. Told(c) /\ ~Told(c)'
      BY <2>1 DEF Told
    <2>3. ToldTurn(c)' = ToldTurn(c) /\ ToldDone(c)' = ToldDone(c)
      BY <1>1, <2>1, <2>2 DEF ToldTurn, ToldDone
    <2>4. done'[c] = done[c]
      BY <1>1, <1>4 DEF HostApply, Apply, TypeOK
    <2> QED
      BY <1>2, <1>3, <2>1, <2>3, <2>4, SameKeepsFollower
  <1>5. CASE HostAnswer /\ Head(batch[Host]).caller # c
    <2>1. /\ UNCHANGED <<turn, done, batch>> /\ stage = "idle" /\ stage' = "answered"
          /\ to_client'[c] = to_client[c]
      BY <1>1, <1>5 DEF HostAnswer, Answer, replicaVars, TypeOK
    <2>2. ~Told(c) /\ ~Told(c)'
      BY <1>5, <2>1 DEF Told
    <2>3. ToldTurn(c)' = ToldTurn(c) /\ ToldDone(c)' = ToldDone(c)
      BY <2>1, <2>2 DEF ToldTurn, ToldDone
    <2> QED
      BY <1>2, <1>3, <2>1, <2>3, SameKeepsFollower
  <1>6. CASE HostReject /\ ~Rejected(c)
    <2>1. /\ UNCHANGED <<turn, done, stage>> /\ stage = "idle"
          /\ batch' = [batch EXCEPT ![Host] = Tail(@)] /\ batch[Host] # <<>>
          /\ ~Validate(Host, Head(batch[Host]))
      BY <1>6 DEF HostReject, MainInBatch, replicaVars
    <2>2. Head(batch[Host]).caller # c
      <3>1. batch'[Host] = Tail(batch[Host])
        BY <1>1, <2>1 DEF TypeOK
      <3> QED
        BY <1>6, <2>1, <3>1 DEF Rejected, AnswersOf
    <2>3. to_client'[c] = to_client[c]
      BY <1>1, <1>6, <2>2 DEF HostReject, Answer, TypeOK
    <2>4. ToldTurn(c)' = ToldTurn(c) /\ ToldDone(c)' = ToldDone(c)
      BY <2>1 DEF ToldTurn, ToldDone, Told
    <2> QED
      BY <1>2, <1>3, <2>1, <2>3, <2>4, SameKeepsFollower
  <1> QED
    BY <1>4, <1>5, <1>6

\* c handles a click of its own: it changes what c has of itself.
LEMMA LocalKeepsFollower ==
    ASSUME TypeOK, OrderInv, NEW c \in Clients, Once(c), Identity(c), Follower(c),
           ClientProcess(c), batch[c][1].source = "LOCAL",
           ToldTurn(c)' = ToldTurn(c), ToldDone(c)' = ToldDone(c)
    PROVE  Follower(c)'
  <1> DEFINE ev == batch[c][1]
             B == batch[c]
             W == waiting[c]
  <1>0. c \in Nodes /\ Host \in Nodes /\ c # Host /\ B \in Seq(Event)
    BY WayTypes
  <1>1. B # <<>>
    BY DEF ClientProcess, ClientApply, ClientRefuse, MainInBatch
  <1>2. Head(B) = ev /\ ev \in Event /\ 1 \in 1..Len(B) /\ ev.caller = c
    <2>1. Fresh(W, c, ev) /\ Head(B) = ev /\ ev \in Event
      BY <1>1, HeadIsFresh
    <2> QED
      BY <1>0, <1>1, <2>1, TailElements DEF Fresh
  <1>3. ev.name # "advance_turn"
    BY <1>2 DEF OrderInv, OnlyHostAdvances
  <1>4. ev.name \in {"complete_turn", "uncomplete_turn"}
    BY <1>2, <1>3 DEF Event, EventName
  <1>5. /\ batch'[c] = Tail(B)
        /\ UNCHANGED <<pending, responses, flushed, client_state, to_client>>
    BY <1>0 DEF ClientProcess, ClientApply, ClientRefuse, TypeOK, flushVars, joinVars, netVars
  <1>6. /\ turn'[c] = turn[c] /\ ToldTurn(c)' = ToldTurn(c) /\ ToldDone(c)' = ToldDone(c)
        /\ outgoing'[Host] = outgoing[Host]
        /\ \A x : x # c => (x \in done'[c] <=> x \in done[c])
        /\ \/ waiting'[c] = W \cup {ev}
           \/ waiting'[c] = W /\ done'[c] = done[c]
    <2>1. CASE ClientApply(c)
      <3>1. /\ turn' = [turn EXCEPT ![c] = TurnAfter(c, ev)]
            /\ done' = [done EXCEPT ![c] = DoneAfter(c, ev)]
            /\ waiting' = [waiting EXCEPT ![c] = @ \cup {ev}]
            /\ outgoing' = [outgoing EXCEPT ![c] = Append(@, ev)]
        BY <1>2, <2>1 DEF ClientApply, Apply, StoreAndSend
      <3>2. /\ turn'[c] = TurnAfter(c, ev) /\ ToldTurn(c)' = ToldTurn(c)
            /\ done'[c] = DoneAfter(c, ev) /\ ToldDone(c)' = ToldDone(c)
            /\ waiting'[c] = W \cup {ev} /\ outgoing'[Host] = outgoing[Host]
        BY <1>0, <3>1 DEF TypeOK
      <3>3. TurnAfter(c, ev) = turn[c]
        BY <1>3 DEF TurnAfter
      <3>4. \A x : x # c => (x \in DoneAfter(c, ev) <=> x \in done[c])
        BY <1>2, <1>4 DEF DoneAfter
      <3> QED
        BY <3>2, <3>3, <3>4
    <2>2. CASE ClientRefuse(c)
      BY <2>2 DEF ClientRefuse, replicaVars, flushVars
    <2> QED
      BY <2>1, <2>2 DEF ClientProcess
  <1>7. \A i \in 1..Len(to_client[c]) : to_client[c][i].type = "response" => to_client[c][i].id # ev.id
    BY <1>1, LocalElsewhere
  <1>8. \A i \in 1..Len(responses[c]) : responses[c][i].id # ev.id
    BY <1>1, LocalElsewhere
  <1> HIDE DEF ev
  <1>9. ASSUME NEW who \in Subjects(c)
        PROVE  /\ NoneAbout(batch'[c], 0, who) <=> NoneAbout(B, 0, who)
               /\ LastLeaves(B, 0, who, ToldDone(c), ToldTurn(c)) =>
                     LastLeaves(batch'[c], 0, who, ToldDone(c), ToldTurn(c))
    <2>1. ~About(ev, who)
      BY <1>2, <1>3, OwnIsNotAbout
    <2>2. /\ NoneAbout(Tail(B), 0, who) <=> NoneAbout(B, 0, who)
          /\ \A D, t : LastLeaves(B, 0, who, D, t) => LastLeaves(Tail(B), 0, who, D, t)
      BY <1>0, <1>1, <1>2, <2>1, TailLeaves
    <2> QED
      BY <1>5, <2>2
  <1>10. ASSUME NEW who \in Subjects(c)
         PROVE  Follows(c, who)'
    <2>1. Agrees(c, who) => Agrees(c, who)'
      BY <1>5, <1>6 DEF Agrees, Subjects
    <2>2. Follows(c, who)
      BY DEF Follower
    <2> QED
      BY <1>5, <1>6, <1>9, <2>1, <2>2 DEF Follows
  <1>11. {} \in Subjects(c) /\ Subjects(c)' = Subjects(c)
    BY DEF Subjects
  <1>12. NoTurnComing(c)' <=> NoTurnComing(c)
    BY <1>5, <1>6, <1>9, <1>11 DEF NoTurnComing
  <1>13. OwnFollows(c)'
    <2>1. LastAnswerLeaves(to_client[c], W, c, ToldDone(c)) =>
             LastAnswerLeaves(to_client[c], waiting'[c], c, ToldDone(c))
      BY <1>6, <1>7, SameAnswer
    <2>2. LastAnswerLeaves(responses[c], W, c, ToldDone(c)) =>
             LastAnswerLeaves(responses[c], waiting'[c], c, ToldDone(c))
      BY <1>6, <1>8, SameAnswer
    <2>3. waiting'[c] = {} => W = {} /\ done'[c] = done[c]
      BY <1>6
    <2> QED
      BY <1>5, <1>6, <1>12, <2>1, <2>2, <2>3 DEF OwnFollows, Follower
  <1>14. AnswersFirst(c)'
    BY <1>5, <1>9, <1>11 DEF AnswersFirst, Follower
  <1> QED
    BY <1>10, <1>11, <1>13, <1>14 DEF Follower

\* c handles an event of the host: what it leaves is what c has.
LEMMA ServerKeepsFollower ==
    ASSUME TypeOK, NEW c \in Clients, Identity(c), Follower(c),
           ClientProcess(c), batch[c][1].source # "LOCAL", ~Refused(c),
           ToldTurn(c)' = ToldTurn(c), ToldDone(c)' = ToldDone(c)
    PROVE  Follower(c)'
  <1> DEFINE ev == batch[c][1]
             B == batch[c]
             W == waiting[c]
  <1>0. c \in Nodes /\ Host \in Nodes /\ c # Host /\ B \in Seq(Event)
    BY WayTypes
  <1>1. B # <<>>
    BY DEF ClientProcess, ClientApply, ClientRefuse, MainInBatch
  <1>2. Head(B) = ev /\ ev \in Event /\ ev.caller # c /\ ev.source = "SERVER"
    <2>1. Fresh(W, c, ev) /\ Head(B) = ev /\ ev \in Event
      BY <1>1, HeadIsFresh
    <2> QED
      BY <2>1 DEF Fresh
  <1>3. /\ batch'[c] = Tail(B)
        /\ UNCHANGED <<pending, responses, flushed, client_state, to_client>>
    BY <1>0 DEF ClientProcess, ClientApply, ClientRefuse, TypeOK, flushVars, joinVars, netVars
  <1>4. ClientApply(c)
    BY <1>1, <1>2, <1>3 DEF ClientProcess, ClientRefuse, Refused
  <1>5. /\ turn'[c] = TurnAfter(c, ev) /\ ToldTurn(c)' = ToldTurn(c)
        /\ done'[c] = DoneAfter(c, ev) /\ ToldDone(c)' = ToldDone(c)
        /\ UNCHANGED <<waiting, outgoing>>
    <2>1. /\ turn' = [turn EXCEPT ![c] = TurnAfter(c, ev)]
          /\ done' = [done EXCEPT ![c] = DoneAfter(c, ev)]
          /\ UNCHANGED <<waiting, outgoing>>
      BY <1>2, <1>4 DEF ClientApply, Apply
    <2> QED
      BY <1>0, <2>1 DEF TypeOK
  <1>6. ev.name \in EventName
    BY <1>2 DEF Event
  <1> HIDE DEF ev
  <1>7. ASSUME NEW who \in Subjects(c)
        PROVE  /\ NoneAbout(B, 0, who) <=> NoneAbout(batch'[c], 0, who) /\ ~About(ev, who)
               /\ LastLeaves(B, 0, who, ToldDone(c), ToldTurn(c)) =>
                     \/ LastLeaves(batch'[c], 0, who, ToldDone(c), ToldTurn(c))
                     \/ /\ NoneAbout(batch'[c], 0, who)
                        /\ About(ev, who) /\ Leaves(ev, who, ToldDone(c), ToldTurn(c))
    <2>1. /\ NoneAbout(B, 0, who) <=> NoneAbout(Tail(B), 0, who) /\ ~About(Head(B), who)
          /\ LastLeaves(B, 0, who, ToldDone(c), ToldTurn(c)) =>
                \/ LastLeaves(Tail(B), 0, who, ToldDone(c), ToldTurn(c))
                \/ /\ NoneAbout(Tail(B), 0, who)
                   /\ About(Head(B), who) /\ Leaves(Head(B), who, ToldDone(c), ToldTurn(c))
      BY <1>0, <1>1, TailLeaves
    <2> QED
      BY <1>2, <1>3, <2>1
  <1>8. ASSUME NEW who \in Subjects(c)
        PROVE  /\ ~About(ev, who) /\ Agrees(c, who) => Agrees(c, who)'
               /\ About(ev, who) /\ Leaves(ev, who, ToldDone(c), ToldTurn(c)) => Agrees(c, who)'
    <2>1. CASE who = {}
      <3>1. About(ev, who) <=> ev.name = "advance_turn"
        BY <2>1 DEF About
      <3>2. /\ Agrees(c, who) <=> (client_state[c] = "running" => turn[c] = ToldTurn(c))
            /\ Agrees(c, who)' <=> (client_state'[c] = "running" => turn'[c] = ToldTurn(c)')
        BY <2>1 DEF Agrees
      <3>3. ev.name = "advance_turn" /\ Leaves(ev, who, ToldDone(c), ToldTurn(c)) => ev.turn_id = ToldTurn(c)
        BY DEF Leaves
      <3>4. turn'[c] = IF ev.name = "advance_turn" THEN ev.turn_id ELSE turn[c]
        BY <1>5 DEF TurnAfter
      <3> QED
        BY <1>3, <1>5, <3>1, <3>2, <3>3, <3>4
    <2>2. ASSUME NEW p \in Nodes \ {c}, who = {p}
          PROVE  /\ ~About(ev, who) /\ Agrees(c, who) => Agrees(c, who)'
                 /\ About(ev, who) /\ Leaves(ev, who, ToldDone(c), ToldTurn(c)) => Agrees(c, who)'
      <3>1. About(ev, who) <=> ev.name = "advance_turn" \/ ev.caller = p
        BY <2>2 DEF About
      <3>2. /\ Agrees(c, who) <=> (p \in done[c] <=> p \in ToldDone(c))
            /\ Agrees(c, who)' <=> (p \in done'[c] <=> p \in ToldDone(c)')
        BY <2>2 DEF Agrees
      <3>3. Leaves(ev, who, ToldDone(c), ToldTurn(c)) => (p \in ToldDone(c) <=> ev.name = "complete_turn")
        BY <2>2 DEF Leaves
      <3>4. CASE ev.name = "advance_turn"
        BY <1>5, <3>1, <3>2, <3>3, <3>4 DEF DoneAfter
      <3>5. CASE ev.name = "complete_turn"
        BY <1>5, <3>1, <3>2, <3>3, <3>5 DEF DoneAfter
      <3>6. CASE ev.name = "uncomplete_turn"
        BY <1>5, <3>1, <3>2, <3>3, <3>6 DEF DoneAfter
      <3> QED
        BY <1>6, <3>4, <3>5, <3>6 DEF EventName
    <2> QED
      BY <2>1, <2>2 DEF Subjects
  <1>9. ASSUME NEW who \in Subjects(c)
        PROVE  Follows(c, who)'
    <2>1. Follows(c, who)
      BY DEF Follower
    <2> QED
      BY <1>3, <1>5, <1>7, <1>8, <2>1 DEF Follows
  <1>10. {} \in Subjects(c) /\ Subjects(c)' = Subjects(c)
    BY DEF Subjects
  <1>11. About(ev, {}) <=> ev.name = "advance_turn"
    BY DEF About
  <1>12. OwnFollows(c)'
    <2>1. CASE ev.name = "advance_turn"
      <3>1. ~NoneAbout(B, 0, {})
        BY <1>7, <1>10, <1>11, <2>1
      <3>2. c \notin ToldDone(c)
        BY <3>1 DEF Follower, OwnFollows, NoTurnComing
      <3>3. NoAnswer(to_client[c]) /\ NoAnswer(responses[c])
        BY <3>1 DEF Follower, AnswersFirst
      <3>4. done'[c] = {}
        BY <1>5, <2>1 DEF DoneAfter
      <3> QED
        BY <1>3, <1>5, <3>2, <3>3, <3>4 DEF OwnFollows
    <2>2. CASE ev.name # "advance_turn"
      <3>1. c \in done'[c] <=> c \in done[c]
        BY <1>2, <1>5, <1>6, <2>2 DEF DoneAfter, EventName
      <3>2. NoTurnComing(c)' <=> NoTurnComing(c)
        BY <1>3, <1>5, <1>7, <1>10, <1>11, <2>2 DEF NoTurnComing
      <3> QED
        BY <1>3, <1>5, <3>1, <3>2 DEF Follower, OwnFollows
    <2> QED
      BY <2>1, <2>2
  <1>13. AnswersFirst(c)'
    BY <1>3, <1>7, <1>10 DEF AnswersFirst, Follower
  <1> QED
    BY <1>9, <1>10, <1>12, <1>13 DEF Follower

\* An answer is about c alone, and the last one leaves what the host has.
LEMMA ResponseKeepsFollower ==
    ASSUME TypeOK, OrderInv, NEW c \in Clients, Identity(c), Follower(c), HandleResponse(c),
           ToldTurn(c)' = ToldTurn(c), ToldDone(c)' = ToldDone(c)
    PROVE  Follower(c)'
  <1> DEFINE R == responses[c]
             r == Head(R)
             W == waiting[c]
  <1>0. c \in Nodes /\ Host \in Nodes /\ c # Host /\ R \in Seq(Response)
    BY WayTypes
  <1>1. R # <<>> /\ responses'[c] = Tail(R)
    BY <1>0 DEF HandleResponse, TypeOK
  <1>2. r.type = "response"
    <2>1. r \in Response
      BY <1>0, <1>1, TailElements
    <2> QED
      BY <2>1 DEF Response
  <1>3. r.accepted
    BY <1>0, <1>1, <1>2, TailAnswer DEF Follower, AnswersFirst
  <1>4. PICK ev \in W :
           /\ ev.id = r.id
           /\ turn' = [turn EXCEPT ![c] = IF r.accepted /\ ~WasApplied(ev) THEN TurnAfter(c, ev) ELSE @]
           /\ done' = [done EXCEPT ![c] =
                    IF r.accepted
                    THEN IF WasApplied(ev) THEN @ ELSE DoneAfter(c, ev)
                    ELSE IF WasApplied(ev) THEN DoneRolledBack(c, ev) ELSE @]
           /\ waiting' = [waiting EXCEPT ![c] = @ \ {ev}]
    BY DEF HandleResponse
  <1>5. /\ ev \in Event /\ ev.source = "LOCAL" /\ ev.caller = c /\ ev.name # "advance_turn"
    <2>1. W \subseteq Event
      BY DEF TypeOK
    <2> QED
      BY <2>1 DEF Identity, IssuedBy, OrderInv, OnlyHostAdvances
  <1>6. ~WasApplied(ev) /\ TurnAfter(c, ev) = turn[c]
    BY <1>5 DEF WasApplied, TurnAfter
  <1>7. /\ turn'[c] = turn[c] /\ ToldTurn(c)' = ToldTurn(c)
        /\ done'[c] = DoneAfter(c, ev) /\ ToldDone(c)' = ToldDone(c)
        /\ waiting'[c] = W \ {ev}
    BY <1>0, <1>3, <1>4, <1>6 DEF TypeOK
  <1>8. UNCHANGED <<pending, batch, outgoing, flushed, client_state, to_client>>
    BY DEF HandleResponse, flushVars, joinVars, netVars
  <1>9. /\ \A x : x # c => (x \in done'[c] <=> x \in done[c])
        /\ c \in done'[c] <=> ev.name = "complete_turn"
    <2>1. ev.name \in {"complete_turn", "uncomplete_turn"}
      BY <1>5 DEF Event, EventName
    <2> QED
      BY <1>5, <1>7, <2>1 DEF DoneAfter
  <1> HIDE DEF r
  <1>10. ASSUME NEW who \in Subjects(c)
         PROVE  Follows(c, who)'
    <2>1. Agrees(c, who) => Agrees(c, who)'
      BY <1>7, <1>8, <1>9 DEF Agrees, Subjects
    <2>2. Follows(c, who)
      BY DEF Follower
    <2> QED
      BY <1>7, <1>8, <2>1, <2>2 DEF Follows
  <1>11. Subjects(c)' = Subjects(c)
    BY DEF Subjects
  <1>12. NoTurnComing(c)' <=> NoTurnComing(c)
    BY <1>8 DEF NoTurnComing
  <1>13. OwnFollows(c)'
    <2>1. \A q : LastAnswerLeaves(q, W, c, ToldDone(c)) => LastAnswerLeaves(q, waiting'[c], c, ToldDone(c))
      BY <1>7, SameAnswer
    <2>2. ~NoAnswer(R)
      BY <1>0, <1>1, <1>2, TailAnswer DEF r
    <2>3. LastAnswerLeaves(R, W, c, ToldDone(c)) =>
             \/ LastAnswerLeaves(Tail(R), W, c, ToldDone(c))
             \/ NoAnswer(Tail(R)) /\ (c \in ToldDone(c) <=> ev.name = "complete_turn")
      BY <1>0, <1>1, <1>4, TailAnswer DEF r
    <2> QED
      BY <1>1, <1>7, <1>8, <1>9, <1>12, <2>1, <2>2, <2>3 DEF OwnFollows, Follower
  <1>14. AnswersFirst(c)'
    <2>1. /\ AllAccepted(R) => AllAccepted(Tail(R))
          /\ NoAnswer(R) => NoAnswer(Tail(R))
      BY <1>0, <1>1, TailAnswer
    <2> QED
      BY <1>1, <1>8, <2>1 DEF AnswersFirst, Follower
  <1> QED
    BY <1>10, <1>11, <1>13, <1>14 DEF Follower

\* The first packet for c has been received.
LEMMA ReceivedPacket ==
    ASSUME TypeOK, NEW c \in Clients, ClientReceive(c)
    PROVE  /\ to_client[c] # <<>> /\ to_client'[c] = Tail(to_client[c])
           /\ Head(to_client[c]) \in ServerPacket
           /\ batch'[c] = batch[c]
           /\ UNCHANGED <<outgoing, flushed, waiting>>
           /\ \A d \in Clients : d # c => client_state'[d] = client_state[d]
  <1>1. c \in Nodes /\ Host \in Nodes /\ c # Host /\ to_client[c] \in Seq(ServerPacket)
    BY WayTypes
  <1>2. to_client[c] # <<>> /\ to_client'[c] = Tail(to_client[c])
    BY <1>1 DEF ClientReceive, ClientReceiveSnapshot, ClientReceiveEvent, ClientReceiveResponse, TypeOK
  <1>3. Head(to_client[c]) \in ServerPacket
    BY <1>1, <1>2, TailElements
  <1>4. /\ UNCHANGED <<batch, outgoing, flushed, waiting>>
        /\ \A d \in Clients : d # c => client_state'[d] = client_state[d]
    BY <1>1 DEF ClientReceive, ClientReceiveSnapshot, ClientReceiveEvent, ClientReceiveResponse, TypeOK,
                replicaVars, queueVars, flushVars, joinVars
  <1> QED
    BY <1>2, <1>3, <1>4

\* The snapshot gives c the turn, and nothing that it had is lost.
LEMMA SnapshotKeepsFollower ==
    ASSUME TypeOK, HostQueueInv, JoinInv, NEW c \in Clients, Identity(c), Follower(c),
           ClientReceiveSnapshot(c),
           ToldTurn(c)' = ToldTurn(c), ToldDone(c)' = ToldDone(c)
    PROVE  Follower(c)'
  <1> DEFINE Q == to_client[c]
  <1>0. c \in Nodes /\ Host \in Nodes /\ c # Host /\ Q \in Seq(ServerPacket)
    BY WayTypes
  <1>1. /\ Q # <<>> /\ to_client'[c] = Tail(Q) /\ batch'[c] = batch[c]
        /\ ToldTurn(c)' = ToldTurn(c) /\ ToldDone(c)' = ToldDone(c)
        /\ UNCHANGED <<outgoing, flushed, waiting>>
    BY ReceivedPacket DEF ClientReceive
  <1>2. Head(Q).type = "snapshot" /\ UNCHANGED <<pending, responses>>
    BY DEF ClientReceiveSnapshot, queueVars
  <1>3. Joining(c) /\ client_state[c] # "running"
    <2>1. 1 \in 1..Len(Q) /\ Q[1].type = "snapshot"
      BY <1>0, <1>1, <1>2, TailElements
    <2> QED
      BY <2>1 DEF JoinInv, Joined
  <1>4. Head(Q).turn_id = 1 /\ ToldTurn(c) = 1
    <2>1. Q = <<[type |-> "snapshot", turn_id |-> 1]>>
      BY <1>1, <1>3 DEF Joining, Asking
    <2>2. Head(Q) = [type |-> "snapshot", turn_id |-> 1]
      BY <2>1, Singleton
    <2>3. HostWaitsFor(c) /\ turn[Host] = 1
      BY <1>3 DEF Joining, HostWaitsFor
    <2>4. Told(c) => /\ batch[Host] # <<>> /\ Validate(Host, batch[Host][1])
      BY DEF Told, TypeOK, HostQueueInv
    <2>5. Told(c) => TurnAfter(Host, Head(batch[Host])) = turn[Host]
      BY <2>3, <2>4, AcceptWhileJoining DEF TurnAfter
    <2> QED
      BY <2>2, <2>3, <2>5 DEF ToldTurn
  <1>5. turn'[c] = ToldTurn(c)' /\ done'[c] = {} /\ done[c] = {}
    BY <1>0, <1>1, <1>3, <1>4 DEF ClientReceiveSnapshot, Identity, TypeOK
  <1>6. ASSUME NEW who \in Subjects(c)
        PROVE  /\ NoPacketAbout(Q, who) <=> NoPacketAbout(Tail(Q), who)
               /\ LastPacketLeaves(Q, who, ToldDone(c), ToldTurn(c)) =>
                     LastPacketLeaves(Tail(Q), who, ToldDone(c), ToldTurn(c))
    BY <1>0, <1>1, <1>2, TailPacketLeaves
  <1>7. ASSUME NEW who \in Subjects(c)
        PROVE  Follows(c, who)'
    <2>1. Agrees(c, who) => Agrees(c, who)'
      BY <1>1, <1>5 DEF Agrees
    <2>2. Follows(c, who)
      BY DEF Follower
    <2> QED
      BY <1>1, <1>2, <1>6, <2>1, <2>2 DEF Follows
  <1>8. {} \in Subjects(c) /\ Subjects(c)' = Subjects(c)
    BY DEF Subjects
  <1>9. NoTurnComing(c)' <=> NoTurnComing(c)
    BY <1>1, <1>2, <1>6, <1>8 DEF NoTurnComing
  <1>10. /\ NoAnswer(Q) => NoAnswer(Tail(Q))
         /\ AllAccepted(Q) => AllAccepted(Tail(Q))
         /\ \A W, D : LastAnswerLeaves(Q, W, c, D) => LastAnswerLeaves(Tail(Q), W, c, D)
    BY <1>0, <1>1, <1>2, TailAnswer
  <1>11. OwnFollows(c)'
    BY <1>1, <1>2, <1>5, <1>9, <1>10 DEF OwnFollows, Follower
  <1>12. AnswersFirst(c)'
    <2>1. NoAnswerBehind(Q) => NoAnswerBehind(Tail(Q))
      BY <1>0, <1>1, AnswersBehind
    <2> QED
      BY <1>1, <1>2, <1>10, <2>1 DEF AnswersFirst, Follower
  <1> QED
    BY <1>7, <1>8, <1>11, <1>12 DEF Follower

\* An event of the host goes from the channel to the queue; answers to what
\* came before a new turn have left the channel by then.
LEMMA EventKeepsFollower ==
    ASSUME TypeOK, NEW c \in Clients, Follower(c), ClientReceiveEvent(c),
           ToldTurn(c)' = ToldTurn(c), ToldDone(c)' = ToldDone(c)
    PROVE  Follower(c)'
  <1> DEFINE Q == to_client[c]
             P == pending[c]
             ev == Deserialized(Head(Q).event, "SERVER")
             h == Head(Q).event
  <1>0. c \in Nodes /\ Host \in Nodes /\ c # Host /\ Q \in Seq(ServerPacket) /\ P \in Seq(Event)
    BY WayTypes
  <1>1. /\ Q # <<>> /\ to_client'[c] = Tail(Q) /\ batch'[c] = batch[c] /\ Head(Q) \in ServerPacket
        /\ UNCHANGED <<outgoing, flushed, waiting>>
    BY ReceivedPacket DEF ClientReceive
  <1>2. /\ Head(Q).type = "event" /\ UNCHANGED <<turn, done, responses, client_state>>
        /\ pending'[c] = Append(P, ev)
    BY <1>0 DEF ClientReceiveEvent, replicaVars, joinVars, TypeOK
  <1>3. h \in Event
    BY <1>1, <1>2 DEF ServerPacket, Response
  <1>4. ev \in Event /\ ev.name = h.name /\ ev.caller = h.caller /\ ev.turn_id = h.turn_id
    <2>1. ev \in Event
      BY <1>3, DeserializedIsEvent DEF Source
    <2> QED
      BY <1>3, <2>1 DEF Deserialized, Event
  <1> HIDE DEF ev
  <1>5. \A who, D, t : (About(ev, who) <=> About(h, who)) /\ (Leaves(ev, who, D, t) <=> Leaves(h, who, D, t))
    BY <1>4 DEF About, Leaves
  <1> HIDE DEF h
  <1>6. h = Head(Q).event
    BY DEF h
  <1>7. ASSUME NEW who \in Subjects(c)
        PROVE  /\ NoPacketAbout(Q, who) <=> NoPacketAbout(Tail(Q), who) /\ ~About(ev, who)
               /\ LastPacketLeaves(Q, who, ToldDone(c), ToldTurn(c)) =>
                     \/ LastPacketLeaves(Tail(Q), who, ToldDone(c), ToldTurn(c))
                     \/ /\ NoPacketAbout(Tail(Q), who)
                        /\ About(ev, who) /\ Leaves(ev, who, ToldDone(c), ToldTurn(c))
    BY <1>0, <1>1, <1>2, <1>5, <1>6, TailPacketLeaves
  <1>8. ASSUME NEW who \in Subjects(c)
        PROVE  /\ About(ev, who) /\ Leaves(ev, who, ToldDone(c), ToldTurn(c)) =>
                     LastLeaves(pending'[c], 0, who, ToldDone(c), ToldTurn(c))
               /\ ~About(ev, who) /\ LastLeaves(P, 0, who, ToldDone(c), ToldTurn(c)) =>
                     LastLeaves(pending'[c], 0, who, ToldDone(c), ToldTurn(c))
               /\ NoneAbout(pending'[c], 0, who) <=> NoneAbout(P, 0, who) /\ ~About(ev, who)
    <2>1. 0 \in 0..Len(P)
      BY <1>0
    <2>2. /\ About(ev, who) /\ Leaves(ev, who, ToldDone(c), ToldTurn(c)) =>
                LastLeaves(Append(P, ev), 0, who, ToldDone(c), ToldTurn(c))
          /\ ~About(ev, who) /\ LastLeaves(P, 0, who, ToldDone(c), ToldTurn(c)) =>
                LastLeaves(Append(P, ev), 0, who, ToldDone(c), ToldTurn(c))
          /\ NoneAbout(Append(P, ev), 0, who) <=> NoneAbout(P, 0, who) /\ ~About(ev, who)
      BY <1>0, <1>4, <2>1, AppendLeaves
    <2> QED
      BY <1>2, <2>2
  <1>9. ASSUME NEW who \in Subjects(c)
        PROVE  Follows(c, who)'
    <2>1. Agrees(c, who)' <=> Agrees(c, who)
      BY <1>2 DEF Agrees
    <2>2. Follows(c, who)
      BY DEF Follower
    <2> QED
      BY <1>1, <1>2, <1>7, <1>8, <2>1, <2>2 DEF Follows
  <1>10. {} \in Subjects(c) /\ Subjects(c)' = Subjects(c)
    BY DEF Subjects
  <1>11. NoTurnComing(c)' <=> NoTurnComing(c)
    BY <1>1, <1>2, <1>7, <1>8, <1>10 DEF NoTurnComing
  <1>12. /\ NoAnswer(Q) => NoAnswer(Tail(Q))
         /\ AllAccepted(Q) => AllAccepted(Tail(Q))
         /\ \A W, D : LastAnswerLeaves(Q, W, c, D) => LastAnswerLeaves(Tail(Q), W, c, D)
    BY <1>0, <1>1, <1>2, TailAnswer
  <1>13. OwnFollows(c)'
    BY <1>1, <1>2, <1>11, <1>12 DEF OwnFollows, Follower
  <1>14. AnswersFirst(c)'
    <2>1. NoAnswerBehind(Q) => NoAnswerBehind(Tail(Q)) /\ (About(ev, {}) => NoAnswer(Tail(Q)))
      BY <1>0, <1>1, <1>2, <1>5, <1>6, AnswersBehind
    <2> QED
      BY <1>1, <1>2, <1>8, <1>10, <1>12, <2>1 DEF AnswersFirst, Follower
  <1> QED
    BY <1>9, <1>10, <1>13, <1>14 DEF Follower

\* An answer goes from the channel to those to be handled.
LEMMA AnswerKeepsFollower ==
    ASSUME TypeOK, NEW c \in Clients, Follower(c), ClientReceiveResponse(c),
           ToldTurn(c)' = ToldTurn(c), ToldDone(c)' = ToldDone(c)
    PROVE  Follower(c)'
  <1> DEFINE Q == to_client[c]
             R == responses[c]
             p == Head(Q)
  <1>0. c \in Nodes /\ Host \in Nodes /\ c # Host /\ Q \in Seq(ServerPacket) /\ R \in Seq(Response)
    BY WayTypes
  <1>1. /\ Q # <<>> /\ to_client'[c] = Tail(Q) /\ batch'[c] = batch[c] /\ p \in ServerPacket
        /\ UNCHANGED <<outgoing, flushed, waiting>>
    BY ReceivedPacket DEF ClientReceive
  <1>2. /\ p.type = "response" /\ UNCHANGED <<turn, done, pending, client_state>>
        /\ responses'[c] = Append(R, p)
    BY <1>0 DEF ClientReceiveResponse, replicaVars, joinVars, TypeOK
  <1>3. p \in Response
    BY <1>1, <1>2 DEF ServerPacket, Response
  <1>4. batch[c] = <<>>
    BY DEF ClientReceiveResponse, MainIdle
  <1>5. \A who \in Subjects(c) :
           /\ NoPacketAbout(Q, who) <=> NoPacketAbout(Tail(Q), who)
           /\ LastPacketLeaves(Q, who, ToldDone(c), ToldTurn(c)) =>
                 LastPacketLeaves(Tail(Q), who, ToldDone(c), ToldTurn(c))
    BY <1>0, <1>1, <1>2, TailPacketLeaves
  <1>6. ASSUME NEW who \in Subjects(c)
        PROVE  Follows(c, who)'
    <2>1. Agrees(c, who)' <=> Agrees(c, who)
      BY <1>2 DEF Agrees
    <2>2. Follows(c, who)
      BY DEF Follower
    <2> QED
      BY <1>1, <1>2, <1>5, <2>1, <2>2 DEF Follows
  <1>7. {} \in Subjects(c) /\ Subjects(c)' = Subjects(c)
    BY DEF Subjects
  <1>8. NoTurnComing(c)' <=> NoTurnComing(c)
    BY <1>1, <1>2, <1>5, <1>7 DEF NoTurnComing
  <1> HIDE DEF p
  <1>9. /\ LastAnswerLeaves(Q, waiting[c], c, ToldDone(c)) =>
              \/ LastAnswerLeaves(Tail(Q), waiting[c], c, ToldDone(c))
              \/ NoAnswer(Tail(Q)) /\ LastAnswerLeaves(Append(R, p), waiting[c], c, ToldDone(c))
        /\ ~NoAnswer(Q)
        /\ AllAccepted(Q) => AllAccepted(Tail(Q)) /\ p.accepted
    <2>1. /\ LastAnswerLeaves(Q, waiting[c], c, ToldDone(c)) =>
                \/ LastAnswerLeaves(Tail(Q), waiting[c], c, ToldDone(c))
                \/ /\ NoAnswer(Tail(Q))
                   /\ \A w \in waiting[c] : w.id = p.id => (c \in ToldDone(c) <=> w.name = "complete_turn")
      BY <1>0, <1>1, TailAnswer DEF p
    <2>2. /\ NoAnswer(Q) => p.type # "response"
          /\ AllAccepted(Q) => AllAccepted(Tail(Q)) /\ (p.type = "response" => p.accepted)
      BY <1>0, <1>1, TailAnswer DEF p
    <2>3. (\A w \in waiting[c] : w.id = p.id => (c \in ToldDone(c) <=> w.name = "complete_turn")) =>
             LastAnswerLeaves(Append(R, p), waiting[c], c, ToldDone(c))
      BY <1>0, <1>2, <1>3, AppendAnswer
    <2> QED
      BY <1>2, <2>1, <2>2, <2>3
  <1>10. AllAccepted(R) /\ p.accepted => AllAccepted(Append(R, p))
    BY <1>0, <1>2, <1>3, AppendAnswer
  <1>11. OwnFollows(c)'
    BY <1>1, <1>2, <1>8, <1>9 DEF OwnFollows, Follower
  <1>12. AnswersFirst(c)'
    <2>1. NoAnswerBehind(Q) => NoAnswerBehind(Tail(Q))
      BY <1>0, <1>1, AnswersBehind
    <2>2. NoneAbout(batch[c], 0, {})
      BY <1>4, NothingLeft
    <2> QED
      BY <1>1, <1>2, <1>9, <1>10, <2>1, <2>2 DEF AnswersFirst, Follower
  <1> QED
    BY <1>6, <1>7, <1>11, <1>12 DEF Follower

\* A client asks to join, and the host receives a packet.
LEMMA HostReceiveKeepsFollower ==
    ASSUME TypeOK, NEW c \in Clients, Follower(c), NEW d \in Clients,
           RequestDownload(d) \/ HostReceive(d),
           ToldTurn(c)' = ToldTurn(c), ToldDone(c)' = ToldDone(c)
    PROVE  Follower(c)'
  <1>0. c \in Nodes /\ Host \in Nodes /\ c # Host /\ to_client[c] \in Seq(ServerPacket)
    BY WayTypes
  <1>1. /\ UNCHANGED <<turn, done, batch, waiting, responses, outgoing, flushed>>
        /\ pending'[c] = pending[c]
    BY <1>0 DEF RequestDownload, HostReceive, HostSendSnapshot, HostReceiveFlags, HostReceiveEvent,
           replicaVars, queueVars, flushVars, TypeOK
  <1>2. client_state'[c] = "running" <=> client_state[c] = "running"
    BY DEF RequestDownload, HostReceive, HostSendSnapshot, HostReceiveFlags, HostReceiveEvent,
           joinVars, TypeOK
  <1>3. CASE to_client'[c] = to_client[c]
    BY <1>1, <1>2, <1>3, SameKeepsFollower
  <1>4. CASE HostSendSnapshot(d) /\ to_client'[c] # to_client[c]
    <2> DEFINE Q == to_client[c]
    <2>1. to_client'[c] = Append(Q, Snapshot)
      BY <1>4 DEF HostSendSnapshot, TypeOK
    <2>2. Snapshot \in ServerPacket /\ Snapshot.type = "snapshot"
      BY <1>0 DEF Snapshot, ServerPacket, TypeOK
    <2>3. Snapshot.type # "event" /\ Snapshot.type # "response"
      BY <2>2
    <2>4. /\ \A who, D, t : LastPacketLeaves(Q, who, D, t) => LastPacketLeaves(to_client'[c], who, D, t)
          /\ \A who : NoPacketAbout(to_client'[c], who) <=> NoPacketAbout(Q, who)
      BY <1>0, <2>1, <2>2, <2>3, NoEventAppended
    <2>5. /\ \A W, D : LastAnswerLeaves(Q, W, c, D) => LastAnswerLeaves(to_client'[c], W, c, D)
          /\ NoAnswer(Q) => NoAnswer(to_client'[c])
          /\ AllAccepted(Q) => AllAccepted(to_client'[c])
      BY <1>0, <2>1, <2>2, <2>3, AppendAnswer
    <2>6. NoAnswerBehind(Q) => NoAnswerBehind(to_client'[c])
      BY <1>0, <2>1, <2>2, <2>3, AnswersBehind
    <2>7. ASSUME NEW who \in Subjects(c)
          PROVE  Follows(c, who)'
      <3>1. Agrees(c, who)' <=> Agrees(c, who)
        BY <1>1, <1>2 DEF Agrees
      <3>2. Follows(c, who)
        BY DEF Follower
      <3> QED
        BY <1>1, <2>4, <3>1, <3>2 DEF Follows
    <2>8. NoTurnComing(c)' <=> NoTurnComing(c)
      BY <1>1, <2>4 DEF NoTurnComing
    <2>9. OwnFollows(c)' /\ AnswersFirst(c)'
      BY <1>1, <2>5, <2>6, <2>8 DEF OwnFollows, AnswersFirst, Follower
    <2>10. Subjects(c)' = Subjects(c)
      BY DEF Subjects
    <2> QED
      BY <2>7, <2>9, <2>10 DEF Follower
  <1> QED
    BY <1>3, <1>4 DEF RequestDownload, HostReceive, HostReceiveFlags, HostReceiveEvent

\* What another client does concerns c only by way of the host.
LEMMA OthersKeepFollower ==
    ASSUME TypeOK, NEW c \in Clients, Follower(c), NEW d \in Clients, d # c,
           ClientProcess(d) \/ HandleResponse(d) \/ ClientReceive(d),
           ToldTurn(c)' = ToldTurn(c), ToldDone(c)' = ToldDone(c)
    PROVE  Follower(c)'
  <1>1. /\ turn'[c] = turn[c] /\ batch'[c] = batch[c] /\ pending'[c] = pending[c]
        /\ to_client'[c] = to_client[c] /\ outgoing'[Host] = outgoing[Host]
        /\ flushed'[Host] = flushed[Host] /\ waiting'[c] = waiting[c]
    BY OthersKeepWay
  <1>2. c \in Nodes /\ Host \in Nodes /\ c # Host /\ d \in Nodes /\ d # Host
    BY WayTypes
  <1>3. done'[c] = done[c] /\ client_state'[c] = client_state[c] /\ responses'[c] = responses[c]
    BY <1>2 DEF ClientProcess, ClientApply, ClientRefuse, Apply, HandleResponse, ClientReceive,
           ClientReceiveSnapshot, ClientReceiveEvent, ClientReceiveResponse, TypeOK, joinVars, replicaVars,
           queueVars
  <1> QED
    BY <1>1, <1>3, SameKeepsFollower

\* Whatever happens, c follows or gets an excuse.
LEMMA StepFollower ==
    ASSUME TypeOK, HostQueueInv, NothingAhead, JoinInv, OrderInv, TripInv, IdentityInv,
           AgreementNext \/ UNCHANGED agreementVars,
           NEW c \in Clients, c \notin excused', Follower(c)
    PROVE  Follower(c)'
<1>0. /\ InOrder(c) /\ Identity(c) /\ Trip(c) /\ Once(c)
  BY DEF OrderInv, IdentityInv, TripInv, Trip
<1>1. CASE UNCHANGED agreementVars
  <2>1. /\ UNCHANGED <<turn, done, pending, batch, stage, waiting, responses, to_client, client_state>>
        /\ UNCHANGED <<outgoing, flushed>>
    BY <1>1 DEF agreementVars, vars, replicaVars, queueVars, flushVars, joinVars, netVars
  <2>2. ToldTurn(c)' = ToldTurn(c) /\ ToldDone(c)' = ToldDone(c)
    BY <2>1 DEF ToldTurn, ToldDone, Told, TurnAfter, DoneAfter
  <2> QED
    BY <2>1, <2>2, SameKeepsFollower
<1>2. CASE AgreementNext
  <2>1. ~Missed(c) /\ ~Lost(c) /\ ~Refused(c) /\ ~Rejected(c) /\ ~Belated(c)
    BY <1>2 DEF AgreementNext
  <2>2. CASE HostProcess
    <3>1. CASE Tells(c)
      BY <1>0, <2>1, <3>1, TellKeepsFollower
    <3>2. CASE HostBroadcast /\ Head(batch[Host]).caller = c
      BY <3>2, OwnBroadcastKeepsFollower
    <3>3. CASE \/ HostAnswer /\ Head(batch[Host]).caller # c
               \/ HostApply
               \/ HostReject
      BY <2>1, <3>3, SilentKeepsFollower
    <3> QED
      BY <2>2, <3>1, <3>2, <3>3 DEF HostProcess, Tells
  <2>3. CASE ~HostProcess
    <3>1. ToldTurn(c)' = ToldTurn(c) /\ ToldDone(c)' = ToldDone(c)
      BY <1>2, <2>3, OthersTellNothing DEF AgreementNext
    <3>2. ASSUME NEW n \in Nodes, NEW name \in {"complete_turn", "uncomplete_turn"}, Click(n, name)
          PROVE  Follower(c)'
      BY <3>1, <3>2, ClickKeepsFollower
    <3>3. ASSUME NEW n \in Nodes, StartBatch(n)
          PROVE  Follower(c)'
      BY <3>1, <3>3, StartBatchKeepsFollower
    <3>4. ASSUME NEW n \in Nodes, Flush(n)
          PROVE  Follower(c)'
      <4>1. CASE n = Host
        BY <1>0, <2>1, <3>1, <3>4, <4>1, SendKeepsFollower, ClearKeepsFollower DEF Flush
      <4>2. CASE n # Host
        <5>1. /\ UNCHANGED <<turn, done, pending, batch, waiting, responses, to_client, client_state>>
              /\ outgoing'[Host] = outgoing[Host] /\ flushed'[Host] = flushed[Host]
          BY <3>4, <4>2, WayTypes DEF Flush, SendPending, ClearPending, TypeOK, replicaVars, queueVars,
             joinVars, netVars
        <5> QED
          BY <3>1, <5>1, SameKeepsFollower
      <4> QED
        BY <4>1, <4>2
    <3>5. ASSUME NEW d \in Clients, RequestDownload(d) \/ HostReceive(d)
          PROVE  Follower(c)'
      BY <3>1, <3>5, HostReceiveKeepsFollower
    <3>6. ASSUME NEW d \in Clients, ClientProcess(d) \/ HandleResponse(d) \/ ClientReceive(d)
          PROVE  Follower(c)'
      <4>1. CASE d # c
        BY <3>1, <3>6, <4>1, OthersKeepFollower
      <4>2. CASE ClientProcess(c)
        BY <1>0, <2>1, <3>1, <4>2, LocalKeepsFollower, ServerKeepsFollower
      <4>3. CASE HandleResponse(c)
        BY <1>0, <3>1, <4>3, ResponseKeepsFollower
      <4>4. CASE ClientReceive(c)
        BY <1>0, <3>1, <4>4, SnapshotKeepsFollower, EventKeepsFollower, AnswerKeepsFollower
        DEF ClientReceive
      <4> QED
        BY <3>6, <4>1, <4>2, <4>3, <4>4
    <3> QED
      BY <1>2, <2>3, <3>2, <3>3, <3>4, <3>5, <3>6 DEF AgreementNext, Next
  <2> QED
    BY <2>2, <2>3
<1> QED
  BY <1>1, <1>2

\* The parts of the invariant.
LEMMA FollowersFollow == ReplicasFollow <=> \A c \in Clients \ excused : Follower(c)
  <1>1. ASSUME NEW c \in Clients
        PROVE  (\A who \in Subjects(c) : Follows(c, who)) <=>
                  Follows(c, {}) /\ \A p \in Nodes \ {c} : Follows(c, {p})
    BY DEF Subjects
  <1> QED
    BY <1>1 DEF ReplicasFollow, Follower

\* At first nobody has anything.
LEMMA InitReplicasFollow == Init => ReplicasFollow
  <1> SUFFICES ASSUME Init, NEW c \in Clients
               PROVE  Follower(c)
    BY FollowersFollow
  <1>1. /\ pending[c] = <<>> /\ batch[c] = <<>> /\ outgoing[Host] = <<>> /\ flushed[Host] = 0
        /\ to_client[c] = <<>> /\ responses[c] = <<>> /\ waiting[c] = {}
        /\ done[c] = {} /\ ToldDone(c) = {} /\ client_state[c] # "running"
    BY SlotAssumption DEF Init, Nodes, ToldDone, Told
  <1>2. \A who : NoneAbout(<<>>, 0, who) /\ NoPacketAbout(<<>>, who)
    BY DEF NoneAbout, NoPacketAbout
  <1>3. NoAnswer(<<>>) /\ AllAccepted(<<>>) /\ NoAnswerBehind(<<>>)
    BY DEF NoAnswer, AllAccepted, NoAnswerBehind
  <1>4. \A who : Follows(c, who)
    BY <1>1, <1>2 DEF Follows, Agrees
  <1> QED
    BY <1>1, <1>2, <1>3, <1>4 DEF Follower, OwnFollows, AnswersFirst

\* Every step of the protocol keeps ReplicasFollow, given what the earlier theorems say.
LEMMA StepReplicasFollow ==
    TypeOK /\ HostQueueInv /\ NothingAhead /\ JoinInv /\ OrderInv /\ TripInv /\ IdentityInv
       /\ ReplicasFollow /\ [AgreementNext]_agreementVars => ReplicasFollow'
<1> SUFFICES ASSUME TypeOK, HostQueueInv, NothingAhead, JoinInv, OrderInv, TripInv, IdentityInv,
                    ReplicasFollow, [AgreementNext]_agreementVars
             PROVE  ReplicasFollow'
  OBVIOUS
<1>1. excused \subseteq excused'
  BY DEF AgreementNext, agreementVars
<1>2. \A c \in Clients \ excused : Follower(c)
  BY FollowersFollow
<1>3. \A c \in Clients \ excused' : Follower(c)'
  BY <1>1, <1>2, StepFollower
<1>4. ReplicasFollow' <=> \A c \in Clients \ excused' : Follower(c)'
  <2>1. ASSUME NEW c \in Clients
        PROVE  (\A who \in Subjects(c) : Follows(c, who))' <=>
                  Follows(c, {})' /\ \A p \in Nodes \ {c} : Follows(c, {p})'
    BY DEF Subjects
  <2> QED
    BY <2>1 DEF ReplicasFollow, Follower
<1> QED
  BY <1>3, <1>4

\* When nothing is on its way any more, what c has is what was left.
LEMMA SettledFollowersAgree == TypeOK /\ ReplicasFollow => SettledReplicasAgree
  <1> SUFFICES ASSUME TypeOK, ReplicasFollow,
                      NEW c \in Clients \ excused, Settled(c), client_state[c] = "running"
               PROVE  turn[c] = turn[Host] /\ done[c] = done[Host]
    BY DEF SettledReplicasAgree
  <1>0. /\ c \in Nodes /\ Host \in Nodes
        /\ done[c] \subseteq Nodes /\ done[Host] \subseteq Nodes
    BY DEF TypeOK, Nodes
  <1>1. /\ outgoing[Host] = <<>> /\ pending[c] = <<>> /\ batch[c] = <<>>
        /\ to_client[c] = <<>> /\ responses[c] = <<>> /\ waiting[c] = {}
    BY DEF Settled
  <1>2. /\ \A k, who : NoneAbout(<<>>, k, who)
        /\ \A k, who, D, t : ~LastLeaves(<<>>, k, who, D, t)
    BY DEF NoneAbout, LastLeaves
  <1>3. /\ \A who : NoPacketAbout(<<>>, who)
        /\ \A who, D, t : ~LastPacketLeaves(<<>>, who, D, t)
        /\ \A W, D : ~LastAnswerLeaves(<<>>, W, c, D)
    BY DEF NoPacketAbout, LastPacketLeaves, LastAnswerLeaves
  <1>4. \A who : Follows(c, who) => Agrees(c, who)
    BY <1>1, <1>2, <1>3 DEF Follows
  <1>8. ToldTurn(c) = turn[Host] /\ ToldDone(c) = done[Host]
    BY DEF Settled, TypeOK, ToldTurn, ToldDone, Told
  <1>5. turn[c] = turn[Host]
    BY <1>8, <1>4 DEF ReplicasFollow, Agrees
  <1>6. \A p \in Nodes \ {c} : p \in done[c] <=> p \in done[Host]
    BY <1>8, <1>4 DEF ReplicasFollow, Agrees
  <1>7. c \in done[c] <=> c \in done[Host]
    <2>1. NoTurnComing(c)
      BY <1>1, <1>2, <1>3 DEF NoTurnComing
    <2>2. OwnFollows(c)
      BY DEF ReplicasFollow
    <2> QED
      BY <1>8, <1>1, <1>3, <2>1, <2>2 DEF OwnFollows
  <1> QED
    BY <1>0, <1>5, <1>6, <1>7

\* The history variable restricts nothing.
LEMMA AgreementIsReplication == AgreementSpec => Spec
<1>1. AgreementInit => Init
  BY DEF AgreementInit
<1>2. [AgreementNext]_agreementVars => [Next]_vars
  BY DEF AgreementNext, agreementVars
<1> QED
  BY <1>1, <1>2, PTL DEF AgreementSpec, Spec

\* The last event about a player or the turn that is on its way to a client
\* leaves what the host has, and the last answer what the host has of the client,
\* whatever is applied early, twice, or in another order than the host's, as long
\* as no broadcast was missed, lost or refused, and no event of the client was
\* rejected or accepted late.
THEOREM ReplicasFollowHost == AgreementSpec => []ReplicasFollow
<1>1. AgreementInit => ReplicasFollow
  BY InitReplicasFollow DEF AgreementInit
<1>2. TypeOK /\ HostQueueInv /\ NothingAhead /\ JoinInv /\ OrderInv /\ TripInv /\ IdentityInv
         /\ ReplicasFollow /\ [AgreementNext]_agreementVars => ReplicasFollow'
  BY StepReplicasFollow
<1> QED
  BY <1>1, <1>2, AgreementIsReplication, TypeCorrect, HostQueueOrdered, NothingIsAhead, JoinsOnce,
     TurnsArriveInOrder, TripsInOrder, EventsKeepTheirCaller, PTL DEF AgreementSpec

\* So a client that has no such excuse has the host's turn and completions as
\* soon as nothing is on its way between them.
THEOREM SettledReplicas == AgreementSpec => []SettledReplicasAgree
<1>1. TypeOK /\ ReplicasFollow => SettledReplicasAgree
  BY SettledFollowersAgree
<1> QED
  BY <1>1, AgreementIsReplication, TypeCorrect, ReplicasFollowHost, PTL

=============================================================================
