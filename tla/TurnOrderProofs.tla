--------------------------- MODULE TurnOrderProofs ---------------------------
(***************************************************************************)
(* Proofs about the order in which the turns reach a client, for any set   *)
(* of clients, any number of clicks and either thread mode.                *)
(***************************************************************************)
EXTENDS TurnReplicationProofs

-----------------------------------------------------------------------------
(* The way of a turn to a client *)

\* Until its snapshot arrives a client has no turn and nothing to handle or send,
Idle(c) ==
    /\ turn[c] = 0 /\ pending[c] = <<>> /\ batch[c] = <<>> /\ responses[c] = <<>>
    /\ outgoing[c] = <<>>

\* asks once for the snapshot, which is of turn 1,
Asking(c) ==
    \/ client_state[c] = "waiting" /\ to_host[c] = <<>> /\ to_client[c] = <<>>
    \/ /\ client_state[c] = "downloading"
       /\ \/ to_host[c] = <<[type |-> "download"]>> /\ to_client[c] = <<>>
          \/ to_host[c] = <<>> /\ to_client[c] = <<[type |-> "snapshot", turn_id |-> 1]>>

\* and the host, which passes it over in broadcasts, cannot end turn 1 without it.
HostWaitsFor(c) ==
    /\ c \notin initialized
    /\ turn[Host] = 1 /\ c \notin done[Host]
    /\ \A i \in 1..Len(pending[Host]) : pending[Host][i].caller # c
    /\ \A i \in 1..Len(batch[Host]) : batch[Host][i].caller # c
    /\ \A i \in 1..Len(outgoing[Host]) : outgoing[Host][i].name # "advance_turn"

Joining(c) == Idle(c) /\ Asking(c) /\ HostWaitsFor(c)

\* Afterwards no second snapshot is asked for or on its way.
Joined(c) ==
    /\ \A i \in 1..Len(to_host[c]) : to_host[c][i].type # "download"
    /\ \A i \in 1..Len(to_client[c]) : to_client[c][i].type # "snapshot"

JoinInv ==
    \A c \in Clients :
        /\ client_state[c] = "running" => Joined(c)
        /\ client_state[c] # "running" => Joining(c)

\* No client raises advance_turn itself, so none is applied on an answer.
OnlyHostAdvances(c) ==
    /\ \A ev \in waiting[c] : ev.name # "advance_turn"
    /\ \A i \in 1..Len(pending[c]) :
          pending[c][i].source = "LOCAL" => pending[c][i].name # "advance_turn"
    /\ \A i \in 1..Len(batch[c]) :
          batch[c][i].source = "LOCAL" => batch[c][i].name # "advance_turn"

Names(ev, t) == ev.name = "advance_turn" /\ ev.turn_id = t

QueueNames(q, i, t) == i \in 1..Len(q) /\ Names(q[i], t)

UnsentNames(q, sent, i, t) == i \in 1..Len(q) /\ i > sent /\ Names(q[i], t)

ChannelNames(q, i, t) == i \in 1..Len(q) /\ q[i].type = "event" /\ Names(q[i].event, t)

\* The way of a turn number from the host to c: the vector that is broadcast,
\* the channel, the two queues of c, and its replica.
Way == 0..4

NamedAt(c, s, i, t) ==
    \/ s = 0 /\ i = 1 /\ t = turn[c]
    \/ s = 1 /\ QueueNames(batch[c], i, t)
    \/ s = 2 /\ QueueNames(pending[c], i, t)
    \/ s = 3 /\ ChannelNames(to_client[c], i, t)
    \/ s = 4 /\ UnsentNames(outgoing[Host], flushed[Host], i, t)

Earlier(s, i, r, j) == s < r \/ (s = r /\ i < j)

\* What arrives later names a later turn, so each is announced once.
InOrder(c) ==
    \A s, r \in Way : \A i, j \in Nat : \A t, u \in Nat :
        Earlier(s, i, r, j) /\ NamedAt(c, s, i, t) /\ NamedAt(c, r, j, u) => t < u

OrderInv == \A c \in Clients : OnlyHostAdvances(c) /\ InOrder(c)

-----------------------------------------------------------------------------
(* Queues *)

\* What is in a queue after an append was there or is what was appended.
LEMMA AppendElements ==
    ASSUME NEW S, NEW q \in Seq(S), NEW e \in S
    PROVE  \A i \in 1..Len(Append(q, e)) :
              Append(q, e)[i] = e \/ (i \in 1..Len(q) /\ Append(q, e)[i] = q[i])
  BY AppendFacts

\* What is in a queue without its first element was there.
LEMMA TailElements ==
    ASSUME NEW S, NEW q \in Seq(S), q # <<>>
    PROVE  /\ 1 \in 1..Len(q) /\ Head(q) = q[1] /\ q[1] \in S
           /\ \A i \in 1..Len(Tail(q)) : i + 1 \in 1..Len(q) /\ Tail(q)[i] = q[i + 1]
  BY QueueFacts

\* The only element of a queue.
LEMMA Singleton ==
    ASSUME NEW x
    PROVE  <<x>> # <<>> /\ <<x>>[1] = x /\ Head(<<x>>) = x /\ Tail(<<x>>) = <<>>
  OBVIOUS

\* The types of the queues that the turns pass through on their way to c.
LEMMA WayTypes ==
    ASSUME TypeOK, NEW c \in Clients
    PROVE  /\ c \in Nodes /\ Host \in Nodes /\ c # Host
           /\ turn[c] \in Nat /\ turn[Host] \in Nat
           /\ pending[c] \in Seq(Event) /\ pending[Host] \in Seq(Event)
           /\ batch[c] \in Seq(Event) /\ batch[Host] \in Seq(Event)
           /\ outgoing[c] \in Seq(Event) /\ outgoing[Host] \in Seq(Event)
           /\ to_host[c] \in Seq(ClientPacket)
           /\ to_client[c] \in Seq(ServerPacket)
           /\ responses[c] \in Seq(Response)
           /\ client_state[c] \in {"waiting", "downloading", "running"}
  BY SlotAssumption DEF TypeOK, Nodes

\* A flush sends what is in the vector.
LEMMA SentIsQueued ==
    ASSUME TypeOK, NEW n \in Nodes, SendPending(n)
    PROVE  /\ flushed[n] \in Nat /\ flushed[n] + 1 \in 1..Len(outgoing[n])
           /\ outgoing[n] # <<>> /\ outgoing[n][flushed[n] + 1] \in Event
           /\ flushed'[n] = flushed[n] + 1
  <1>1. /\ flushed[n] \in Nat /\ flush_end[n] \in Nat /\ Len(outgoing[n]) \in Nat
        /\ flush_end[n] <= Len(outgoing[n]) /\ outgoing[n] \in Seq(Event)
    BY DEF TypeOK
  <1>2. flushed[n] < (IF flush_end[n] = 0 THEN Len(outgoing[n]) ELSE flush_end[n])
    BY DEF SendPending
  <1>3. flushed[n] + 1 \in 1..Len(outgoing[n])
    BY <1>1, <1>2
  <1>4. flushed'[n] = flushed[n] + 1
    BY DEF SendPending, TypeOK
  <1> QED
    BY <1>1, <1>3, <1>4

\* What the host's MAIN does with an event leaves c's own state, and at most
\* answers c.
LEMMA HostProcessFrame ==
    ASSUME TypeOK, HostProcess, NEW c \in Clients
    PROVE  /\ batch[Host] # <<>>
           /\ batch'[Host] = batch[Host] \/ batch'[Host] = Tail(batch[Host])
           /\ turn'[c] = turn[c] /\ pending'[c] = pending[c] /\ batch'[c] = batch[c]
           /\ outgoing'[c] = outgoing[c]
           /\ UNCHANGED <<waiting, responses, flush_end, flushed, joinVars, to_host>>
           /\ \/ to_client'[c] = to_client[c]
              \/ \E r \in Response :
                    /\ batch[Host][1].caller = c
                    /\ to_client'[c] = Append(to_client[c], r)
  <1> DEFINE ev == Head(batch[Host])
  <1>0. /\ batch[Host] # <<>> /\ ev \in Event /\ ev = batch[Host][1]
        /\ c \in Nodes /\ Host \in Nodes /\ c # Host
    <2>1. batch[Host] # <<>>
      BY DEF HostProcess, HostAnswer, HostBroadcast, HostApply, HostReject, MainInBatch
    <2> QED
      BY <2>1, QueueFacts, WayTypes
  <1>1. /\ batch' = batch \/ batch' = [batch EXCEPT ![Host] = Tail(@)]
        /\ UNCHANGED <<waiting, responses, flush_end, flushed, joinVars, to_host>>
    BY DEF HostProcess, HostAnswer, HostBroadcast, HostApply, HostReject, flushVars, netVars
  <1>2. turn'[c] = turn[c] /\ pending'[c] = pending[c] /\ outgoing'[c] = outgoing[c]
    <2>1. CASE HostApply
      BY <1>0, <2>1 DEF HostApply, Apply, RaiseAdvance, flushVars, TypeOK
    <2>2. CASE HostBroadcast
      BY <1>0, <2>2 DEF HostBroadcast, Broadcast, replicaVars, TypeOK
    <2>3. CASE HostAnswer \/ HostReject
      BY <2>3 DEF HostAnswer, HostReject, replicaVars, flushVars
    <2> QED
      BY <2>1, <2>2, <2>3 DEF HostProcess
  <1>3. to_client' = to_client \/ \E a \in BOOLEAN : Answer(ev, a)
    BY DEF HostProcess, HostAnswer, HostBroadcast, HostApply, HostReject, netVars
  <1>4. ASSUME NEW a \in BOOLEAN, Answer(ev, a)
        PROVE  \/ to_client'[c] = to_client[c]
               \/ \E r \in Response : ev.caller = c /\ to_client'[c] = Append(to_client[c], r)
    <2> DEFINE r == [type |-> "response", id |-> ev.id, accepted |-> a]
    <2>1. r \in Response
      BY <1>0 DEF Response, Event
    <2>2. to_client'[c] = to_client[c] \/ (ev.caller = c /\ to_client'[c] = Append(to_client[c], r))
      BY <1>0, <1>4 DEF Answer, TypeOK
    <2> QED
      BY <2>1, <2>2
  <1>5. batch'[Host] = batch[Host] \/ batch'[Host] = Tail(batch[Host])
    BY <1>0, <1>1 DEF TypeOK
  <1>6. batch'[c] = batch[c]
    BY <1>0, <1>1 DEF TypeOK
  <1> QED
    BY <1>0, <1>1, <1>2, <1>3, <1>4, <1>5, <1>6

\* What is left of the host's batch was in it.
LEMMA HostBatchShrinks ==
    ASSUME TypeOK, HostProcess, NEW i \in 1..Len(batch'[Host])
    PROVE  \E j \in 1..Len(batch[Host]) : batch'[Host][i] = batch[Host][j]
  <1>1. /\ batch[Host] # <<>> /\ batch[Host] \in Seq(Event)
        /\ batch'[Host] = batch[Host] \/ batch'[Host] = Tail(batch[Host])
    <2>1. batch[Host] # <<>>
      BY DEF HostProcess, HostAnswer, HostBroadcast, HostApply, HostReject, MainInBatch
    <2>2. batch' = batch \/ batch' = [batch EXCEPT ![Host] = Tail(@)]
      BY DEF HostProcess, HostAnswer, HostBroadcast, HostApply, HostReject
    <2> QED
      BY <2>1, <2>2 DEF TypeOK, Nodes
  <1>2. CASE batch'[Host] = batch[Host]
    BY <1>2
  <1>3. CASE batch'[Host] = Tail(batch[Host])
    <2>1. i \in 1..Len(Tail(batch[Host]))
      BY <1>3
    <2>2. i + 1 \in 1..Len(batch[Host]) /\ Tail(batch[Host])[i] = batch[Host][i + 1]
      BY <1>1, <2>1, TailElements
    <2> QED
      BY <1>3, <2>2
  <1> QED
    BY <1>1, <1>2, <1>3

-----------------------------------------------------------------------------
(* Joining *)

\* At first every client has yet to ask for the snapshot.
LEMMA InitJoinInv == Init => JoinInv
  BY SlotAssumption DEF Init, JoinInv, Joining, Idle, Asking, HostWaitsFor, Nodes

\* The event accepted by a host that still waits for c ends no turn.
LEMMA AcceptWhileJoining ==
    ASSUME TypeOK, HostQueueInv, NEW c \in Clients, HostWaitsFor(c),
           batch[Host] # <<>>, Validate(Host, batch[Host][1])
    PROVE  /\ batch[Host][1] \in Event /\ Head(batch[Host]) = batch[Host][1]
           /\ batch[Host][1].caller # c
           /\ batch[Host][1].name \in {"complete_turn", "uncomplete_turn"}
  <1>1. /\ batch[Host][1] \in Event /\ Head(batch[Host]) = batch[Host][1]
        /\ 1 \in 1..Len(batch[Host]) /\ c \in Nodes
    BY TailElements, WayTypes
  <1>2. batch[Host][1].name # "advance_turn"
    BY <1>1, AcceptedAdvance DEF HostWaitsFor
  <1> QED
    BY <1>1, <1>2 DEF HostWaitsFor, Event, EventName

LEMMA ApplyWhileJoining ==
    ASSUME TypeOK, HostQueueInv, HostApply, NEW c \in Clients, HostWaitsFor(c)
    PROVE  HostWaitsFor(c)'
  <1> DEFINE ev == batch[Host][1]
             adv == NewEvent(Host, "advance_turn", turn[Host] + 1)
  <1>1. /\ ev \in Event /\ ev.caller # c /\ ev.name \in {"complete_turn", "uncomplete_turn"}
        /\ turn'[Host] = TurnAfter(Host, ev) /\ done'[Host] = DoneAfter(Host, ev)
        /\ Host \in Nodes /\ c # Host
    BY AppliedEvent, AcceptWhileJoining, WayTypes
  <1>2. turn'[Host] = 1 /\ c \notin done'[Host]
    BY <1>1 DEF TurnAfter, DoneAfter, HostWaitsFor
  <1>3. \A i \in 1..Len(batch'[Host]) : batch'[Host][i].caller # c
    BY HostBatchShrinks DEF HostProcess, HostWaitsFor
  <1>4. outgoing' = outgoing /\ initialized' = initialized
    BY DEF HostApply, flushVars, joinVars
  <1>5. turn[Host] + 1 \in Nat /\ "advance_turn" \in EventName
    BY WayTypes DEF EventName
  <1>6. adv \in Event /\ adv.caller = Host
    BY <1>1, <1>5, NewEventIsEvent DEF NewEvent
  <1>7. pending'[Host] = pending[Host] \/ pending'[Host] = Append(pending[Host], adv)
    BY <1>1 DEF HostApply, RaiseAdvance, TypeOK
  <1> HIDE DEF adv
  <1>8. \A i \in 1..Len(Append(pending[Host], adv)) :
           \/ Append(pending[Host], adv)[i] = adv
           \/ i \in 1..Len(pending[Host]) /\ Append(pending[Host], adv)[i] = pending[Host][i]
    <2>1. pending[Host] \in Seq(Event)
      BY WayTypes
    <2> QED
      BY <1>6, <2>1, AppendElements
  <1>9. \A i \in 1..Len(pending'[Host]) : pending'[Host][i].caller # c
    BY SMTT(20), <1>1, <1>6, <1>7, <1>8 DEF HostWaitsFor
  <1> QED
    BY <1>2, <1>3, <1>4, <1>9 DEF HostWaitsFor

LEMMA BroadcastWhileJoining ==
    ASSUME TypeOK, HostQueueInv, HostBroadcast, NEW c \in Clients, HostWaitsFor(c)
    PROVE  HostWaitsFor(c)'
  <1> DEFINE ev == batch[Host][1]
  <1>1. batch[Host] # <<>> /\ Head(batch[Host]) = batch[Host][1]
    BY TailElements, WayTypes DEF HostBroadcast, MainInBatch
  <1>2. Validate(Host, ev)
    BY <1>1 DEF HostBroadcast, HostQueueInv
  <1>3. ev \in Event /\ ev.name # "advance_turn"
    BY <1>1, <1>2, AcceptWhileJoining
  <1>4. /\ outgoing'[Host] = Append(outgoing[Host], ev)
        /\ UNCHANGED <<turn, done, pending, batch, initialized>>
    BY <1>1, WayTypes DEF HostBroadcast, Broadcast, replicaVars, joinVars, TypeOK
  <1>5. outgoing[Host] \in Seq(Event)
    BY WayTypes
  <1>6. \A i \in 1..Len(outgoing'[Host]) : outgoing'[Host][i].name # "advance_turn"
    BY <1>3, <1>4, <1>5, AppendElements DEF HostWaitsFor
  <1> QED
    BY <1>4, <1>6 DEF HostWaitsFor


\* A step that leaves c and what the host has of it alone.
LEMMA SameKeepsJoin ==
    ASSUME JoinInv, NEW c \in Clients,
           turn'[c] = turn[c], pending'[c] = pending[c], batch'[c] = batch[c],
           responses'[c] = responses[c], outgoing'[c] = outgoing[c],
           client_state'[c] = client_state[c],
           to_host'[c] = to_host[c], to_client'[c] = to_client[c],
           client_state[c] # "running" /\ HostWaitsFor(c) => HostWaitsFor(c)'
    PROVE  /\ client_state'[c] = "running" => Joined(c)'
           /\ client_state'[c] # "running" => Joining(c)'
  <1>1. CASE client_state[c] = "running"
    BY <1>1 DEF JoinInv, Joined
  <1>2. CASE client_state[c] # "running"
    <2>1. Idle(c) /\ Asking(c) /\ HostWaitsFor(c)
      BY <1>2 DEF JoinInv, Joining
    <2>2. Idle(c)'
      BY <2>1 DEF Idle
    <2>3. Asking(c)'
      BY <2>1 DEF Asking
    <2> QED
      BY <1>2, <2>1, <2>2, <2>3 DEF Joining
  <1> QED
    BY <1>1, <1>2

\* A click of another node keeps c waiting, one of c is made after joining.
LEMMA ClickKeepsJoin ==
    ASSUME TypeOK, JoinInv, NEW c \in Clients, NEW n \in Nodes,
           NEW name \in {"complete_turn", "uncomplete_turn"}, Click(n, name)
    PROVE  /\ client_state[c] = "running" => Joined(c)'
           /\ client_state[c] # "running" => Joining(c)'
  <1> DEFINE e == NewEvent(n, name, 0)
  <1>1. e \in Event /\ e.caller = n
    BY NewEventIsEvent DEF EventName, NewEvent
  <1>2. /\ pending' = [pending EXCEPT ![n] = Append(@, e)]
        /\ n = c => client_state[c] = "running"
        /\ UNCHANGED <<turn, done, batch, responses, outgoing,
                       client_state, initialized, to_host, to_client>>
    BY DEF Click, replicaVars, flushVars, joinVars, netVars
  <1> HIDE DEF e
  <1>3. \A i \in 1..Len(Append(pending[Host], e)) :
           \/ Append(pending[Host], e)[i] = e
           \/ i \in 1..Len(pending[Host]) /\ Append(pending[Host], e)[i] = pending[Host][i]
    BY <1>1, AppendElements, WayTypes
  <1>4. /\ pending'[Host] = pending[Host] \/ (n = Host /\ pending'[Host] = Append(pending[Host], e))
        /\ n # c => pending'[c] = pending[c]
    BY <1>2, WayTypes DEF TypeOK
  <1>5. CASE client_state[c] = "running"
    BY <1>2, <1>5 DEF JoinInv, Joined
  <1>6. CASE client_state[c] # "running"
    <2>1. Idle(c)' /\ Asking(c)'
      BY <1>2, <1>4, <1>6 DEF JoinInv, Joining, Idle, Asking
    <2>2. HostWaitsFor(c) /\ (n = Host => n # c)
      BY <1>6, WayTypes DEF JoinInv, Joining
    <2>3. \A i \in 1..Len(pending'[Host]) : pending'[Host][i].caller # c
      BY <1>1, <1>3, <1>4, <2>2 DEF HostWaitsFor
    <2>4. HostWaitsFor(c)'
      BY <1>2, <2>2, <2>3 DEF HostWaitsFor
    <2> QED
      BY <1>2, <1>6, <2>1, <2>4 DEF Joining
  <1> QED
    BY <1>5, <1>6

\* What GAME sends is no snapshot, no request for one, and not for who is joining.
LEMMA FlushKeepsJoin ==
    ASSUME TypeOK, JoinInv, NEW c \in Clients, NEW n \in Nodes, Flush(n)
    PROVE  /\ client_state[c] = "running" => Joined(c)'
           /\ client_state[c] # "running" => Joining(c)'
  <1> USE DEF replicaVars, queueVars, flushVars, joinVars, netVars
  <1>1. CASE SendPending(n)
    <2> DEFINE ev == outgoing[n][flushed[n] + 1]
               p == [type |-> "event", event |-> ev]
    <2>1. p \in ServerPacket /\ p \in ClientPacket /\ p.type = "event"
      BY <1>1, SentIsQueued DEF ServerPacket, ClientPacket
    <2>2. /\ UNCHANGED <<turn, done, pending, batch, responses, outgoing>>
          /\ UNCHANGED <<client_state, initialized>>
          /\ \/ to_client'[c] = to_client[c]
             \/ c \in initialized /\ to_client'[c] = Append(to_client[c], p)
          /\ to_host'[c] = to_host[c] \/ (n = c /\ to_host'[c] = Append(to_host[c], p))
      BY <1>1 DEF SendPending, IsSentTo, TypeOK
    <2> HIDE DEF p
    <2>3. CASE client_state[c] = "running"
      <3>0. Joined(c)
        BY <2>3 DEF JoinInv
      <3>1. \A i \in 1..Len(to_client'[c]) : to_client'[c][i].type # "snapshot"
        <4>1. \A i \in 1..Len(Append(to_client[c], p)) :
                 \/ Append(to_client[c], p)[i] = p
                 \/ i \in 1..Len(to_client[c]) /\ Append(to_client[c], p)[i] = to_client[c][i]
          <5>1. to_client[c] \in Seq(ServerPacket)
            BY WayTypes
          <5> QED
            BY <2>1, <5>1, AppendElements
        <4>2. \A i \in 1..Len(to_client[c]) : to_client[c][i].type # "snapshot"
          BY <3>0 DEF Joined
        <4>3. \A i \in 1..Len(Append(to_client[c], p)) :
                 Append(to_client[c], p)[i].type # "snapshot"
          BY <2>1, <4>1, <4>2
        <4> QED
          BY <2>2, <4>2, <4>3
      <3>2. \A i \in 1..Len(to_host'[c]) : to_host'[c][i].type # "download"
        <4>1. \A i \in 1..Len(Append(to_host[c], p)) :
                 \/ Append(to_host[c], p)[i] = p
                 \/ i \in 1..Len(to_host[c]) /\ Append(to_host[c], p)[i] = to_host[c][i]
          <5>1. to_host[c] \in Seq(ClientPacket)
            BY WayTypes
          <5> QED
            BY <2>1, <5>1, AppendElements
        <4>2. \A i \in 1..Len(to_host[c]) : to_host[c][i].type # "download"
          BY <3>0 DEF Joined
        <4>3. \A i \in 1..Len(Append(to_host[c], p)) : Append(to_host[c], p)[i].type # "download"
          BY <2>1, <4>1, <4>2
        <4> QED
          BY <2>2, <4>2, <4>3
      <3> QED
        BY <2>3, <3>1, <3>2 DEF Joined
    <2>4. CASE client_state[c] # "running"
      <3>1. n # c
        BY <1>1, <2>4, SentIsQueued DEF JoinInv, Joining, Idle
      <3> QED
        BY <2>2, <2>4, <3>1 DEF JoinInv, Joining, Idle, Asking, HostWaitsFor
    <2> QED
      BY <2>3, <2>4
  <1>2. CASE ClearPending(n)
    <2>1. /\ UNCHANGED <<turn, done, pending, batch, responses, client_state, initialized,
                         to_host, to_client>>
          /\ \A m \in Nodes : outgoing'[m] = outgoing[m] \/ outgoing'[m] = <<>>
      BY <1>2 DEF ClearPending, TypeOK
    <2>2. /\ outgoing'[c] = outgoing[c] \/ outgoing'[c] = <<>>
          /\ outgoing'[Host] = outgoing[Host] \/ outgoing'[Host] = <<>>
      BY <2>1, WayTypes
    <2> QED
      BY <2>1, <2>2 DEF JoinInv, Joined, Joining, Idle, Asking, HostWaitsFor
  <1> QED
    BY <1>1, <1>2 DEF Flush

\* The host's MAIN answers c only once it has joined.
LEMMA HostProcessKeepsJoin ==
    ASSUME TypeOK, HostQueueInv, JoinInv, NEW c \in Clients, HostProcess
    PROVE  /\ client_state[c] = "running" => Joined(c)'
           /\ client_state[c] # "running" => Joining(c)'
  <1>0. 1 \in 1..Len(batch[Host])
    BY HostProcessFrame, TailElements, WayTypes
  <1>1. CASE client_state[c] = "running"
    <2>1. \A r \in Response : r \in ServerPacket /\ r.type = "response"
      BY DEF ServerPacket, Response
    <2>2. \A i \in 1..Len(to_client'[c]) : to_client'[c][i].type # "snapshot"
      <3>1. CASE to_client'[c] = to_client[c]
        BY <1>1, <3>1 DEF JoinInv, Joined
      <3>2. ASSUME NEW r \in Response, to_client'[c] = Append(to_client[c], r)
            PROVE  \A i \in 1..Len(to_client'[c]) : to_client'[c][i].type # "snapshot"
        BY <1>1, <2>1, <3>2, AppendElements, WayTypes DEF JoinInv, Joined
      <3> QED
        BY <3>1, <3>2, HostProcessFrame
    <2> QED
      BY <1>1, <2>2, HostProcessFrame DEF JoinInv, Joined
  <1>2. CASE client_state[c] # "running"
    <2>1. Idle(c) /\ Asking(c) /\ HostWaitsFor(c) /\ batch[Host][1].caller # c
      BY <1>0, <1>2 DEF JoinInv, Joining, HostWaitsFor
    <2>2. Idle(c)' /\ Asking(c)'
      BY <2>1, HostProcessFrame DEF Idle, Asking, joinVars
    <2>3. HostWaitsFor(c)'
      <3>1. CASE HostApply
        BY <2>1, <3>1, ApplyWhileJoining
      <3>2. CASE HostBroadcast
        BY <2>1, <3>2, BroadcastWhileJoining
      <3>3. CASE HostAnswer \/ HostReject
        <4>1. \A i \in 1..Len(batch'[Host]) : batch'[Host][i].caller # c
          BY <2>1, HostBatchShrinks DEF HostWaitsFor
        <4>2. UNCHANGED <<turn, done, pending, outgoing, initialized>>
          BY <3>3 DEF HostAnswer, HostReject, replicaVars, flushVars, joinVars
        <4> QED
          BY <2>1, <4>1, <4>2 DEF HostWaitsFor
      <3> QED
        BY <3>1, <3>2, <3>3 DEF HostProcess
    <2> QED
      BY <1>2, <2>2, <2>3 DEF Joining
  <1> QED
    BY <1>1, <1>2

\* A client that handles an event or an answer has joined.
LEMMA ClientMainKeepsJoin ==
    ASSUME TypeOK, JoinInv, NEW c \in Clients, NEW d \in Clients,
           ClientProcess(d) \/ HandleResponse(d)
    PROVE  /\ client_state[c] = "running" => Joined(c)'
           /\ client_state[c] # "running" => Joining(c)'
  <1>1. /\ UNCHANGED <<pending, client_state, initialized, to_host, to_client>>
        /\ batch[d] # <<>> \/ responses[d] # <<>>
        /\ \A n \in Nodes : n # d => /\ turn'[n] = turn[n] /\ done'[n] = done[n]
                                   /\ batch'[n] = batch[n] /\ outgoing'[n] = outgoing[n]
        /\ \A n \in Clients : n # d => responses'[n] = responses[n]
    <2>1. CASE ClientProcess(d)
      BY <2>1 DEF ClientProcess, ClientApply, ClientRefuse, MainInBatch, Apply, StoreAndSend,
                  replicaVars, flushVars, joinVars, netVars, TypeOK
    <2>2. CASE HandleResponse(d)
      BY <2>2 DEF HandleResponse, flushVars, joinVars, netVars, TypeOK
    <2> QED
      BY <2>1, <2>2
  <1>2. d # Host /\ Host \in Nodes /\ c \in Nodes
    BY WayTypes
  <1>3. CASE client_state[c] = "running"
    BY <1>1, <1>3 DEF JoinInv, Joined
  <1>4. CASE client_state[c] # "running"
    <2>1. Idle(c) /\ Asking(c) /\ HostWaitsFor(c) /\ d # c
      BY <1>1, <1>4 DEF JoinInv, Joining, Idle
    <2>2. /\ turn'[c] = turn[c] /\ batch'[c] = batch[c] /\ outgoing'[c] = outgoing[c]
          /\ responses'[c] = responses[c]
          /\ turn'[Host] = turn[Host] /\ done'[Host] = done[Host]
          /\ batch'[Host] = batch[Host] /\ outgoing'[Host] = outgoing[Host]
      BY <1>1, <1>2, <2>1
    <2> QED
      BY <1>1, <2>1, <2>2 DEF Joining, Idle, Asking, HostWaitsFor
  <1> QED
    BY <1>3, <1>4

\* The host answers the one request with the one snapshot; whose flags and
\* events it receives has joined.
LEMMA HostReceiveKeepsJoin ==
    ASSUME TypeOK, JoinInv, NEW c \in Clients, NEW d \in Clients, HostReceive(d)
    PROVE  /\ client_state[c] = "running" => Joined(c)'
           /\ client_state[c] # "running" => Joining(c)'
  <1> USE DEF replicaVars, queueVars, flushVars, joinVars, netVars
  <1> DEFINE p == to_host[d][1]
  <1>1. /\ to_host[d] # <<>> /\ to_host' = [to_host EXCEPT ![d] = Tail(@)]
        /\ UNCHANGED <<turn, done, batch, responses, outgoing, client_state>>
    BY DEF HostReceive, HostSendSnapshot, HostReceiveFlags, HostReceiveEvent
  <1>2. /\ 1 \in 1..Len(to_host[d]) /\ Head(to_host[d]) = p /\ p \in ClientPacket
        /\ \A i \in 1..Len(Tail(to_host[d])) :
              i + 1 \in 1..Len(to_host[d]) /\ Tail(to_host[d])[i] = to_host[d][i + 1]
    BY <1>1, TailElements, WayTypes
  <1>3. to_host'[c] = IF c = d THEN Tail(to_host[c]) ELSE to_host[c]
    BY <1>1 DEF TypeOK
  <1>4. client_state[c] = "running" =>
           \A i \in 1..Len(to_host'[c]) : to_host'[c][i].type # "download"
    BY <1>2, <1>3 DEF JoinInv, Joined
  <1>5. client_state[d] = "running" => p.type # "download"
    BY <1>2 DEF JoinInv, Joined
  <1>6. client_state[d] # "running" =>
           p.type = "download" /\ to_client[d] = <<>> /\ Tail(to_host[d]) = <<>>
           /\ client_state[d] = "downloading"
    <2> SUFFICES ASSUME client_state[d] # "running"
                 PROVE  p.type = "download" /\ to_client[d] = <<>> /\ Tail(to_host[d]) = <<>>
                        /\ client_state[d] = "downloading"
      OBVIOUS
    <2>1. Asking(d)
      BY DEF JoinInv, Joining
    <2>2. /\ to_host[d] = <<[type |-> "download"]>> /\ to_client[d] = <<>>
          /\ client_state[d] = "downloading"
      BY <1>1, <2>1 DEF Asking
    <2> QED
      BY <2>2, Singleton
  <1>7. CASE HostSendSnapshot(d)
    <2>1. /\ to_client' =
                [to_client EXCEPT ![d] = Append(@, [type |-> "snapshot", turn_id |-> turn[Host]])]
          /\ UNCHANGED <<pending, initialized>> /\ p.type = "download"
      BY <1>2, <1>7 DEF HostSendSnapshot, Snapshot
    <2>2. CASE c # d
      <3>1. to_client'[c] = to_client[c]
        BY <2>1, <2>2 DEF TypeOK
      <3> QED
        BY <1>1, <1>3, <2>1, <2>2, <3>1 DEF JoinInv, Joined, Joining, Idle, Asking, HostWaitsFor
    <2>3. CASE c = d
      <3>1. client_state[c] = "downloading" /\ to_host'[c] = <<>> /\ to_client[c] = <<>>
        BY <1>3, <1>5, <1>6, <2>1, <2>3, WayTypes
      <3>2. Idle(c) /\ HostWaitsFor(c)
        BY <3>1 DEF JoinInv, Joining
      <3>3. to_client'[c] = <<[type |-> "snapshot", turn_id |-> 1]>>
        BY <2>1, <2>3, <3>1, <3>2 DEF TypeOK, HostWaitsFor
      <3> QED
        BY <1>1, <2>1, <3>1, <3>2, <3>3 DEF Joining, Idle, Asking, HostWaitsFor
    <2> QED
      BY <2>2, <2>3
  <1>8. CASE HostReceiveFlags(d) \/ HostReceiveEvent(d)
    <2>1. client_state[d] = "running"
      BY <1>2, <1>6, <1>8 DEF HostReceiveFlags, HostReceiveEvent
    <2>2. to_client' = to_client
      BY <1>8 DEF HostReceiveFlags, HostReceiveEvent
    <2>3. CASE client_state[c] = "running"
      BY <1>4, <2>2, <2>3 DEF JoinInv, Joined
    <2>4. CASE client_state[c] # "running"
      <3>1. c # d /\ Joining(c)
        BY <2>1, <2>4 DEF JoinInv
      <3>2. CASE HostReceiveFlags(d)
        BY <1>1, <1>3, <2>2, <3>1, <3>2
        DEF HostReceiveFlags, Joining, Idle, Asking, HostWaitsFor
      <3>3. CASE HostReceiveEvent(d)
        <4> DEFINE ev == Deserialized(Head(to_host[d]).event, "CLIENT")
        <4>1. p.event \in Event
          BY <1>2, <3>3 DEF HostReceiveEvent, ClientPacket
        <4>2. ev \in Event /\ ev.caller = d
          BY <1>2, <3>3, <4>1, DeserializedIsEvent DEF HostReceiveEvent, Source
        <4>3. pending' = [pending EXCEPT ![Host] = Append(@, ev)] /\ initialized' = initialized
          BY <3>3 DEF HostReceiveEvent
        <4> HIDE DEF ev
        <4>4. pending'[c] = pending[c] /\ pending'[Host] = Append(pending[Host], ev)
          BY <4>3, WayTypes DEF TypeOK
        <4>5. \A i \in 1..Len(pending'[Host]) : pending'[Host][i].caller # c
          BY <3>1, <4>2, <4>4, AppendElements, WayTypes DEF Joining, HostWaitsFor
        <4> QED
          BY <1>1, <1>3, <2>2, <3>1, <4>3, <4>4, <4>5 DEF Joining, Idle, Asking, HostWaitsFor
      <3> QED
        BY <1>8, <3>2, <3>3
    <2> QED
      BY <2>3, <2>4
  <1> QED
    BY <1>7, <1>8 DEF HostReceive

\* The one snapshot completes the joining; nothing else is received before.
LEMMA ClientReceiveKeepsJoin ==
    ASSUME TypeOK, JoinInv, NEW c \in Clients, NEW d \in Clients, ClientReceive(d)
    PROVE  /\ client_state'[c] = "running" => Joined(c)'
           /\ client_state'[c] # "running" => Joining(c)'
  <1> USE DEF replicaVars, queueVars, flushVars, joinVars, netVars
  <1> DEFINE p == to_client[d][1]
  <1>1. /\ to_client[d] # <<>> /\ to_client' = [to_client EXCEPT ![d] = Tail(@)]
        /\ UNCHANGED <<batch, outgoing, initialized>>
        /\ \A n \in Nodes : n # d => /\ turn'[n] = turn[n] /\ done'[n] = done[n]
                                   /\ pending'[n] = pending[n]
        /\ \A n \in Clients : n # d => /\ responses'[n] = responses[n]
                                     /\ client_state'[n] = client_state[n]
                                     /\ to_host'[n] = to_host[n] /\ to_client'[n] = to_client[n]
    BY DEF ClientReceive, ClientReceiveSnapshot, ClientReceiveEvent, ClientReceiveResponse, TypeOK
  <1>2. /\ 1 \in 1..Len(to_client[d]) /\ Head(to_client[d]) = p
        /\ \A i \in 1..Len(Tail(to_client[d])) :
              i + 1 \in 1..Len(to_client[d]) /\ Tail(to_client[d])[i] = to_client[d][i + 1]
    BY <1>1, TailElements, WayTypes
  <1>3. CASE c # d
    <2>1. /\ turn'[c] = turn[c] /\ turn'[Host] = turn[Host] /\ done'[Host] = done[Host]
          /\ pending'[c] = pending[c] /\ pending'[Host] = pending[Host]
          /\ responses'[c] = responses[c] /\ client_state'[c] = client_state[c]
          /\ to_host'[c] = to_host[c] /\ to_client'[c] = to_client[c]
      BY <1>1, <1>3, WayTypes
    <2>2. HostWaitsFor(c) => HostWaitsFor(c)'
      BY <1>1, <2>1 DEF HostWaitsFor
    <2> QED
      BY <1>1, <2>1, <2>2, SameKeepsJoin
  <1>4. CASE c = d /\ client_state[c] = "running"
    <2>1. ~ClientReceiveSnapshot(c)
      BY <1>2, <1>4 DEF JoinInv, Joined, ClientReceiveSnapshot
    <2>2. to_host' = to_host /\ client_state' = client_state
      BY <1>4, <2>1 DEF ClientReceive, ClientReceiveEvent, ClientReceiveResponse
    <2>3. \A i \in 1..Len(to_client'[c]) : to_client'[c][i].type # "snapshot"
      <3>1. to_client'[c] = Tail(to_client[c])
        BY <1>1, <1>4 DEF TypeOK
      <3>2. \A i \in 1..Len(to_client[c]) : to_client[c][i].type # "snapshot"
        BY <1>4 DEF JoinInv, Joined
      <3> QED
        BY <1>2, <1>4, <3>1, <3>2
    <2> QED
      BY <1>4, <2>2, <2>3 DEF JoinInv, Joined
  <1>5. CASE c = d /\ client_state[c] # "running"
    <2>1. /\ p.type = "snapshot" /\ to_host[c] = <<>> /\ Tail(to_client[c]) = <<>>
      <3>1. Asking(c)
        BY <1>5 DEF JoinInv, Joining
      <3>2. to_host[c] = <<>> /\ to_client[c] = <<[type |-> "snapshot", turn_id |-> 1]>>
        BY <1>1, <1>5, <3>1 DEF Asking
      <3> QED
        BY <1>5, <3>2, Singleton
    <2>2. ClientReceiveSnapshot(c)
      BY <1>2, <1>5, <2>1 DEF ClientReceive, ClientReceiveEvent, ClientReceiveResponse
    <2>3. /\ client_state'[c] = "running" /\ to_client'[c] = <<>>
          /\ to_host'[c] = <<[type |-> "flags"]>>
      BY <1>1, <1>5, <2>1, <2>2 DEF ClientReceiveSnapshot, TypeOK
    <2> QED
      BY <2>3 DEF Joined
  <1> QED
    BY <1>3, <1>4, <1>5

\* Whatever the others do meanwhile, a client joins once, on turn 1.
LEMMA StepJoinInv == TypeOK /\ HostQueueInv /\ JoinInv /\ [Next]_vars => JoinInv'
<1> SUFFICES ASSUME TypeOK, HostQueueInv, JoinInv, [Next]_vars, NEW c \in Clients
             PROVE  /\ client_state'[c] = "running" => Joined(c)'
                    /\ client_state'[c] # "running" => Joining(c)'
  BY DEF JoinInv
<1> DEFINE Good == /\ client_state'[c] = "running" => Joined(c)'
                   /\ client_state'[c] # "running" => Joining(c)'
           Kept == /\ client_state[c] = "running" => Joined(c)'
                   /\ client_state[c] # "running" => Joining(c)'
<1>1. ASSUME NEW n \in Nodes, NEW name \in {"complete_turn", "uncomplete_turn"}, Click(n, name)
      PROVE  Good
  <2>1. Kept
    BY <1>1, ClickKeepsJoin
  <2> QED
    BY <1>1, <2>1 DEF Click, joinVars
<1>2. ASSUME NEW n \in Nodes, StartBatch(n)
      PROVE  Good
  <2>1. /\ UNCHANGED <<turn, done, responses, outgoing>>
        /\ UNCHANGED <<client_state, initialized, to_host, to_client>>
        /\ \A m \in Nodes : \/ pending'[m] = pending[m] /\ batch'[m] = batch[m]
                            \/ pending'[m] = <<>> /\ batch'[m] = pending[m]
    BY <1>2 DEF StartBatch, replicaVars, flushVars, joinVars, netVars, TypeOK
  <2>2. /\ \/ pending'[c] = pending[c] /\ batch'[c] = batch[c]
           \/ pending'[c] = <<>> /\ batch'[c] = pending[c]
        /\ \/ pending'[Host] = pending[Host] /\ batch'[Host] = batch[Host]
           \/ pending'[Host] = <<>> /\ batch'[Host] = pending[Host]
    BY <2>1, WayTypes
  <2> QED
    BY <2>1, <2>2 DEF JoinInv, Joined, Joining, Idle, Asking, HostWaitsFor
<1>3. ASSUME NEW n \in Nodes, Flush(n)
      PROVE  Good
  <2>1. Kept
    BY <1>3, FlushKeepsJoin
  <2> QED
    BY <1>3, <2>1 DEF Flush, SendPending, ClearPending, joinVars
<1>4. CASE HostProcess
  <2>1. Kept
    BY <1>4, HostProcessKeepsJoin
  <2> QED
    BY <1>4, <2>1, HostProcessFrame DEF joinVars
<1>5. ASSUME NEW d \in Clients, RequestDownload(d)
      PROVE  Good
  <2>1. /\ client_state[d] = "waiting" /\ client_state' = [client_state EXCEPT ![d] = "downloading"]
        /\ to_host' = [to_host EXCEPT ![d] = Append(@, [type |-> "download"])]
        /\ UNCHANGED <<turn, done, pending, batch, responses, outgoing, initialized, to_client>>
    BY <1>5 DEF RequestDownload, replicaVars, queueVars, flushVars
  <2>2. CASE c = d
    <3>1. /\ Joining(c) /\ to_host[c] = <<>> /\ to_client[c] = <<>>
      BY <2>1, <2>2 DEF JoinInv, Joining, Asking
    <3>2. client_state'[c] = "downloading" /\ to_host'[c] = <<[type |-> "download"]>>
      BY <2>1, <2>2, <3>1 DEF TypeOK
    <3> QED
      BY <2>1, <3>1, <3>2 DEF Joining, Idle, Asking, HostWaitsFor
  <2>3. CASE c # d
    <3>1. client_state'[c] = client_state[c] /\ to_host'[c] = to_host[c]
      BY <2>1, <2>3 DEF TypeOK
    <3>2. HostWaitsFor(c) => HostWaitsFor(c)'
      BY <2>1 DEF HostWaitsFor
    <3> QED
      BY <2>1, <3>1, <3>2, SameKeepsJoin
  <2> QED
    BY <2>2, <2>3
<1>6. ASSUME NEW d \in Clients, ClientProcess(d) \/ HandleResponse(d)
      PROVE  Good
  <2>1. Kept
    BY <1>6, ClientMainKeepsJoin
  <2> QED
    BY <1>6, <2>1 DEF ClientProcess, ClientApply, ClientRefuse, HandleResponse, joinVars
<1>7. ASSUME NEW d \in Clients, HostReceive(d)
      PROVE  Good
  <2>1. Kept
    BY <1>7, HostReceiveKeepsJoin
  <2> QED
    BY <1>7, <2>1 DEF HostReceive, HostSendSnapshot, HostReceiveFlags, HostReceiveEvent, joinVars
<1>8. ASSUME NEW d \in Clients, ClientReceive(d)
      PROVE  Good
  BY <1>8, ClientReceiveKeepsJoin
<1>9. CASE UNCHANGED vars
  BY <1>9 DEF vars, replicaVars, queueVars, flushVars, joinVars, netVars,
              JoinInv, Joined, Joining, Idle, Asking, HostWaitsFor
<1> QED
  BY <1>1, <1>2, <1>3, <1>4, <1>5, <1>6, <1>7, <1>8, <1>9 DEF Next

-----------------------------------------------------------------------------
(* What a step does to the turns on the way *)

\* An event after the last names its own turn, if any.
LEMMA AppendNames ==
    ASSUME NEW q \in Seq(Event), NEW e \in Event, NEW i \in Nat, NEW t \in Nat
    PROVE  /\ QueueNames(Append(q, e), i, t) =>
                 QueueNames(q, i, t) \/ (i = Len(q) + 1 /\ Names(e, t))
           /\ \A sent \in Nat : UnsentNames(Append(q, e), sent, i, t) =>
                 UnsentNames(q, sent, i, t) \/ (i = Len(q) + 1 /\ Names(e, t))
  <1>1. i \in 1..Len(Append(q, e)) =>
           \/ i \in 1..Len(q) /\ Append(q, e)[i] = q[i]
           \/ i = Len(q) + 1 /\ Append(q, e)[i] = e
    BY AppendFacts
  <1> QED
    BY <1>1 DEF QueueNames, UnsentNames

\* So does a packet after the last.
LEMMA AppendChannelNames ==
    ASSUME NEW q \in Seq(ServerPacket), NEW p \in ServerPacket, NEW i \in Nat, NEW t \in Nat
    PROVE  ChannelNames(Append(q, p), i, t) =>
              \/ ChannelNames(q, i, t)
              \/ i = Len(q) + 1 /\ p.type = "event" /\ Names(p.event, t)
  <1>1. i \in 1..Len(Append(q, p)) =>
           \/ i \in 1..Len(q) /\ Append(q, p)[i] = q[i]
           \/ i = Len(q) + 1 /\ Append(q, p)[i] = p
    BY AppendFacts
  <1> QED
    BY <1>1 DEF ChannelNames

\* Without the first element the others are one place ahead.
LEMMA TailNames ==
    ASSUME NEW i \in Nat, NEW t \in Nat
    PROVE  /\ \A q \in Seq(Event) : q # <<>> =>
                 (QueueNames(Tail(q), i, t) => i + 1 > 1 /\ QueueNames(q, i + 1, t))
           /\ \A q \in Seq(ServerPacket) : q # <<>> =>
                 (ChannelNames(Tail(q), i, t) => i + 1 > 1 /\ ChannelNames(q, i + 1, t))
  <1>1. ASSUME NEW S, NEW q \in Seq(S), q # <<>>, i \in 1..Len(Tail(q))
        PROVE  i + 1 > 1 /\ i + 1 \in 1..Len(q) /\ Tail(q)[i] = q[i + 1]
    BY <1>1, TailElements
  <1> QED
    BY <1>1 DEF QueueNames, ChannelNames

\* Nothing is named by an empty queue, nor after the last element.
LEMMA NothingNamed ==
    ASSUME NEW t
    PROVE  /\ \A i \in Nat : ~QueueNames(<<>>, i, t) /\ ~ChannelNames(<<>>, i, t)
           /\ \A i, sent \in Nat : ~UnsentNames(<<>>, sent, i, t)
           /\ \A q \in Seq(Event), i \in Nat : QueueNames(q, i, t) => i < Len(q) + 1
           /\ \A q \in Seq(Event), i, sent \in Nat : UnsentNames(q, sent, i, t) => i < Len(q) + 1
           /\ \A q \in Seq(ServerPacket), i \in Nat : ChannelNames(q, i, t) => i < Len(q) + 1
  <1>1. ASSUME NEW S, NEW q \in Seq(S), NEW i \in 1..Len(q)
        PROVE  i < Len(q) + 1
    OBVIOUS
  <1>2. Len(<<>>) = 0 /\ \A i \in Nat : ~(i \in 1..0)
    OBVIOUS
  <1> QED
    BY <1>1, <1>2 DEF QueueNames, ChannelNames, UnsentNames

\* A step that names no other turn, and moves none.
LEMMA FewerKeepsOrder ==
    ASSUME NEW c \in Clients, InOrder(c),
           \A s \in Way : \A i, t \in Nat : NamedAt(c, s, i, t)' => NamedAt(c, s, i, t)
    PROVE  InOrder(c)'
  BY DEF InOrder

\* The front of a stage is taken out; what follows moves up by one.
LEMMA DroppedKeepsOrder ==
    ASSUME NEW c \in Clients, InOrder(c), NEW from \in Way,
           \A s \in Way : \A i, t \in Nat : NamedAt(c, s, i, t)' =>
              \/ s = from /\ NamedAt(c, s, i + 1, t)
              \/ s # from /\ NamedAt(c, s, i, t)
    PROVE  InOrder(c)'
  <1> SUFFICES ASSUME NEW s \in Way, NEW r \in Way, NEW i \in Nat, NEW j \in Nat,
                      NEW t \in Nat, NEW u \in Nat, Earlier(s, i, r, j),
                      NamedAt(c, s, i, t)', NamedAt(c, r, j, u)'
               PROVE  t < u
    BY DEF InOrder
  <1>0. i + 1 \in Nat /\ j + 1 \in Nat /\ (i < j => i + 1 < j + 1)
    OBVIOUS
  <1>1. CASE s = from /\ r = from
    BY <1>0, <1>1 DEF InOrder, Earlier
  <1>2. CASE s = from /\ r # from
    BY <1>0, <1>2 DEF InOrder, Earlier
  <1>3. CASE s # from /\ r = from
    BY <1>0, <1>3 DEF InOrder, Earlier
  <1>4. CASE s # from /\ r # from
    BY <1>4 DEF InOrder, Earlier
  <1> QED
    BY <1>1, <1>2, <1>3, <1>4

\* What was at place k of a stage, its front, is now the last of the next stage.
LEMMA MovedKeepsOrder ==
    ASSUME NEW c \in Clients, InOrder(c), NEW from \in 1..4,
           NEW k \in Nat, NEW d \in {0, 1}, NEW n \in Nat,
           \A s \in Way : \A i, t \in Nat : NamedAt(c, s, i, t)' =>
              \/ s = from - 1 /\ i = n /\ NamedAt(c, from, k, t)
              \/ s = from - 1 /\ i < n /\ NamedAt(c, s, i, t)
              \/ s = from /\ i + d > k /\ NamedAt(c, s, i + d, t)
              \/ s # from /\ s # from - 1 /\ NamedAt(c, s, i, t)
    PROVE  InOrder(c)'
  <1> SUFFICES ASSUME NEW s \in Way, NEW r \in Way, NEW i \in Nat, NEW j \in Nat,
                      NEW t \in Nat, NEW u \in Nat, Earlier(s, i, r, j),
                      NamedAt(c, s, i, t)', NamedAt(c, r, j, u)'
               PROVE  t < u
    BY DEF InOrder
  <1>1. ASSUME NEW q \in Way, NEW l \in Nat, NEW x \in Nat, NamedAt(c, q, l, x)'
        PROVE  \E q0 \in Way, l0 \in Nat :
                  /\ NamedAt(c, q0, l0, x)
                  /\ \/ q = from - 1 /\ l = n /\ q0 = from /\ l0 = k
                     \/ q = from - 1 /\ l < n /\ q0 = q /\ l0 = l
                     \/ q = from /\ l + d > k /\ q0 = from /\ l0 = l + d
                     \/ q # from /\ q # from - 1 /\ q0 = q /\ l0 = l
    <2>1. l + d \in Nat /\ from \in Way
      BY DEF Way
    <2> QED
      BY <1>1, <2>1
  <1>2. PICK s0 \in Way, i0 \in Nat :
            /\ NamedAt(c, s0, i0, t)
            /\ \/ s = from - 1 /\ i = n /\ s0 = from /\ i0 = k
               \/ s = from - 1 /\ i < n /\ s0 = s /\ i0 = i
               \/ s = from /\ i + d > k /\ s0 = from /\ i0 = i + d
               \/ s # from /\ s # from - 1 /\ s0 = s /\ i0 = i
    BY <1>1
  <1>3. PICK r0 \in Way, j0 \in Nat :
            /\ NamedAt(c, r0, j0, u)
            /\ \/ r = from - 1 /\ j = n /\ r0 = from /\ j0 = k
               \/ r = from - 1 /\ j < n /\ r0 = r /\ j0 = j
               \/ r = from /\ j + d > k /\ r0 = from /\ j0 = j + d
               \/ r # from /\ r # from - 1 /\ r0 = r /\ j0 = j
    BY <1>1
  <1>4. Earlier(s0, i0, r0, j0)
    <2> USE DEF Earlier
    <2>1. CASE s = from - 1 /\ i = n /\ s0 = from /\ i0 = k
      BY <1>3, <2>1 DEF Way
    <2>2. CASE s = from - 1 /\ i < n /\ s0 = s /\ i0 = i
      BY <1>3, <2>2 DEF Way
    <2>3. CASE s = from /\ i + d > k /\ s0 = from /\ i0 = i + d
      BY <1>3, <2>3 DEF Way
    <2>4. CASE s # from /\ s # from - 1 /\ s0 = s /\ i0 = i
      BY <1>3, <2>4 DEF Way
    <2> QED
      BY <1>2, <2>1, <2>2, <2>3, <2>4
  <1> QED
    BY <1>2, <1>3, <1>4 DEF InOrder

-----------------------------------------------------------------------------
(* The steps *)

\* What is on its way to c names no turn that the host is not about to start.
LEMMA NamedUpToHost ==
    ASSUME TypeOK, HostQueueInv, NothingAhead,
           NEW c \in Clients, NEW s \in Way, NEW i \in Nat, NEW t \in Nat,
           NamedAt(c, s, i, t)
    PROVE  t <= ComingTurn
  <1> DEFINE bound == IF SingleThread THEN turn[Host] ELSE ComingTurn
  <1>0. /\ ComingTurn \in Nat /\ bound \in Nat /\ bound <= ComingTurn
        /\ turn[c] <= bound /\ QueueUpTo(outgoing[Host], ComingTurn)
        /\ QueueUpTo(pending[c], bound) /\ QueueUpTo(batch[c], bound)
        /\ ChannelUpTo(to_client[c], bound)
    BY ComingTurnFacts DEF NothingAhead, ClientNeverAhead
  <1> HIDE DEF bound
  <1>1. CASE s = 0
    BY <1>0, <1>1 DEF NamedAt
  <1>2. CASE s = 1
    BY <1>0, <1>2 DEF NamedAt, QueueNames, Names, QueueUpTo, NamesUpTo
  <1>3. CASE s = 2
    BY <1>0, <1>3 DEF NamedAt, QueueNames, Names, QueueUpTo, NamesUpTo
  <1>4. CASE s = 3
    BY <1>0, <1>4 DEF NamedAt, ChannelNames, Names, ChannelUpTo, PacketUpTo, NamesUpTo
  <1>5. CASE s = 4
    BY <1>0, <1>5 DEF NamedAt, UnsentNames, Names, QueueUpTo, NamesUpTo
  <1> QED
    BY <1>1, <1>2, <1>3, <1>4, <1>5 DEF NamedAt

\* A step that leaves what is on the way to c as it is.
LEMMA SameKeepsOrder ==
    ASSUME NEW c \in Clients, InOrder(c), OnlyHostAdvances(c),
           turn'[c] = turn[c], batch'[c] = batch[c], pending'[c] = pending[c],
           to_client'[c] = to_client[c], outgoing'[Host] = outgoing[Host],
           flushed'[Host] = flushed[Host], waiting'[c] = waiting[c]
    PROVE  OnlyHostAdvances(c)' /\ InOrder(c)'
  <1>1. OnlyHostAdvances(c)'
    BY DEF OnlyHostAdvances
  <1>2. \A s \in Way : \A i, t \in Nat : NamedAt(c, s, i, t)' => NamedAt(c, s, i, t)
    BY DEF NamedAt
  <1> QED
    BY <1>1, <1>2, FewerKeepsOrder

\* A click names no turn.
LEMMA ClickKeepsOrder ==
    ASSUME TypeOK, NEW c \in Clients, InOrder(c), OnlyHostAdvances(c), NEW n \in Nodes,
           NEW name \in {"complete_turn", "uncomplete_turn"}, Click(n, name)
    PROVE  OnlyHostAdvances(c)' /\ InOrder(c)'
  <1> DEFINE e == NewEvent(n, name, 0)
  <1>1. e \in Event /\ e.name # "advance_turn"
    BY NewEventIsEvent DEF EventName, NewEvent
  <1>2. /\ pending' = [pending EXCEPT ![n] = Append(@, e)]
        /\ UNCHANGED <<turn, batch, waiting, outgoing, flushed, to_client>>
    BY DEF Click, replicaVars, flushVars, netVars
  <1> HIDE DEF e
  <1>3. pending'[c] = pending[c] \/ pending'[c] = Append(pending[c], e)
    BY <1>2, WayTypes DEF TypeOK
  <1>4. CASE pending'[c] = pending[c]
    BY <1>2, <1>4, SameKeepsOrder
  <1>5. CASE pending'[c] = Append(pending[c], e)
    <2>0. pending[c] \in Seq(Event)
      BY WayTypes
    <2>1. \A i \in 1..Len(Append(pending[c], e)) :
             \/ Append(pending[c], e)[i] = e
             \/ i \in 1..Len(pending[c]) /\ Append(pending[c], e)[i] = pending[c][i]
      BY <1>1, <2>0, AppendElements
    <2>2. OnlyHostAdvances(c)'
      BY <1>1, <1>2, <1>5, <2>1 DEF OnlyHostAdvances
    <2>3. \A i, t \in Nat : QueueNames(Append(pending[c], e), i, t) => QueueNames(pending[c], i, t)
      <3>1. \A t : ~Names(e, t)
        BY <1>1 DEF Names
      <3> QED
        BY <1>1, <2>0, <3>1, AppendNames
    <2>4. \A s \in Way : \A i, t \in Nat : NamedAt(c, s, i, t)' => NamedAt(c, s, i, t)
      BY <1>2, <1>5, <2>3 DEF NamedAt
    <2> QED
      BY <2>2, <2>4, FewerKeepsOrder
  <1> QED
    BY <1>3, <1>4, <1>5

\* A batch of c is what was queued; no other batch was.
LEMMA StartBatchKeepsOrder ==
    ASSUME TypeOK, NEW c \in Clients, InOrder(c), OnlyHostAdvances(c), NEW n \in Nodes,
           StartBatch(n)
    PROVE  OnlyHostAdvances(c)' /\ InOrder(c)'
  <1>1. /\ batch' = [batch EXCEPT ![n] = pending[n]]
        /\ pending' = [pending EXCEPT ![n] = <<>>]
        /\ batch[n] = <<>>
        /\ UNCHANGED <<turn, waiting, outgoing, flushed, to_client>>
    BY DEF StartBatch, MainIdle, replicaVars, flushVars, netVars
  <1>2. CASE n # c
    <2>1. batch'[c] = batch[c] /\ pending'[c] = pending[c]
      BY <1>1, <1>2, WayTypes DEF TypeOK
    <2> QED
      BY <1>1, <2>1, SameKeepsOrder
  <1>3. CASE n = c
    <2>1. batch'[c] = pending[c] /\ pending'[c] = <<>> /\ batch[c] = <<>>
      BY <1>1, <1>3, WayTypes DEF TypeOK
    <2>2. OnlyHostAdvances(c)'
      BY <1>1, <2>1 DEF OnlyHostAdvances
    <2>3. ASSUME NEW s \in Way, NEW i \in Nat, NEW t \in Nat, NamedAt(c, s, i, t)'
          PROVE  \/ s = 1 /\ NamedAt(c, 2, i, t)
                 \/ s # 1 /\ s # 2 /\ NamedAt(c, s, i, t)
      <3>1. ~QueueNames(<<>>, i, t)
        BY NothingNamed
      <3> QED
        BY <1>1, <2>1, <2>3, <3>1 DEF NamedAt
    <2>4. InOrder(c)'
      <3> SUFFICES ASSUME NEW s \in Way, NEW r \in Way, NEW i \in Nat, NEW j \in Nat,
                          NEW t \in Nat, NEW u \in Nat, Earlier(s, i, r, j),
                          NamedAt(c, s, i, t)', NamedAt(c, r, j, u)'
                   PROVE  t < u
        BY DEF InOrder
      <3> DEFINE s0 == IF s = 1 THEN 2 ELSE s
                 r0 == IF r = 1 THEN 2 ELSE r
      <3>1. NamedAt(c, s0, i, t) /\ NamedAt(c, r0, j, u)
        BY <2>3
      <3>2. s # 2 /\ r # 2 /\ s0 \in Way /\ r0 \in Way
        BY <2>3 DEF Way
      <3>3. Earlier(s0, i, r0, j)
        BY <3>2 DEF Earlier, Way
      <3> HIDE DEF s0, r0
      <3> QED
        BY <3>1, <3>2, <3>3 DEF InOrder
    <2> QED
      BY <2>2, <2>4
  <1> QED
    BY <1>2, <1>3

\* A broadcast leaves the vector for the end of the channel, or passes c over;
\* a vector that is cleared names nothing.
LEMMA FlushKeepsOrder ==
    ASSUME TypeOK, NEW c \in Clients, InOrder(c), OnlyHostAdvances(c), NEW n \in Nodes, Flush(n)
    PROVE  OnlyHostAdvances(c)' /\ InOrder(c)'
  <1>0. /\ UNCHANGED <<turn, batch, pending, waiting>>
        /\ n # Host => /\ to_client'[c] = to_client[c] /\ outgoing'[Host] = outgoing[Host]
                      /\ flushed'[Host] = flushed[Host]
    BY WayTypes DEF Flush, SendPending, ClearPending, replicaVars, queueVars, netVars, TypeOK
  <1>1. OnlyHostAdvances(c)'
    BY <1>0 DEF OnlyHostAdvances
  <1>2. CASE n # Host
    BY <1>0, <1>2, SameKeepsOrder
  <1>3. CASE n = Host /\ ClearPending(n)
    <2>1. outgoing'[Host] = <<>> /\ to_client' = to_client /\ flushed'[Host] \in Nat
      BY <1>3 DEF ClearPending, netVars, TypeOK
    <2>2. \A i, t \in Nat : ~UnsentNames(<<>>, flushed'[Host], i, t)
      BY <2>1, NothingNamed
    <2>3. \A s \in Way : \A i, t \in Nat : NamedAt(c, s, i, t)' => NamedAt(c, s, i, t)
      BY <1>0, <2>1, <2>2 DEF NamedAt
    <2> QED
      BY <1>1, <2>3, FewerKeepsOrder
  <1>4. CASE n = Host /\ SendPending(n)
    <2> DEFINE k == flushed[Host] + 1
               ev == outgoing[Host][k]
               p == [type |-> "event", event |-> ev]
    <2>1. /\ k \in 1..Len(outgoing[Host]) /\ ev \in Event /\ flushed'[Host] = k
          /\ flushed[Host] \in Nat /\ k \in Nat
      BY <1>4, SentIsQueued
    <2>2. p \in ServerPacket /\ p.event = ev
      BY <2>1 DEF ServerPacket
    <2>3. /\ outgoing' = outgoing
          /\ to_client'[c] = to_client[c] \/ to_client'[c] = Append(to_client[c], p)
      BY <1>4 DEF SendPending, TypeOK
    <2> HIDE DEF p
    <2>4. \A i, t \in Nat : UnsentNames(outgoing[Host], k, i, t) =>
             i > k /\ UnsentNames(outgoing[Host], flushed[Host], i, t)
      BY <2>1 DEF UnsentNames
    <2>5. CASE to_client'[c] = to_client[c]
      <3>1. \A s \in Way : \A i, t \in Nat : NamedAt(c, s, i, t)' => NamedAt(c, s, i, t)
        BY <1>0, <2>1, <2>3, <2>4, <2>5 DEF NamedAt
      <3> QED
        BY <1>1, <3>1, FewerKeepsOrder
    <2>6. CASE to_client'[c] = Append(to_client[c], p)
      <3> DEFINE last == Len(to_client[c]) + 1
      <3>1. to_client[c] \in Seq(ServerPacket) /\ last \in Nat
        BY WayTypes
      <3>2. \A t \in Nat : Names(ev, t) => NamedAt(c, 4, k, t)
        BY <2>1 DEF NamedAt, UnsentNames
      <3>3. \A i, t \in Nat : ChannelNames(Append(to_client[c], p), i, t) =>
               \/ i < last /\ ChannelNames(to_client[c], i, t)
               \/ i = last /\ Names(ev, t)
        <4> TAKE i, t \in Nat
        <4>1. ChannelNames(Append(to_client[c], p), i, t) =>
                 \/ ChannelNames(to_client[c], i, t)
                 \/ i = Len(to_client[c]) + 1 /\ p.type = "event" /\ Names(p.event, t)
          BY <2>2, <3>1, AppendChannelNames
        <4>2. ChannelNames(to_client[c], i, t) => i < last
          BY <3>1, NothingNamed
        <4> QED
          BY <2>2, <4>1, <4>2
      <3>4. \A s \in Way : \A i, t \in Nat : NamedAt(c, s, i, t)' =>
               \/ s = 3 /\ i = last /\ NamedAt(c, 4, k, t)
               \/ s = 3 /\ i < last /\ NamedAt(c, s, i, t)
               \/ s = 4 /\ i > k /\ NamedAt(c, s, i, t)
               \/ s # 4 /\ s # 3 /\ NamedAt(c, s, i, t)
        <4> TAKE s \in Way
        <4> TAKE i, t \in Nat
        <4> HAVE NamedAt(c, s, i, t)'
        <4> HIDE DEF last
        <4>1. CASE s = 3
          BY <2>6, <3>2, <3>3, <4>1 DEF NamedAt
        <4>2. CASE s = 4
          BY SMTT(20), <2>1, <2>3, <2>4, <4>2 DEF NamedAt
        <4>3. CASE s # 3 /\ s # 4
          BY <1>0, <4>3 DEF NamedAt
        <4> QED
          BY <4>1, <4>2, <4>3
      <3>5. 4 \in 1..4 /\ 4 - 1 = 3 /\ 0 \in {0, 1} /\ \A i \in Nat : i + 0 = i
        OBVIOUS
      <3>6. \A s \in Way : \A i, t \in Nat : NamedAt(c, s, i, t)' =>
               \/ s = 4 - 1 /\ i = last /\ NamedAt(c, 4, k, t)
               \/ s = 4 - 1 /\ i < last /\ NamedAt(c, s, i, t)
               \/ s = 4 /\ i + 0 > k /\ NamedAt(c, s, i + 0, t)
               \/ s # 4 /\ s # 4 - 1 /\ NamedAt(c, s, i, t)
        BY <3>4, <3>5
      <3> HIDE DEF last
      <3>7. InOrder(c)'
        BY <2>1, <3>1, <3>5, <3>6, MovedKeepsOrder
      <3> QED
        BY <1>1, <3>7
    <2> QED
      BY <2>3, <2>5, <2>6
  <1> QED
    BY <1>2, <1>3, <1>4 DEF Flush

\* A broadcast that is queued names the turn that the host starts next.
LEMMA HostProcessKeepsOrder ==
    ASSUME TypeOK, HostQueueInv, NothingAhead, NEW c \in Clients, InOrder(c), OnlyHostAdvances(c),
           HostProcess
    PROVE  OnlyHostAdvances(c)' /\ InOrder(c)'
  <1> DEFINE ev == batch[Host][1]
             last == Len(outgoing[Host]) + 1
  <1>0. ev \in Event /\ Head(batch[Host]) = ev
    BY HostProcessFrame, TailElements, WayTypes
  <1>1. OnlyHostAdvances(c)'
    BY HostProcessFrame DEF OnlyHostAdvances
  <1>2. outgoing[Host] \in Seq(Event) /\ to_client[c] \in Seq(ServerPacket)
    BY WayTypes
  <1>3. \A i, t \in Nat : ChannelNames(to_client'[c], i, t) => ChannelNames(to_client[c], i, t)
    <2>1. ASSUME NEW r \in Response
          PROVE  r \in ServerPacket /\ r.type # "event"
      BY DEF Response, ServerPacket
    <2>2. ASSUME NEW r \in Response, to_client'[c] = Append(to_client[c], r)
          PROVE  \A i, t \in Nat :
                    ChannelNames(to_client'[c], i, t) => ChannelNames(to_client[c], i, t)
      BY <1>2, <2>1, <2>2, AppendChannelNames
    <2> QED
      BY <2>2, HostProcessFrame
  <1>4. /\ outgoing'[Host] = outgoing[Host]
        \/ /\ outgoing'[Host] = Append(outgoing[Host], ev)
           /\ ev.name = "advance_turn" => ev.turn_id = ComingTurn' /\ ComingTurn < ComingTurn'
    <2>1. CASE HostBroadcast
      <3>1. /\ outgoing'[Host] = Append(outgoing[Host], ev)
            /\ batch' = batch /\ turn' = turn /\ stage' = "queued"
            /\ stage # "queued" /\ Validate(Host, ev)
        BY <1>0, <2>1, WayTypes DEF HostBroadcast, Broadcast, replicaVars, HostQueueInv, TypeOK
      <3>2. ev.name = "advance_turn" => ev.turn_id = turn[Host] + 1
        BY <3>1, HostProcessFrame, AcceptedAdvance
      <3>3. ev.name = "advance_turn" => ComingTurn = turn[Host] /\ ComingTurn' = ev.turn_id
        BY <1>0, <3>1 DEF ComingTurn, TurnAfter
      <3> QED
        BY <3>1, <3>2, <3>3, WayTypes
    <2>2. CASE HostAnswer \/ HostApply \/ HostReject
      BY <2>2 DEF HostAnswer, HostApply, HostReject, flushVars
    <2> QED
      BY <2>1, <2>2 DEF HostProcess
  <1>5. flushed'[Host] = flushed[Host] /\ flushed[Host] \in Nat
    BY HostProcessFrame, WayTypes DEF TypeOK
  <1>6. \A i, t \in Nat : UnsentNames(outgoing'[Host], flushed[Host], i, t) =>
           \/ UnsentNames(outgoing[Host], flushed[Host], i, t)
           \/ i = last /\ t = ComingTurn' /\ ComingTurn < t
    <2>1. CASE outgoing'[Host] = outgoing[Host]
      BY <2>1
    <2>2. CASE /\ outgoing'[Host] = Append(outgoing[Host], ev)
               /\ ev.name = "advance_turn" => ev.turn_id = ComingTurn' /\ ComingTurn < ComingTurn'
      BY <1>0, <1>2, <1>5, <2>2, AppendNames DEF Names
    <2> QED
      BY <1>4, <2>1, <2>2
  <1>7. /\ turn'[c] = turn[c] /\ pending'[c] = pending[c] /\ batch'[c] = batch[c]
    BY HostProcessFrame
  <1>8. \A s \in Way : \A i, t \in Nat : NamedAt(c, s, i, t)' =>
           NamedAt(c, s, i, t) \/ (s = 4 /\ i = last /\ t = ComingTurn' /\ ComingTurn < t)
    <2> HIDE DEF last
    <2> QED
      BY <1>3, <1>5, <1>6, <1>7 DEF NamedAt
  <1>9. \A s \in Way : \A i, t \in Nat : NamedAt(c, s, i, t) =>
           t <= ComingTurn /\ (s = 4 => i < last)
    <2> TAKE s \in Way
    <2> TAKE i, t \in Nat
    <2> HAVE NamedAt(c, s, i, t)
    <2>1. t <= ComingTurn
      BY NamedUpToHost
    <2>2. s = 4 => UnsentNames(outgoing[Host], flushed[Host], i, t)
      BY DEF NamedAt
    <2>3. s = 4 => i < last
      BY <1>2, <1>5, <2>2, NothingNamed
    <2> QED
      BY <2>1, <2>3
  <1>10. ComingTurn' \in Nat /\ ComingTurn \in Nat
    BY HostTurnGrows, ComingTurnFacts DEF Next
  <1>11. InOrder(c)'
    <2> SUFFICES ASSUME NEW s \in Way, NEW r \in Way, NEW i \in Nat, NEW j \in Nat,
                        NEW t \in Nat, NEW u \in Nat, Earlier(s, i, r, j),
                        NamedAt(c, s, i, t)', NamedAt(c, r, j, u)'
                 PROVE  t < u
      BY DEF InOrder
    <2>1. last \in Nat
      BY <1>2
    <2> HIDE DEF last
    <2>2. CASE NamedAt(c, s, i, t) /\ NamedAt(c, r, j, u)
      BY <2>2 DEF InOrder
    <2>3. CASE r = 4 /\ j = last /\ u = ComingTurn' /\ ComingTurn < u
      <3>1. NamedAt(c, s, i, t) \/ (s = 4 /\ i = last)
        BY <1>8
      <3>2. ~(s = 4 /\ i = last)
        BY <2>1, <2>3 DEF Earlier
      <3> QED
        BY <1>9, <1>10, <2>3, <3>1, <3>2
    <2>4. CASE s = 4 /\ i = last /\ NamedAt(c, r, j, u)
      <3>1. r = 4 /\ j > last
        BY <2>4 DEF Earlier, Way
      <3> QED
        BY <1>9, <2>1, <2>4, <3>1
    <2> QED
      BY <1>8, <2>2, <2>3, <2>4
  <1> QED
    BY <1>1, <1>11

\* The first event of c's batch is applied or dropped.
LEMMA ClientProcessKeepsOrder ==
    ASSUME TypeOK, NEW c \in Clients, InOrder(c), OnlyHostAdvances(c), ClientProcess(c)
    PROVE  /\ OnlyHostAdvances(c)' /\ InOrder(c)'
           /\ turn'[c] >= turn[c]
  <1> DEFINE ev == batch[c][1]
  <1>0. /\ batch[c] # <<>> /\ batch'[c] = Tail(batch[c])
        /\ UNCHANGED <<pending, flushed, to_client>> /\ outgoing'[Host] = outgoing[Host]
    BY WayTypes DEF ClientProcess, ClientApply, ClientRefuse, MainInBatch, StoreAndSend,
                    flushVars, netVars, TypeOK
  <1>1. /\ 1 \in 1..Len(batch[c]) /\ Head(batch[c]) = ev /\ ev \in Event /\ batch[c] \in Seq(Event)
        /\ \A i \in 1..Len(Tail(batch[c])) :
              i + 1 \in 1..Len(batch[c]) /\ Tail(batch[c])[i] = batch[c][i + 1]
    BY <1>0, TailElements, WayTypes
  <1>2. /\ \/ turn'[c] = turn[c]
           \/ ev.name = "advance_turn" /\ turn'[c] = ev.turn_id
        /\ \/ waiting'[c] = waiting[c]
           \/ ev.source = "LOCAL" /\ waiting'[c] = waiting[c] \cup {ev}
    <2>1. CASE ClientApply(c)
      BY <1>1, <2>1, WayTypes DEF ClientApply, Apply, TurnAfter, StoreAndSend, TypeOK
    <2>2. CASE ClientRefuse(c)
      BY <2>2 DEF ClientRefuse, replicaVars
    <2> QED
      BY <2>1, <2>2 DEF ClientProcess
  <1>3. OnlyHostAdvances(c)'
    BY <1>0, <1>1, <1>2 DEF OnlyHostAdvances
  <1>4. \A i, t \in Nat : QueueNames(batch'[c], i, t) => i + 1 > 1 /\ QueueNames(batch[c], i + 1, t)
    BY <1>0, <1>1, TailNames
  <1>5. CASE turn'[c] = turn[c]
    <2>1. \A s \in Way : \A i, t \in Nat : NamedAt(c, s, i, t)' =>
             \/ s = 1 /\ NamedAt(c, s, i + 1, t)
             \/ s # 1 /\ NamedAt(c, s, i, t)
      BY <1>0, <1>4, <1>5 DEF NamedAt
    <2>2. 1 \in Way
      BY DEF Way
    <2>3. InOrder(c)'
      BY <2>1, <2>2, DroppedKeepsOrder
    <2> QED
      BY <1>3, <1>5, <2>3, WayTypes
  <1>6. CASE ev.name = "advance_turn" /\ turn'[c] = ev.turn_id
    <2>1. NamedAt(c, 1, 1, turn'[c]) /\ NamedAt(c, 0, 1, turn[c])
      BY <1>1, <1>6 DEF NamedAt, QueueNames, Names
    <2>2. turn[c] <= turn'[c]
      <3>1. Earlier(0, 1, 1, 1) /\ 0 \in Way /\ 1 \in Way
        BY DEF Earlier, Way
      <3>2. turn[c] \in Nat /\ turn'[c] \in Nat
        BY <1>1, <1>6, WayTypes DEF Event
      <3> QED
        BY <2>1, <3>1, <3>2 DEF InOrder
    <2>3. \A s \in Way : \A i, t \in Nat : NamedAt(c, s, i, t)' =>
             \/ s = 1 - 1 /\ i = 1 /\ NamedAt(c, 1, 1, t)
             \/ s = 1 - 1 /\ i < 1 /\ NamedAt(c, s, i, t)
             \/ s = 1 /\ i + 1 > 1 /\ NamedAt(c, s, i + 1, t)
             \/ s # 1 /\ s # 1 - 1 /\ NamedAt(c, s, i, t)
      <3> TAKE s \in Way
      <3> TAKE i, t \in Nat
      <3> HAVE NamedAt(c, s, i, t)'
      <3>1. CASE s = 0
        BY <2>1, <3>1 DEF NamedAt
      <3>2. CASE s = 1
        BY <1>4, <3>2 DEF NamedAt
      <3>3. CASE s # 0 /\ s # 1
        BY <1>0, <3>3 DEF NamedAt
      <3> QED
        BY <3>1, <3>2, <3>3
    <2>4. InOrder(c)'
      <3>1. 1 \in 1..4 /\ 1 \in Nat /\ 1 \in {0, 1}
        OBVIOUS
      <3> QED
        BY <2>3, <3>1, MovedKeepsOrder
    <2> QED
      BY <1>1, <1>3, <1>6, <2>2, <2>4, WayTypes DEF Event
  <1> QED
    BY <1>2, <1>5, <1>6

\* An answer is about an event that advances no turn.
LEMMA HandleResponseKeepsOrder ==
    ASSUME TypeOK, NEW c \in Clients, InOrder(c), OnlyHostAdvances(c), HandleResponse(c)
    PROVE  /\ OnlyHostAdvances(c)' /\ InOrder(c)'
           /\ turn'[c] = turn[c]
  <1>1. PICK ev \in waiting[c] :
            /\ turn' = [turn EXCEPT ![c] =
                    IF Head(responses[c]).accepted /\ ~WasApplied(ev) THEN TurnAfter(c, ev) ELSE @]
            /\ waiting' = [waiting EXCEPT ![c] = @ \ {ev}]
            /\ UNCHANGED <<pending, batch, outgoing, flushed, to_client>>
    BY DEF HandleResponse, flushVars, netVars
  <1>2. turn'[c] = turn[c]
    <2>1. ev.name # "advance_turn"
      BY DEF OnlyHostAdvances
    <2>2. TurnAfter(c, ev) = turn[c]
      BY <2>1 DEF TurnAfter
    <2> QED
      BY <1>1, <2>2, WayTypes DEF TypeOK
  <1>3. OnlyHostAdvances(c)'
    BY <1>1 DEF OnlyHostAdvances, TypeOK
  <1>4. \A s \in Way : \A i, t \in Nat : NamedAt(c, s, i, t)' => NamedAt(c, s, i, t)
    BY <1>1, <1>2 DEF NamedAt
  <1> QED
    BY <1>2, <1>3, <1>4, FewerKeepsOrder

\* The snapshot for c names a turn of no event, and other packets go to the host.
LEMMA HostReceiveKeepsOrder ==
    ASSUME TypeOK, NEW c \in Clients, InOrder(c), OnlyHostAdvances(c), NEW d \in Clients,
           HostReceive(d)
    PROVE  OnlyHostAdvances(c)' /\ InOrder(c)'
  <1>1. /\ UNCHANGED <<turn, batch, waiting, outgoing, flushed>>
        /\ pending'[c] = pending[c]
        /\ to_client'[c] = to_client[c] \/ to_client'[c] = Append(to_client[c], Snapshot)
    BY WayTypes DEF HostReceive, HostSendSnapshot, HostReceiveFlags, HostReceiveEvent,
                    replicaVars, queueVars, flushVars, TypeOK
  <1>2. OnlyHostAdvances(c)'
    BY <1>1 DEF OnlyHostAdvances
  <1>3. \A i, t \in Nat : ChannelNames(to_client'[c], i, t) => ChannelNames(to_client[c], i, t)
    <2>1. Snapshot \in ServerPacket /\ Snapshot.type # "event"
      BY WayTypes DEF Snapshot, ServerPacket
    <2>2. to_client[c] \in Seq(ServerPacket)
      BY WayTypes
    <2> QED
      BY <1>1, <2>1, <2>2, AppendChannelNames
  <1>4. \A s \in Way : \A i, t \in Nat : NamedAt(c, s, i, t)' => NamedAt(c, s, i, t)
    BY <1>1, <1>3 DEF NamedAt
  <1> QED
    BY <1>2, <1>4, FewerKeepsOrder

\* A packet leaves the channel: the snapshot, for a client that has no turn yet,
\* an event for the end of the queue, or an answer, which names no turn.
LEMMA ClientReceiveKeepsOrder ==
    ASSUME TypeOK, JoinInv, NEW c \in Clients, InOrder(c), OnlyHostAdvances(c), ClientReceive(c)
    PROVE  /\ OnlyHostAdvances(c)' /\ InOrder(c)'
           /\ turn'[c] >= turn[c]
  <1> DEFINE p == to_client[c][1]
  <1>0. /\ to_client[c] # <<>> /\ to_client'[c] = Tail(to_client[c])
        /\ UNCHANGED <<batch, waiting, outgoing, flushed>>
    BY DEF ClientReceive, ClientReceiveSnapshot, ClientReceiveEvent, ClientReceiveResponse,
           queueVars, flushVars, TypeOK
  <1>1. /\ 1 \in 1..Len(to_client[c]) /\ Head(to_client[c]) = p /\ p \in ServerPacket
        /\ to_client[c] \in Seq(ServerPacket)
    BY <1>0, TailElements, WayTypes
  <1>2. \A i, t \in Nat : ChannelNames(to_client'[c], i, t) =>
           i + 1 > 1 /\ ChannelNames(to_client[c], i + 1, t)
    BY <1>0, <1>1, TailNames
  <1>3. CASE ClientReceiveSnapshot(c)
    <2>1. client_state[c] # "running"
      BY <1>1, <1>3 DEF JoinInv, Joined, ClientReceiveSnapshot
    <2>2. Idle(c) /\ Asking(c) /\ HostWaitsFor(c)
      BY <2>1 DEF JoinInv, Joining
    <2>3. to_client[c] = <<[type |-> "snapshot", turn_id |-> 1]>>
      BY <1>0, <2>1, <2>2 DEF Asking
    <2>4. to_client'[c] = <<>> /\ Head(to_client[c]).turn_id = 1
      BY <1>0, <2>3, Singleton
    <2>5. turn'[c] = 1 /\ turn[c] = 0 /\ pending'[c] = <<>> /\ batch'[c] = <<>>
      BY <1>3, <2>2, <2>4, WayTypes DEF ClientReceiveSnapshot, Idle, queueVars, TypeOK
    <2>6. OnlyHostAdvances(c)'
      BY <1>0, <2>5 DEF OnlyHostAdvances
    <2>7. \A s \in Way : \A i, t \in Nat : NamedAt(c, s, i, t)' => s = 0 /\ i = 1
      <3>1. \A i, t \in Nat : ~UnsentNames(outgoing[Host], flushed[Host], i, t)
        BY <2>2 DEF HostWaitsFor, UnsentNames, Names
      <3> QED
        BY <1>0, <2>4, <2>5, <3>1, NothingNamed DEF NamedAt
    <2>8. InOrder(c)'
      <3>1. \A i, j \in Nat : i = 1 /\ j = 1 => ~Earlier(0, i, 0, j)
        BY DEF Earlier
      <3> QED
        BY <2>7, <3>1 DEF InOrder
    <2> QED
      BY <2>5, <2>6, <2>8
  <1>4. CASE ClientReceiveEvent(c)
    <2> DEFINE e == Deserialized(p.event, "SERVER")
               last == Len(pending[c]) + 1
    <2>1. p.type = "event" /\ p.event \in Event
      BY <1>1, <1>4 DEF ClientReceiveEvent, ServerPacket, Response
    <2>2. e \in Event /\ e.source = "SERVER" /\ e.name = p.event.name /\ e.turn_id = p.event.turn_id
      BY <2>1, DeserializedIsEvent DEF Source, Deserialized, Event
    <2>3. pending'[c] = Append(pending[c], e) /\ turn'[c] = turn[c]
      BY <1>1, <1>4, WayTypes DEF ClientReceiveEvent, replicaVars, TypeOK
    <2>4. pending[c] \in Seq(Event) /\ last \in Nat
      BY WayTypes
    <2> HIDE DEF e
    <2>5. OnlyHostAdvances(c)'
      <3>1. \A i \in 1..Len(Append(pending[c], e)) :
               \/ Append(pending[c], e)[i] = e
               \/ i \in 1..Len(pending[c]) /\ Append(pending[c], e)[i] = pending[c][i]
        BY <2>2, <2>4, AppendElements
      <3> QED
        BY <1>0, <2>2, <2>3, <3>1 DEF OnlyHostAdvances
    <2>6. \A i, t \in Nat : QueueNames(Append(pending[c], e), i, t) =>
             \/ i < last /\ QueueNames(pending[c], i, t)
             \/ i = last /\ Names(e, t)
      BY <2>2, <2>4, AppendNames, NothingNamed
    <2>7. \A t \in Nat : Names(e, t) => NamedAt(c, 3, 1, t)
      BY <1>1, <2>1, <2>2 DEF Names, NamedAt, ChannelNames
    <2> HIDE DEF last
    <2>8. \A s \in Way : \A i, t \in Nat : NamedAt(c, s, i, t)' =>
             \/ s = 3 - 1 /\ i = last /\ NamedAt(c, 3, 1, t)
             \/ s = 3 - 1 /\ i < last /\ NamedAt(c, s, i, t)
             \/ s = 3 /\ i + 1 > 1 /\ NamedAt(c, s, i + 1, t)
             \/ s # 3 /\ s # 3 - 1 /\ NamedAt(c, s, i, t)
      <3> TAKE s \in Way
      <3> TAKE i, t \in Nat
      <3> HAVE NamedAt(c, s, i, t)'
      <3>1. CASE s = 2
        <4>1. QueueNames(Append(pending[c], e), i, t)
          BY <2>3, <3>1 DEF NamedAt
        <4>2. QueueNames(pending[c], i, t) => NamedAt(c, 2, i, t)
          BY DEF NamedAt
        <4> QED
          BY <2>6, <2>7, <3>1, <4>1, <4>2
      <3>2. CASE s = 3
        BY <1>2, <3>2 DEF NamedAt
      <3>3. CASE s # 2 /\ s # 3
        BY <1>0, <2>3, <3>3 DEF NamedAt
      <3> QED
        BY <3>1, <3>2, <3>3
    <2>9. InOrder(c)'
      <3>1. 3 \in 1..4 /\ 1 \in Nat /\ 1 \in {0, 1}
        OBVIOUS
      <3> QED
        BY <2>4, <2>8, <3>1, MovedKeepsOrder
    <2> QED
      BY <2>3, <2>5, <2>9, WayTypes
  <1>5. CASE ClientReceiveResponse(c)
    <2>1. turn' = turn /\ pending' = pending
      BY <1>5 DEF ClientReceiveResponse, replicaVars
    <2>2. OnlyHostAdvances(c)'
      BY <1>0, <2>1 DEF OnlyHostAdvances
    <2>3. \A s \in Way : \A i, t \in Nat : NamedAt(c, s, i, t)' =>
             \/ s = 3 /\ NamedAt(c, s, i + 1, t)
             \/ s # 3 /\ NamedAt(c, s, i, t)
      BY <1>0, <1>2, <2>1 DEF NamedAt
    <2>4. 3 \in Way
      BY DEF Way
    <2>5. InOrder(c)'
      BY <2>3, <2>4, DroppedKeepsOrder
    <2> QED
      BY <2>1, <2>2, <2>5, WayTypes
  <1> QED
    BY <1>3, <1>4, <1>5 DEF ClientReceive

\* What another client does leaves the way to c as it is.
LEMMA OthersKeepWay ==
    ASSUME TypeOK, NEW c \in Clients, NEW d \in Clients, d # c,
           ClientProcess(d) \/ HandleResponse(d) \/ ClientReceive(d)
    PROVE  /\ turn'[c] = turn[c] /\ batch'[c] = batch[c] /\ pending'[c] = pending[c]
           /\ to_client'[c] = to_client[c] /\ outgoing'[Host] = outgoing[Host]
           /\ flushed'[Host] = flushed[Host] /\ waiting'[c] = waiting[c]
  <1> USE WayTypes DEF replicaVars, queueVars, flushVars, joinVars, netVars
  <1>1. CASE ClientProcess(d)
    BY ZenonT(30), <1>1 DEF ClientProcess, ClientApply, ClientRefuse, Apply, StoreAndSend, TypeOK
  <1>2. CASE HandleResponse(d)
    BY <1>2 DEF HandleResponse, TypeOK
  <1>3. CASE ClientReceive(d)
    BY <1>3 DEF ClientReceive, ClientReceiveSnapshot, ClientReceiveEvent, ClientReceiveResponse,
                TypeOK
  <1> QED
    BY <1>1, <1>2, <1>3

-----------------------------------------------------------------------------
(* The theorems *)

\* At first no turn is on its way.
LEMMA InitOrderInv == Init => OrderInv
<1> SUFFICES ASSUME Init, NEW c \in Clients
             PROVE  OnlyHostAdvances(c) /\ InOrder(c)
  BY DEF OrderInv
<1>1. /\ pending[c] = <<>> /\ batch[c] = <<>> /\ to_client[c] = <<>> /\ outgoing[Host] = <<>>
      /\ waiting[c] = {} /\ flushed[Host] \in Nat
  BY DEF Init, Nodes
<1>2. OnlyHostAdvances(c)
  BY <1>1 DEF OnlyHostAdvances
<1>3. \A s \in Way : \A i, t \in Nat : NamedAt(c, s, i, t) => s = 0 /\ i = 1
  BY <1>1, NothingNamed DEF NamedAt
<1>4. \A i, j \in Nat : i = 1 /\ j = 1 => ~Earlier(0, i, 0, j)
  BY DEF Earlier
<1>5. InOrder(c)
  BY <1>3, <1>4 DEF InOrder
<1> QED
  BY <1>2, <1>5

\* No step takes a client back or puts a turn before an earlier one.
LEMMA StepOrder ==
    ASSUME TypeOK, HostQueueInv, NothingAhead, JoinInv, OrderInv, [Next]_vars, NEW c \in Clients
    PROVE  /\ OnlyHostAdvances(c)' /\ InOrder(c)'
           /\ turn'[c] >= turn[c]
<1>0. InOrder(c) /\ OnlyHostAdvances(c) /\ turn[c] \in Nat
  BY WayTypes DEF OrderInv
<1> DEFINE Good == OnlyHostAdvances(c)' /\ InOrder(c)' /\ turn'[c] >= turn[c]
<1>1. ASSUME NEW n \in Nodes, NEW name \in {"complete_turn", "uncomplete_turn"}, Click(n, name)
      PROVE  Good
  <2>1. OnlyHostAdvances(c)' /\ InOrder(c)'
    BY <1>0, <1>1, ClickKeepsOrder
  <2>2. turn' = turn
    BY <1>1 DEF Click, replicaVars
  <2> QED
    BY <1>0, <2>1, <2>2
<1>2. ASSUME NEW n \in Nodes, StartBatch(n)
      PROVE  Good
  <2>1. OnlyHostAdvances(c)' /\ InOrder(c)'
    BY <1>0, <1>2, StartBatchKeepsOrder
  <2>2. turn' = turn
    BY <1>2 DEF StartBatch, replicaVars
  <2> QED
    BY <1>0, <2>1, <2>2
<1>3. ASSUME NEW n \in Nodes, Flush(n)
      PROVE  Good
  BY <1>0, <1>3, FlushKeepsOrder DEF Flush, SendPending, ClearPending, replicaVars
<1>4. CASE HostProcess
  BY <1>0, <1>4, HostProcessKeepsOrder, HostProcessFrame
<1>5. ASSUME NEW d \in Clients, RequestDownload(d)
      PROVE  Good
  BY <1>0, <1>5, SameKeepsOrder DEF RequestDownload, replicaVars, queueVars, flushVars
<1>6. ASSUME NEW d \in Clients, d # c, ClientProcess(d) \/ HandleResponse(d) \/ ClientReceive(d)
      PROVE  Good
  BY <1>0, <1>6, OthersKeepWay, SameKeepsOrder
<1>7. CASE ClientProcess(c)
  BY <1>0, <1>7, ClientProcessKeepsOrder
<1>8. CASE HandleResponse(c)
  BY <1>0, <1>8, HandleResponseKeepsOrder
<1>9. CASE ClientReceive(c)
  BY <1>0, <1>9, ClientReceiveKeepsOrder
<1>10. ASSUME NEW d \in Clients, HostReceive(d)
       PROVE  Good
  BY <1>0, <1>10, HostReceiveKeepsOrder
  DEF HostReceive, HostSendSnapshot, HostReceiveFlags, HostReceiveEvent, replicaVars
<1>11. CASE UNCHANGED vars
  BY <1>0, <1>11, SameKeepsOrder DEF vars, replicaVars, queueVars, flushVars, netVars
<1> QED
  BY <1>1, <1>2, <1>3, <1>4, <1>5, <1>6, <1>7, <1>8, <1>9, <1>10, <1>11 DEF Next

\* Every client joins once, on turn 1, which the host does not end before, and
\* asks for no second snapshot.
THEOREM JoinsOnce == Spec => []JoinInv
<1>1. Init => JoinInv
  BY InitJoinInv
<1>2. TypeOK /\ HostQueueInv /\ JoinInv /\ [Next]_vars => JoinInv'
  BY StepJoinInv
<1> QED
  BY <1>1, <1>2, TypeCorrect, HostQueueOrdered, PTL DEF Spec

\* From the host's vector to the replica of a client, the turns are announced
\* in the order in which the host starts them, and no client announces one.
THEOREM TurnsArriveInOrder == Spec => []OrderInv
<1>1. Init => OrderInv
  BY InitOrderInv
<1>2. TypeOK /\ HostQueueInv /\ NothingAhead /\ JoinInv /\ OrderInv /\ [Next]_vars => OrderInv'
  BY StepOrder DEF OrderInv
<1> QED
  BY <1>1, <1>2, TypeCorrect, HostQueueOrdered, NothingIsAhead, JoinsOnce, PTL DEF Spec

\* Game::AdvanceTurn on a client: neither the snapshot, a broadcast that comes
\* late, nor an answer to one of its own events takes it back to an earlier turn.
THEOREM ClientsNeverGoBack == Spec => ClientTurnMonotone
<1>1. TypeOK /\ HostQueueInv /\ NothingAhead /\ JoinInv /\ OrderInv /\ [Next]_vars
         => [\A c \in Clients : turn'[c] >= turn[c]]_vars
  BY StepOrder
<1> QED
  BY <1>1, TypeCorrect, HostQueueOrdered, NothingIsAhead, JoinsOnce, TurnsArriveInOrder, PTL
  DEF Spec, ClientTurnMonotone

=============================================================================
