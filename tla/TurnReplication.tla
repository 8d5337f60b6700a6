-------------------------- MODULE TurnReplication --------------------------
(***************************************************************************)
(* The multiplayer event pipeline of GLSMAC (backend Game, Connection,     *)
(* Server, Client) carrying the three events that move a game forward:     *)
(* complete_turn, uncomplete_turn and advance_turn.                        *)
(*                                                                         *)
(* The host and every client keep a replica of the turn.  A click becomes  *)
(* a local event; a client validates and applies it at once, sends it, and *)
(* waits for the host's answer; the host validates, answers, queues a      *)
(* broadcast and applies.  Two threads of each program matter: MAIN runs   *)
(* the scripts (clicks, and the closures in which responses and events are *)
(* processed), GAME runs Connection::Iterate (receives packets and flushes *)
(* the queued events).  --single-thread runs both in one loop.             *)
(*                                                                         *)
(* Abstracted: units and bases refreshed by a new turn, the button's       *)
(* confirmation popup, the chunks of the snapshot (module Download), slots *)
(* that connect, leave or are kicked during the game, and the inline flush *)
(* of Connection::SendGameEvent at 256 queued events.  ASSERTs are the     *)
(* release build's: compiled out, and stated as invariants below.          *)
(* A flush of the host has one end for all clients; Server::SendGameEvents *)
(* loops over the events once per client and finds the end each time, so   *)
(* that an event queued meanwhile may be lost to one client and reach the  *)
(* next: to each of them by itself, this is one of the model's flushes.    *)
(***************************************************************************)
EXTENDS Naturals, Sequences

CONSTANTS
    Host,             \* slot 0, the server
    Clients,          \* the other player slots
    SingleThread,     \* launched with --single-thread
    MaxHostEvents,    \* bound: event ids the host's clicks may use up
    MaxClientEvents   \* bound: event ids a client's clicks may use up

ASSUME SlotAssumption == Host \notin Clients
ASSUME ThreadAssumption == SingleThread \in BOOLEAN
ASSUME BoundAssumption == MaxHostEvents \in Nat /\ MaxClientEvents \in Nat

Nodes == {Host} \cup Clients

\* Event::GenerateEventId: slot number and a per-node counter.
EventId == Nodes \X Nat
EventName == {"complete_turn", "uncomplete_turn", "advance_turn"}
Source == {"LOCAL", "SERVER", "CLIENT"}
Event == [id : EventId, name : EventName, caller : Nodes, turn_id : Nat, source : Source]

ClientPacket == [type : {"download", "flags"}] \cup [type : {"event"}, event : Event]
Response == [type : {"response"}, id : EventId, accepted : BOOLEAN]
ServerPacket ==
    Response \cup [type : {"event"}, event : Event] \cup [type : {"snapshot"}, turn_id : Nat]

VARIABLES
    turn,           \* Game::m_current_turn of each node
    done,           \* slots whose player has m_is_turn_completed, on each node
    next_event_id,  \* Game::m_next_event_id
    pending,        \* Game::m_pending_events
    batch,          \* the events ProcessEvents has swapped out and not yet handled
    stage,          \* how far the host is with accepting the first of its batch
    waiting,        \* Game::m_events_waiting_for_responses of a client
    responses,      \* Game::m_pending_event_responses of a client
    outgoing,       \* Connection::m_pending_game_events
    flush_end,      \* end of the range SendGameEvents iterates over, 0 when idle
    flushed,        \* how many of these it has sent
    client_state,   \* how far a client is with joining the game
    initialized,    \* clients whose slot has PF_GAME_INITIALIZED on the host
    to_host,        \* packets on the way from a client, in order
    to_client       \* packets on the way to a client, in order

replicaVars == <<turn, done>>
queueVars == <<next_event_id, pending, batch, stage, waiting, responses>>
flushVars == <<outgoing, flush_end, flushed>>
joinVars == <<client_state, initialized>>
netVars == <<to_host, to_client>>
vars == <<replicaVars, queueVars, flushVars, joinVars, netVars>>

\* Records that live in queues of the given node or channel.
TypeOK ==
    /\ turn \in [Nodes -> Nat]
    /\ done \in [Nodes -> SUBSET Nodes]
    /\ next_event_id \in [Nodes -> Nat]
    /\ pending \in [Nodes -> Seq(Event)]
    /\ batch \in [Nodes -> Seq(Event)]
    /\ stage \in {"idle", "answered", "queued"}
    /\ stage # "idle" => batch[Host] # <<>>
    /\ waiting \in [Clients -> SUBSET Event]
    /\ responses \in [Clients -> Seq(Response)]
    /\ outgoing \in [Nodes -> Seq(Event)]
    /\ flush_end \in [Nodes -> Nat]
    /\ flushed \in [Nodes -> Nat]
    /\ \A n \in Nodes : flushed[n] <= flush_end[n] /\ flush_end[n] <= Len(outgoing[n])
    /\ client_state \in [Clients -> {"waiting", "downloading", "running"}]
    /\ initialized \subseteq Clients
    /\ to_host \in [Clients -> Seq(ClientPacket)]
    /\ to_client \in [Clients -> Seq(ServerPacket)]

\* The host is in GS_RUNNING after FirstTurn, whose advance_turn used id 1 and
\* was flushed to nobody; the clients have been told that it is running.
Init ==
    /\ turn = [n \in Nodes |-> IF n = Host THEN 1 ELSE 0]
    /\ done = [n \in Nodes |-> {}]
    /\ next_event_id = [n \in Nodes |-> IF n = Host THEN 1 ELSE 0]
    /\ pending = [n \in Nodes |-> <<>>]
    /\ batch = [n \in Nodes |-> <<>>]
    /\ stage = "idle"
    /\ waiting = [c \in Clients |-> {}]
    /\ responses = [c \in Clients |-> <<>>]
    /\ outgoing = [n \in Nodes |-> <<>>]
    /\ flush_end = [n \in Nodes |-> 0]
    /\ flushed = [n \in Nodes |-> 0]
    /\ client_state = [c \in Clients |-> "waiting"]
    /\ initialized = {}
    /\ to_host = [c \in Clients |-> <<>>]
    /\ to_client = [c \in Clients |-> <<>>]

-----------------------------------------------------------------------------
(* The event handlers: GLSMAC_data/default/game/event/*.gls.js *)

\* Fault: nobody checks that the players are done when a turn advances.
ValidateWithoutPlayers(n, ev) ==
    \/ ev.name = "complete_turn" /\ ev.caller \notin done[n]
    \/ ev.name = "uncomplete_turn" /\ ev.caller \in done[n]
    \/ ev.name = "advance_turn" /\ ev.caller = Host

Validate(n, ev) ==
    \/ ev.name = "complete_turn" /\ ev.caller \notin done[n]
    \/ ev.name = "uncomplete_turn" /\ ev.caller \in done[n]
    \/ /\ ev.name = "advance_turn"
       /\ ev.caller = Host
       /\ ev.turn_id # 1 => Nodes \subseteq done[n]

TurnAfter(n, ev) == IF ev.name = "advance_turn" THEN ev.turn_id ELSE turn[n]

DoneAfter(n, ev) ==
    CASE ev.name = "complete_turn"   -> done[n] \cup {ev.caller}
      [] ev.name = "uncomplete_turn" -> done[n] \ {ev.caller}
      [] ev.name = "advance_turn"    -> {}

DoneRolledBack(n, ev) ==
    CASE ev.name = "complete_turn"   -> done[n] \ {ev.caller}
      [] ev.name = "uncomplete_turn" -> done[n] \cup {ev.caller}
      [] ev.name = "advance_turn"    -> done[n]

Apply(n, ev) ==
    /\ turn' = [turn EXCEPT ![n] = TurnAfter(n, ev)]
    /\ done' = [done EXCEPT ![n] = DoneAfter(n, ev)]

NewEvent(n, name, turn_id) ==
    [id |-> <<n, next_event_id[n] + 1>>, name |-> name, caller |-> n,
     turn_id |-> turn_id, source |-> "LOCAL"]

\* Fault: the payload is lost on the way.
DeserializedWithoutData(ev, source) == [ev EXCEPT !.source = source, !.turn_id = 0]

Deserialized(ev, source) == [ev EXCEPT !.source = source]

-----------------------------------------------------------------------------
(* Which thread may act.  Closures and clicks run on MAIN between two batches; *)
(* in one thread a flush and a batch exclude each other.                       *)

MainIdle(n) == batch[n] = <<>> /\ (SingleThread => flush_end[n] = 0)
MainInBatch(n) == batch[n] # <<>> /\ (SingleThread => flush_end[n] = 0)
GameThread(n) == SingleThread => batch[n] = <<>>

-----------------------------------------------------------------------------
(* MAIN: clicks and Game::ProcessEvents *)

\* The turn button goes to PLEASE WAIT until its event was handled, so a node
\* has at most one such event queued.  A confirmation popup answered late makes
\* complete_turn possible whatever the button shows by then.
ButtonReady(n) ==
    \A i \in 1..Len(pending[n]) :
        pending[n][i].caller = n => pending[n][i].name = "advance_turn"

Click(n, name) ==
    /\ MainIdle(n)
    /\ ButtonReady(n)
    /\ next_event_id[n] < (IF n = Host THEN MaxHostEvents ELSE MaxClientEvents)
    /\ (n \in Clients) => client_state[n] = "running"
    /\ pending' = [pending EXCEPT ![n] = Append(@, NewEvent(n, name, 0))]
    /\ next_event_id' = [next_event_id EXCEPT ![n] = @ + 1]
    /\ UNCHANGED <<replicaVars, batch, stage, waiting, responses, flushVars, joinVars, netVars>>

\* ProcessEvents swaps the queue out; responses are always handled before.
StartBatch(n) ==
    /\ MainIdle(n)
    /\ (n \in Clients) => responses[n] = <<>>
    /\ pending[n] # <<>>
    /\ batch' = [batch EXCEPT ![n] = pending[n]]
    /\ pending' = [pending EXCEPT ![n] = <<>>]
    /\ UNCHANGED <<replicaVars, next_event_id, stage, waiting, responses, flushVars, joinVars, netVars>>

\* Fault: the caller is not told of a rejection.
AnswerAcceptedOnly(ev, accepted) ==
    to_client' =
        IF ev.caller = Host \/ ~accepted THEN to_client
        ELSE [to_client EXCEPT ![ev.caller] =
                Append(@, [type |-> "response", id |-> ev.id, accepted |-> accepted])]

Answer(ev, accepted) ==
    to_client' =
        IF ev.caller = Host THEN to_client
        ELSE [to_client EXCEPT ![ev.caller] =
                Append(@, [type |-> "response", id |-> ev.id, accepted |-> accepted])]

\* Fault: the clients are told only of each other's events.
BroadcastClientEvents(ev) ==
    outgoing' = [outgoing EXCEPT ![Host] = IF ev.caller = Host THEN @ ELSE Append(@, ev)]

Broadcast(ev) == outgoing' = [outgoing EXCEPT ![Host] = Append(@, ev)]

\* Fault: the last player is looked for before the completion is applied.
RaiseAdvanceEarly(ev) ==
    IF ev.name = "complete_turn" /\ done[Host] = Nodes
    THEN /\ pending' = [pending EXCEPT ![Host] =
                Append(@, NewEvent(Host, "advance_turn", turn[Host] + 1))]
         /\ next_event_id' = [next_event_id EXCEPT ![Host] = @ + 1]
    ELSE UNCHANGED <<pending, next_event_id>>

\* Fault: the turn that just ended is announced.
RaiseAdvanceThisTurn(ev) ==
    IF ev.name = "complete_turn" /\ DoneAfter(Host, ev) = Nodes
    THEN /\ pending' = [pending EXCEPT ![Host] =
                Append(@, NewEvent(Host, "advance_turn", turn[Host]))]
         /\ next_event_id' = [next_event_id EXCEPT ![Host] = @ + 1]
    ELSE UNCHANGED <<pending, next_event_id>>

\* complete_turn's script raises advance_turn when nobody is missing.
RaiseAdvance(ev) ==
    IF ev.name = "complete_turn" /\ DoneAfter(Host, ev) = Nodes
    THEN /\ pending' = [pending EXCEPT ![Host] =
                Append(@, NewEvent(Host, "advance_turn", turn[Host] + 1))]
         /\ next_event_id' = [next_event_id EXCEPT ![Host] = @ + 1]
    ELSE UNCHANGED <<pending, next_event_id>>

\* What the host accepts it answers, queues for the others, and only then
\* applies.  The answer leaves at once, and MAIN holds no lock: in two threads
\* GAME may flush the broadcast before it is applied here.
HostAnswer ==
    /\ MainInBatch(Host)
    /\ stage = "idle"
    /\ LET ev == Head(batch[Host]) IN
        /\ Validate(Host, ev)
        /\ ev.caller # Host
        /\ Answer(ev, TRUE)
    /\ stage' = "answered"
    /\ UNCHANGED <<replicaVars, next_event_id, pending, batch, waiting, responses,
                   flushVars, joinVars, to_host>>

\* Its own events the host does not answer.
HostBroadcast ==
    /\ MainInBatch(Host)
    /\ LET ev == Head(batch[Host]) IN
        /\ \/ stage = "answered"
           \/ stage = "idle" /\ ev.caller = Host /\ Validate(Host, ev)
        /\ Broadcast(ev)
    /\ stage' = "queued"
    /\ UNCHANGED <<replicaVars, next_event_id, pending, batch, waiting, responses,
                   flush_end, flushed, joinVars, netVars>>

HostApply ==
    /\ MainInBatch(Host)
    /\ stage = "queued"
    /\ LET ev == Head(batch[Host]) IN
        /\ Apply(Host, ev)
        /\ RaiseAdvance(ev)
    /\ batch' = [batch EXCEPT ![Host] = Tail(@)]
    /\ stage' = "idle"
    /\ UNCHANGED <<waiting, responses, flushVars, joinVars, netVars>>

HostReject ==
    /\ MainInBatch(Host)
    /\ stage = "idle"
    /\ LET ev == Head(batch[Host]) IN
        /\ ~Validate(Host, ev)
        /\ Answer(ev, FALSE)
    /\ batch' = [batch EXCEPT ![Host] = Tail(@)]
    /\ UNCHANGED <<replicaVars, next_event_id, pending, stage, waiting, responses,
                   flushVars, joinVars, to_host>>

\* Fault: a local event is sent but not stored.
SendUnstored(c, ev) ==
    /\ waiting' = waiting
    /\ outgoing' = [outgoing EXCEPT ![c] = Append(@, ev)]

StoreAndSend(c, ev) ==
    /\ waiting' = [waiting EXCEPT ![c] = @ \cup {ev}]
    /\ outgoing' = [outgoing EXCEPT ![c] = Append(@, ev)]

\* A client applies optimistically; its own event then waits for the answer.
ClientApply(c) ==
    /\ MainInBatch(c)
    /\ LET ev == Head(batch[c]) IN
        /\ Validate(c, ev)
        /\ Apply(c, ev)
        /\ IF ev.source = "LOCAL"
           THEN StoreAndSend(c, ev)
           ELSE UNCHANGED <<waiting, outgoing>>
    /\ batch' = [batch EXCEPT ![c] = Tail(@)]
    /\ UNCHANGED <<next_event_id, pending, stage, responses, flush_end, flushed, joinVars, netVars>>

\* A client validates the host's events too, and drops what it refuses.
ClientRefuse(c) ==
    /\ MainInBatch(c)
    /\ ~Validate(c, Head(batch[c]))
    /\ batch' = [batch EXCEPT ![c] = Tail(@)]
    /\ UNCHANGED <<replicaVars, next_event_id, pending, stage, waiting, responses,
                   flushVars, joinVars, netVars>>

\* was_event_applied as Game::Iterate computes it on a slave.
WasApplied(ev) == ev.source # "LOCAL"

HandleResponse(c) ==
    /\ MainIdle(c)
    /\ responses[c] # <<>>
    /\ LET r == Head(responses[c]) IN
        \E ev \in waiting[c] :
            /\ ev.id = r.id
            /\ turn' = [turn EXCEPT ![c] =
                    IF r.accepted /\ ~WasApplied(ev) THEN TurnAfter(c, ev) ELSE @]
            /\ done' = [done EXCEPT ![c] =
                    IF r.accepted
                    THEN IF WasApplied(ev) THEN @ ELSE DoneAfter(c, ev)
                    ELSE IF WasApplied(ev) THEN DoneRolledBack(c, ev) ELSE @]
            /\ waiting' = [waiting EXCEPT ![c] = @ \ {ev}]
    /\ responses' = [responses EXCEPT ![c] = Tail(@)]
    /\ UNCHANGED <<next_event_id, pending, batch, stage, flushVars, joinVars, netVars>>

-----------------------------------------------------------------------------
(* GAME: Connection::ProcessPending.  The loop runs over the events queued when *)
(* it started and then clears the whole vector, which MAIN, unsynchronised, may *)
(* have appended to meanwhile: what was appended is gone.                       *)

\* Server::SendGameEvents passes over the caller and slots still joining.
IsSentTo(c, ev) == ev.caller # c /\ c \in initialized

SendPending(n) ==
    /\ GameThread(n)
    /\ LET end == IF flush_end[n] = 0 THEN Len(outgoing[n]) ELSE flush_end[n]
           ev  == outgoing[n][flushed[n] + 1] IN
        /\ flushed[n] < end
        /\ flush_end' = [flush_end EXCEPT ![n] = end]
        /\ flushed' = [flushed EXCEPT ![n] = @ + 1]
        /\ IF n = Host
           THEN /\ to_client' = [c \in Clients |->
                        IF IsSentTo(c, ev)
                        THEN Append(to_client[c], [type |-> "event", event |-> ev])
                        ELSE to_client[c]]
                /\ to_host' = to_host
           ELSE /\ to_host' = [to_host EXCEPT ![n] =
                        Append(@, [type |-> "event", event |-> ev])]
                /\ to_client' = to_client
    /\ UNCHANGED <<replicaVars, queueVars, outgoing, joinVars>>

\* Fault: the next flush starts where this one ended.
ClearPendingKeepsPosition(n) ==
    /\ GameThread(n)
    /\ flush_end[n] # 0
    /\ flushed[n] = flush_end[n]
    /\ outgoing' = [outgoing EXCEPT ![n] = <<>>]
    /\ flush_end' = [flush_end EXCEPT ![n] = 0]
    /\ UNCHANGED <<replicaVars, queueVars, flushed, joinVars, netVars>>

ClearPending(n) ==
    /\ GameThread(n)
    /\ flush_end[n] # 0
    /\ flushed[n] = flush_end[n]
    /\ outgoing' = [outgoing EXCEPT ![n] = <<>>]
    /\ flush_end' = [flush_end EXCEPT ![n] = 0]
    /\ flushed' = [flushed EXCEPT ![n] = 0]
    /\ UNCHANGED <<replicaVars, queueVars, joinVars, netVars>>

-----------------------------------------------------------------------------
(* Packets.  The receive loop and the flush are the same GAME thread; events,   *)
(* responses and the snapshot are handed to MAIN as closures, in order.         *)

RequestDownload(c) ==
    /\ client_state[c] = "waiting"
    /\ client_state' = [client_state EXCEPT ![c] = "downloading"]
    /\ to_host' = [to_host EXCEPT ![c] = Append(@, [type |-> "download"])]
    /\ UNCHANGED <<replicaVars, queueVars, flushVars, initialized, to_client>>

\* Fault: the snapshot promises the turn that comes next.
SnapshotOfNextTurn == [type |-> "snapshot", turn_id |-> turn[Host] + 1]

Snapshot == [type |-> "snapshot", turn_id |-> turn[Host]]

\* The snapshot carries the turn number but not who completed the turn.
HostSendSnapshot(c) ==
    /\ GameThread(Host)
    /\ flush_end[Host] = 0
    /\ to_host[c] # <<>>
    /\ Head(to_host[c]).type = "download"
    /\ to_host' = [to_host EXCEPT ![c] = Tail(@)]
    /\ to_client' = [to_client EXCEPT ![c] = Append(@, Snapshot)]
    /\ UNCHANGED <<replicaVars, queueVars, flushVars, joinVars>>

HostReceiveFlags(c) ==
    /\ GameThread(Host)
    /\ flush_end[Host] = 0
    /\ to_host[c] # <<>>
    /\ Head(to_host[c]).type = "flags"
    /\ to_host' = [to_host EXCEPT ![c] = Tail(@)]
    /\ initialized' = initialized \cup {c}
    /\ UNCHANGED <<replicaVars, queueVars, flushVars, client_state, to_client>>

HostReceiveEvent(c) ==
    /\ MainIdle(Host)
    /\ to_host[c] # <<>>
    /\ Head(to_host[c]).type = "event"
    /\ LET ev == Deserialized(Head(to_host[c]).event, "CLIENT") IN
        /\ ev.caller = c
        /\ pending' = [pending EXCEPT ![Host] = Append(@, ev)]
    /\ to_host' = [to_host EXCEPT ![c] = Tail(@)]
    /\ UNCHANGED <<replicaVars, next_event_id, batch, stage, waiting, responses,
                   flushVars, joinVars, to_client>>

\* Unpacking the snapshot starts its turn here, and the client's next
\* Game::Iterate reports PF_GAME_INITIALIZED.
ClientReceiveSnapshot(c) ==
    /\ MainIdle(c)
    /\ to_client[c] # <<>>
    /\ Head(to_client[c]).type = "snapshot"
    /\ turn' = [turn EXCEPT ![c] = Head(to_client[c]).turn_id]
    /\ done' = [done EXCEPT ![c] = {}]
    /\ client_state' = [client_state EXCEPT ![c] = "running"]
    /\ to_client' = [to_client EXCEPT ![c] = Tail(@)]
    /\ to_host' = [to_host EXCEPT ![c] = Append(@, [type |-> "flags"])]
    /\ UNCHANGED <<queueVars, flushVars, initialized>>

ClientReceiveEvent(c) ==
    /\ MainIdle(c)
    /\ to_client[c] # <<>>
    /\ Head(to_client[c]).type = "event"
    /\ pending' = [pending EXCEPT ![c] =
            Append(@, Deserialized(Head(to_client[c]).event, "SERVER"))]
    /\ to_client' = [to_client EXCEPT ![c] = Tail(@)]
    /\ UNCHANGED <<replicaVars, next_event_id, batch, stage, waiting, responses,
                   flushVars, joinVars, to_host>>

ClientReceiveResponse(c) ==
    /\ MainIdle(c)
    /\ to_client[c] # <<>>
    /\ Head(to_client[c]).type = "response"
    /\ responses' = [responses EXCEPT ![c] = Append(@, Head(to_client[c]))]
    /\ to_client' = [to_client EXCEPT ![c] = Tail(@)]
    /\ UNCHANGED <<replicaVars, next_event_id, pending, batch, stage, waiting,
                   flushVars, joinVars, to_host>>

-----------------------------------------------------------------------------

HostReceive(c) == HostSendSnapshot(c) \/ HostReceiveFlags(c) \/ HostReceiveEvent(c)

ClientReceive(c) ==
    ClientReceiveSnapshot(c) \/ ClientReceiveEvent(c) \/ ClientReceiveResponse(c)

HostProcess == HostAnswer \/ HostBroadcast \/ HostApply \/ HostReject

ClientProcess(c) == ClientApply(c) \/ ClientRefuse(c)

Flush(n) == SendPending(n) \/ ClearPending(n)

Next ==
    \/ \E n \in Nodes : \E name \in {"complete_turn", "uncomplete_turn"} : Click(n, name)
    \/ \E n \in Nodes : StartBatch(n) \/ Flush(n)
    \/ HostProcess
    \/ \E c \in Clients :
        \/ RequestDownload(c)
        \/ ClientProcess(c)
        \/ HandleResponse(c)
        \/ HostReceive(c)
        \/ ClientReceive(c)

Spec == Init /\ [][Next]_vars

\* Both threads of every program keep looping and TCP delivers; players owe nothing.
Fairness ==
    /\ WF_vars(HostProcess)
    /\ \A n \in Nodes : WF_vars(StartBatch(n)) /\ WF_vars(Flush(n))
    /\ \A c \in Clients :
        /\ WF_vars(RequestDownload(c))
        /\ WF_vars(ClientProcess(c))
        /\ WF_vars(HandleResponse(c))
        /\ WF_vars(HostReceive(c))
        /\ WF_vars(ClientReceive(c))

FairSpec == Spec /\ Fairness
-----------------------------------------------------------------------------
(* Properties *)

\* Game.cpp:331 asserts it: every response a client handles finds its event
\* among the waiting ones (it was stored there before it was sent, and it is
\* answered once).
ResponseHasEvent ==
    \A c \in Clients : \A i \in 1..Len(responses[c]) :
        \E ev \in waiting[c] : ev.id = responses[c][i].id

\* Nothing is forgotten on the way: an event a client waits for is still to be
\* sent, on its way to the host, queued there unanswered, or answered.  Every stage of the
\* round trip is a different queue, and one that drops an event leaves the
\* client waiting for good.
AwaitedEventInFlight ==
    \A c \in Clients : \A ev \in waiting[c] :
        \/ \E i \in (flushed[c] + 1)..Len(outgoing[c]) : outgoing[c][i].id = ev.id
        \/ \E i \in 1..Len(to_host[c]) :
              to_host[c][i].type = "event" /\ to_host[c][i].event.id = ev.id
        \/ \E i \in 1..Len(pending[Host]) : pending[Host][i].id = ev.id
        \/ \E i \in 1..Len(batch[Host]) :
              (stage = "idle" \/ i > 1) /\ batch[Host][i].id = ev.id
        \/ \E i \in 1..Len(to_client[c]) :
              to_client[c][i].type = "response" /\ to_client[c][i].id = ev.id
        \/ \E i \in 1..Len(responses[c]) : responses[c][i].id = ev.id

\* The turn that the host has started, or is about to: the advance_turn at hand
\* is queued for the clients already.
ComingTurn == IF stage = "queued" THEN TurnAfter(Host, Head(batch[Host])) ELSE turn[Host]

\* The snapshot, the broadcasts and the re-applied answers never put a client
\* on a turn the host has not started.  In two threads a client may start a turn
\* while the host is still about to, but is never further ahead than that.
ClientNeverAhead ==
    \A c \in Clients : turn[c] <= (IF SingleThread THEN turn[Host] ELSE ComingTurn)

\* Why: no later turn is named by anything on the way to a client, queued there,
\* or waiting there to be applied once more.
NamesUpTo(ev, t) == ev.name = "advance_turn" => ev.turn_id <= t

QueueUpTo(q, t) == \A i \in 1..Len(q) : NamesUpTo(q[i], t)

PacketUpTo(p, t) ==
    /\ p.type = "event" => NamesUpTo(p.event, t)
    /\ p.type = "snapshot" => p.turn_id <= t

ChannelUpTo(q, t) == \A i \in 1..Len(q) : PacketUpTo(q[i], t)

NothingAhead ==
    /\ ClientNeverAhead
    /\ QueueUpTo(outgoing[Host], ComingTurn)
    /\ LET t == IF SingleThread THEN turn[Host] ELSE ComingTurn IN
        \A c \in Clients :
            /\ QueueUpTo(pending[c], t)
            /\ QueueUpTo(batch[c], t)
            /\ \A ev \in waiting[c] : NamesUpTo(ev, t)
            /\ ChannelUpTo(to_client[c], t)

\* Nor do they take a client back to an earlier turn.
ClientTurnMonotone == [][\A c \in Clients : turn'[c] >= turn[c]]_vars

\* The host, with its queues, stale clicks and duplicate advance_turn events,
\* plays the turn game: each turn once, in order, when everybody is done.
Game == INSTANCE TurnGame WITH Players <- Nodes, turn <- turn[Host], done <- done[Host]

HostPlaysTurnGame == Game!Spec

\* Why it does.  Only the host raises advance_turn, and what it raises while it
\* works through a batch is handled before anything that arrives later; so at
\* most one of several advance_turn events raised for the same turn can find all
\* players done.  A client's event of that name is refused whatever its place.
IsAdvance(ev) == ev.name = "advance_turn" /\ ev.caller = Host

AdvancesFirst(q) ==
    \A i, j \in 1..Len(q) : i <= j /\ IsAdvance(q[j]) => IsAdvance(q[i])

HostQueueInv ==
    /\ turn[Host] >= 1
    /\ AdvancesFirst(pending[Host])
    /\ AdvancesFirst(batch[Host])
    /\ \A i \in 1..Len(pending[Host]) :
          IsAdvance(pending[Host][i]) => pending[Host][i].turn_id = turn[Host] + 1
    /\ \A i \in 1..Len(batch[Host]) :
          IsAdvance(batch[Host][i]) =>
             /\ batch[Host][i].turn_id >= 2
             /\ \/ batch[Host][i].turn_id = turn[Host] + 1
                \/ batch[Host][i].turn_id = turn[Host] /\ done[Host] = {}
    /\ batch[Host] # <<>> =>
          \A i \in 1..Len(pending[Host]) : IsAdvance(pending[Host][i])
    /\ batch[Host] # <<>> /\ IsAdvance(batch[Host][1]) => pending[Host] = <<>>
    /\ stage # "idle" => Validate(Host, batch[Host][1])

\* Every event a client waits for is answered.
EventuallyAnswered ==
    \A c \in Clients : \A k \in 1..MaxClientEvents :
        (\E ev \in waiting[c] : ev.id = <<c, k>>) ~> (\A ev \in waiting[c] : ev.id # <<c, k>>)

\* A turn that everybody has completed does not stay so: complete_turn's script
\* raised advance_turn, and until that is handled only a player who takes the
\* completion back can keep the turn.  The advance_turn raised for a completion
\* that was taken back is refused, so the next completion must raise its own.
CompletedTurnEnds ==
    \A t \in 1..MaxHostEvents :
        (turn[Host] = t /\ done[Host] = Nodes) ~> ~(turn[Host] = t /\ done[Host] = Nodes)

\* Game.cpp:622 asserts that a player whose turn is completed does not complete
\* it again; here, when an accepted complete_turn is applied on the response.
NoDoubleComplete ==
    \A c \in Clients :
        MainIdle(c) /\ responses[c] # <<>> /\ Head(responses[c]).accepted =>
            \A ev \in waiting[c] :
                ev.id = Head(responses[c]).id /\ ev.name = "complete_turn" =>
                    ev.caller \notin done[c]
=============================================================================
