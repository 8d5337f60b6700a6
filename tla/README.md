# Verification of GLSMAC: multiplayer, threads and the life of a game

GLSMAC (`src/native/glsmac`) is a reimplementation of a turn-based strategy game:
a C++ engine with backend and frontend, game rules in scripts (`GLSMAC_data`), and
peer-to-host multiplayer over TCP. This directory holds TLA+ specifications of the
parts of it that are hardest to test: how the programs of several players keep one
game, how they are connected, and how the threads of one program start, reset and
leave a game and run its scripts' timers. TLC checks them on small instances; TLAPS proves the main safety results
for every instance.

Paths below are relative to `src/native/glsmac/src/` unless they start with
`GLSMAC_data/` (`src/native/glsmac/GLSMAC_data/`).

## 1. The system

### Threads and programs

Every player runs one program. One of them is the *host* (connection `Server`, the
state's `IsMaster()`), the others are *slaves* (connection `Client`). In each program
the engine (`engine/Engine.cpp`) runs modules in threads; four matter here.

| thread | runs | owns |
|---|---|---|
| MAIN | scripts, the interface, and every closure given to `State::WithGSE`; `Game::ProcessEvents` is one | the replica of the game |
| GAME | `Game::Iterate`, `Connection::IterateAndMaybeDelete` | the connection: what was fetched, what is to be flushed |
| NETWORK | `Network::ProcessRequest`, `SimpleTCP::Iterate` | sockets, the queue of network events |
| GC | `gc::GC::Iterate`, `Space::Collect` | the objects of scripts that nothing refers to |

MAIN and GAME, and GAME and NETWORK, talk through a request table of `MTModule` each (a
request, later its response). The main loop (`GLSMAC.cpp`) and the frontend of a game
(`game/frontend/`) run on MAIN and poll GAME; GAME gives MAIN closures
(`Space::Accumulate`), which MAIN runs at the start of a frame. MAIN and GAME share `m_pending_events`, `m_pending_game_events` and the
slots. `--single-thread` runs all modules in one loop.

### Components

| component | state | operations | modelled in |
|---|---|---|---|
| backend game and turns (`game/backend/Game.cpp`, `State.cpp`, `turn/`) | current turn, who completed it, queues of events and responses, events waiting for a response; the state of a game from its start to its reset | `Event`, `ProcessEvents`, `Iterate`, `CompleteTurn`, `AdvanceTurn`, snapshot; `InitGame`, `InitComplete`, `InitFailed`, `ResetGame`, `Quit` | `TurnGame`, `TurnReplication`, `GameStart` (partly: not map generation, saves, refresh of units and bases) |
| backend events (`event/`) | identity, caller, source, data of an event | create, serialize, validate, apply, rollback, resolve | `TurnReplication` (not resolve) |
| turn event scripts (`GLSMAC_data/default/game/event/*turn*`) | none | validate, apply, rollback of `complete_turn`, `uncomplete_turn`, `advance_turn` | `TurnGame`, `TurnReplication` |
| other event scripts | units, bases, lobby | `move_unit`, `attack_unit`, `spawn_unit`, `select_faction`, ... | not modelled |
| backend connection (`connection/`) | pending game events, fetched network events, ignored cids, downloads | `ProcessPending`, `ProcessEvent`, `Kick`, `SendGameEvents`, `RequestDownload` | `TurnReplication`, `ClientSessions`, `Download` (partly: not chat, settings, slot updates) |
| slots and players (`slot/`, `Player.cpp`, `State.cpp`) | slot state, linked account, cid, connected | join, leave, come back | `ClientSessions` (partly) |
| network (`network/`, `network/simpletcp/`) | sockets, cids, event queues, buffers, pings | accept, read, write, ping, close, requests | `ClientSessions`, `PacketQueue`, `PacketStream` (partly: not listening and address resolution) |
| module threads (`common/MTModule.h`, `engine/`) | requests and responses by id | create, process, respond, get, wait, cancel | the table: `GameStart`; which thread may act: all |
| game frontend (`game/frontend/Game.cpp`) | ids of the requests it waits for, whether it shows a game, how it is left | start, poll, exit, cancel, stop | `GameStart` (partly: not what it renders) |
| main loop (`GLSMAC.cpp`) | game running, reset needed | iterate, start a game, reset | `GameStart` (partly: not start-up of the program) |
| script engine: timers (`gse/Async.cpp`, `gse/GSE.cpp`) | timers by time and by id | start, stop, process, process and exit | `ScriptTimers` |
| script engine: language (`gse/parser`, `gse/runner`) | values | parse, run | not modelled |
| garbage collector (`gc/Space.cpp`) | objects, roots, who accumulates, pending closures | accumulate, collect, process closures | `ScriptTimers`, `GameStart` (partly) |
| user interface (`ui/`, scripts) | turn button, menus, popups | click | when a button can be clicked: `TurnReplication`, `GameStart` |
| tile locks, map and generator, unit/base/animation/resource/faction managers, graphics, audio, input, loaders, scene, types, util, scheduler, tasks | | | not modelled: section 6 |

### How they interact: one click

A player clicks. MAIN makes an event with source `ES_LOCAL` and queues it. A
slave validates it against its own replica, *applies it at once*, stores it as waiting,
and appends it to `m_pending_game_events`; GAME flushes that vector to NETWORK. On the
host GAME fetches the packet and gives MAIN a closure that queues the event with source
`ES_CLIENT`. The host's `ProcessEvents` validates it, sends an answer *immediately*,
appends the event to the host's own `m_pending_game_events` for the other players, and
applies it. The next flush broadcasts it to every slot but the sender's. The slave handles
the answer in `Game::Iterate`, finds the waiting event and applies or rolls it back,
depending on what it takes for its state.

### How they interact: one game

The user starts a game. MAIN makes a frontend, which asks GAME for `OP_INIT` and, once
that is answered, polls it with `OP_GET_MAP_DATA`. GAME makes its managers in a closure on
MAIN, then a master generates or loads its map, a slave waits for its host and downloads;
the last chunk queues a closure that unpacks it. `Map::Initialize` then runs on GAME for
seconds; in it `SetLoaderText` takes new requests and `State::Iterate` looks at the
connection. A last closure on MAIN creates the world and lets the game run, and the next poll
gives the frontend its map. Anything that fails sets an error that a poll finds, or shows a
popup whose button asks for a reset: the main loop asks GAME for `OP_RESET`, waits for it,
and returns to the menu.

### Hard behaviours

* *Interleaving*: clicks, answers, broadcasts and the flush interleave within a program
  and between programs; with threads, the flush and the queueing do too.
* *Ordering*: answers overtake broadcasts; `advance_turn` is raised in the middle of a
  batch; disconnects overtake and remove other network events.
* *Stale state*: clients validate against an optimistic replica; GAME acts on events about
  connections NETWORK has closed meanwhile; a snapshot is sent while the world changes.
* *Failure*: peers vanish at any point, several at once; players come back. The start of a
  game fails in six ways, on either thread.
* *Nesting*: requests are processed inside the processing of other things; handlers of
  timers start and stop timers, of their own batch too.
* *Liveness*: above the ping of a connection nothing times out. What is dropped anywhere
  makes somebody wait for good.

There is no persistence in this path, so no crash recovery: a host that stops ends the game.

`PROJECT.json` lists every hazard with its line and the property that covers it, or why
none does yet.

### What makes each component correct

* Turns: the host's game is the abstract turn game; no client is ever ahead of it (with
  two threads: of the turn that the host is about to apply) or taken back; replicas agree
  once everything has arrived; a completed turn ends.
* Events: an answer finds its event; an event that is waited for is somewhere on its way.
* Sessions: the slots of connected players and the table of cids are inverse; slots change
  hands only when open; a lost player leaves; whoever is kicked is disconnected, and of a
  client that GAME kicks nothing more is handled.
* Download: what arrives is one snapshot, whole; the checks on both sides never refuse it.
* Network framing: the receiver gets the packets sent, whole and in order, until close;
  who still answers is not disconnected, who does not is.
* Life of a game: what a reset forgets is not used afterwards; what is shown is what runs;
  whoever waits for a game, an error or a reset gets it.
* Timers: each runs when its scripts expect it, and only then; its callable lives as long;
  the program can exit.

## 2. The modules

```
TurnGame                 what the host promises about turns
  ^ refined by (HostPlaysTurnGame)
TurnReplication          events, answers, broadcasts, join, two threads
  ^ TurnAgreement        one history variable: who has an excuse to differ
  |   ^ MCTurnReplication
  ^ TurnReplicationProofs  types, the refinement, where an event is until it is answered
      ^ TurnOrderProofs    in which order the turns reach a client
          ^ TurnAgreementProofs  (and TurnAgreement) when replicas agree
ClientSessions           sockets, cids, slots, accounts, kicks
  ^ MCClientSessions     one history variable: whom GAME kicked
  ^ ClientSessionsProofs
Download                 snapshot in chunks
  ^ MCDownload           sizes of the snapshots
  ^ DownloadProofs
PacketQueue              what a connection promises in one direction
  ^ refined by (IsPacketQueue)
PacketStream             bytes, packets, pings, closing
  ^ MCPacketStream       sizes of packets
  ^ PacketStreamProofs
GameStart                MAIN, its frontend and GAME from menu to menu
  ^ MCGameStart
  ^ GameStartProofs
ScriptTimers             timers of scripts, and the collector
  ^ MCScriptTimers
  ^ ScriptTimersProofs
```

The modules cut the system where the code does. `TurnReplication` and `Download` take
a connection for a FIFO of packets that ends, which is what `PacketStream` is shown to be;
`GameStart` takes a download for something that ends, which `Download` shows.

Operators whose comment starts with *Fault:* are not part of any specification. Each
is a plausible mistake in the code modelled by the operator below it; substituting it
makes TLC find a property violated, which shows that the property has teeth.

### TurnReplication

Variables carry the names of the members they stand for, written as comments at their
declaration. Actions:

| action | code |
|---|---|
| `Click` | the script's `game.event(...)`, `Game::Event`, guarded by the turn button |
| `StartBatch` | `ProcessEvents` swaps `m_pending_events` out |
| `HostAnswer`, `HostBroadcast`, `HostApply`, `HostReject` | one iteration of its loop on the host: validate and answer; append to `m_pending_game_events`; apply (with the script raising `advance_turn`); or answer with a rejection |
| `ClientApply`, `ClientRefuse` | the same on a slave: validate, apply optimistically, store and send if local |
| `HandleResponse` | the response loop of `Game::Iterate` |
| `SendPending`, `ClearPending` | the two halves of `Connection::ProcessPending`: one event of the loop, and `clear()` |
| `RequestDownload`, `HostSendSnapshot`, `ClientReceiveSnapshot`, `HostReceiveFlags` | joining: download, unpack, `PF_GAME_INITIALIZED` |
| `HostReceiveEvent`, `ClientReceiveEvent`, `ClientReceiveResponse` | packets handed to MAIN |

`MainIdle`, `MainInBatch` and `GameThread` say which thread may act; `SingleThread`
chooses between the launch modes. The step the code takes without a lock and without
giving up the thread is one action; what another thread can get between is several. So
an event that the host accepts takes three steps (`stage`): the answer leaves for NETWORK
at once (`Game.cpp:1497`), the append to the vector that GAME flushes takes no lock (1501), and
only then is the event applied (1503). With two threads GAME may flush before that, and a
client may apply the event before the host does. `SendPending` sends an event to all
clients with one end of the flush; `Server.cpp:412` loops over the events once per client and
looks for the end each time, so an event appended meanwhile may be lost for one client and
reach another. Each client by itself sees a flush of the model.
TCP is a FIFO queue per direction. `ASSERT` is compiled out in release builds, so a
failing one does not stop the model: those that matter are invariants.

### ClientSessions

NETWORK (`Accept`, `ReadAuth`, `ReadPacket`, `LosePeer`, `ProcessRequest` with its four
requests), GAME (`CreateGetEvents`, the handlers of `Server::ProcessEvent`, `Accumulate`,
`EndBatch`) and MAIN (`RunClosure`, `EndAccumulations`, `StartGame`). Both GAME and MAIN kick,
without a lock, in two steps: `Kick` has the client ignored, `DisconnectKicked` asks NETWORK to
close the connection; `kicking` says whom a thread has between the two. In the meantime the other
thread may clear `m_ignored_cids` and fetch the next events. A game event that passes the
check of `m_ignored_cids` (`HandleGameEvent`) waits in `queueing` until GAME gets the mutex
of the accumulations (`Accumulate`), which MAIN holds from the first closure of a frame to the
end of the last; by then MAIN may have kicked its sender. An event may name any slot as its
caller: the sender's, another one's, the host's, or one beyond the last (`CallerIsSender`);
all but the first get the sender kicked by MAIN. The single operations on `m_ignored_cids`
(a set used from two threads without a lock) are taken to be atomic. `CloseClientSocket` models
`InvalidateEventsForDisconnectedClient` as it is: the first disconnect in the queue is
kept, whoever it is about. An event removed from the queue leaves a `Gap`, which GAME
passes over; the order of the others is the code's. A peer that stops answering, a failed
read, a failed write and a ping timeout all are `LosePeer`, at any time.

### Download

One connection per client, two FIFO queues. A byte of a snapshot is the pair of the version
of the world it was taken from and its position, so mixing two snapshots, or losing or
repeating a part, shows. `ChangeWorld` may happen between any two packets.

### PacketStream

The two ends of one connection are the same code (`m_client.socket` and an entry of
`m_server.client_sockets`). A byte is the pair of its packet and its position, so that
a framing that goes astray shows as `Garbage` (`ET_ERROR`) or as a wrong packet.
`Iterate(e, n)` is one round of `SimpleTCP::Iterate` for one end, in the order of the
code: `MaybePingDo`, then `ReadFromSocket` with whatever `n` bytes `recv` hands over, then
at most one packet out of the buffer. `PingTimeout` and `Fail` are the returns of
`false`; `CloseSocket` sends "bye" and, by `SO_LINGER` 0, may lose the end of what was not
delivered. `Vanish` is a machine that is gone, with no sign of it.

### GameStart

`main` and `game` are where the two threads are in `GLSMAC::Iterate` and
`backend::Game::Iterate`; every place where the other one can get in between is a value. The
requests in `states` go through `MTModule`'s phases: taken as a batch (`TakeRequests`),
answered one by one by `ProcessRequest`, made visible together (`SetResponses`). While
`game = "initialize"` the same actions process single requests, as `SetLoaderText` does
(`Nested`). A response that is read, or a request that is canceled, leaves the table by `Without`;
`CancelRequests` is the frontend's, which forgets all its ids. `PollInit`, `PollMapData`, `PollReset` and `PollFrontendRequests` are the blocks of
`frontend::Game::Iterate` in their order. What null or dangling pointers lead to is `Crash`.
`number`, and the number in each request for the frontend, tell the games apart.

### ScriptTimers

`timers` and `timers_ms` are the two tables. `ProcessTimers` is cut where the collector or
the clock can come in between: `BeginBatch`, `BeginHandler` (which needs the collector's
mutex), the `StartTimer` and `StopTimer` calls of the handler, `EndOfRun`, `EraseBatch`,
`InsertRepeated`, `EndBatch`. `status` is what the scripts expect of a timer, by their own calls
and return values. `disturbed` collects the timers of a batch that a handler of the same
batch interfered with (section 5): for these the tables are not what the scripts expect.

## 3. What is checked

| run | instance | shows |
|---|---|---|
| `turn_two_players` | host and 1 client, single thread, 4 and 2 event ids | types, `ResponseHasEvent`, `AwaitedEventInFlight`, `ClientTurnMonotone`, `HostQueueInv` (inductive), refinement of `TurnGame`; under fairness `EventuallyAnswered`, `CompletedTurnEnds` |
| `turn_three_players` | host and 2 clients, two threads, 2 and 1 ids | `NothingAhead`, `ReplicasFollow` (inductive), `SettledReplicasAgree` |
| `sessions` | 3 people, 2 slots, 3 connections, all open at once | types, `SessionInv`, `SessionsMatchSlots`, `SlotsChangeHandsOpen` |
| `sessions_live` | 2 people, 2 slots, 2 connections, one open at a time, 2 packets in all | `KickedIsSilent`; under fairness `LostPlayerLeaves`, `AuthIsAnswered`, `KickedIsClosed` |
| `download` | 2 clients, chunk 2, snapshots of 4, 5, 1, 0 bytes | types, `DownloadInv`, `CompleteIsOneSnapshot`, `NobodyIsRefused`, `DownloadEnds` |
| `packets` | two packets one way and one the other, of 1 byte after a header of 2, a buffer of 4, a ping after 1 s, a timeout after 4 s | types with `len <= BUFFER_SIZE`, `TimeoutIsSilence`, refinement of `PacketQueue` with its fairness, `SilenceEndsConnection` |
| `game_start` | master and client games, three of them | types, `CrashIsLoss`, `FrontendIsCurrent`, `NoStaleCancel`; under fairness `WaitsEnd`, `QuitEnds` |
| `timers` | 3 timers, 2 ms, delays of 0 and 2 ms, 2 repetitions in all | types, `TablesMatchScripts`, `FirstRunKept`, `RunsAsExpected`; under fairness `TimersRun`, `ExitEnds` |
| `double_complete`, `lost_event`, `disconnect_lost`, `map_lost` | smallest that show it | the disagreements of section 5 |

### Bounds, and why they are enough

* *Event ids.* Every click and every `advance_turn` uses an id of its node. Four for the
  host reach a second turn with a completion taken back and repeated in between; two for
  a client let it complete, take back, and have an event under way when the turn advances.
  In `turn_three_players` everybody can complete the turn once, so that broadcasts, answers
  and the new turn meet on the way to two clients while one of them joins; a broadcast is
  missed, lost or refused there. The same three properties hold with 3 ids for the host
  (3,545,478 states), and, where a client has more to do, with one client and one thread, 2 ids for
  the host and 4 for the client (643,453 states). That is what it takes for the host to accept
  an event for a turn its caller has not come to (`Belated`, section 5). Neither is a
  run of its own, since `SettledReplicas` and `ReplicasFollowHost` cover both, and all others;
  to repeat them, change the constants in `MCThreePlayers.cfg`.
* *Players.* One client shows everything between host and client; a second one adds the
  forwarding between clients and nothing else, since clients only talk to the host.
* *Sessions.* Three people for two slots reach "server is full", a slot reused by
  somebody else, and a player who comes back over the third connection. People are
  interchangeable (`SYMMETRY`); that run checks no liveness. The live run is not reduced.
  It keeps one connection open at a time, because with two the lost disconnect of
  section 5 leaves a player connected, which is what `LostPlayerLeaves` excludes: here it
  says that nothing else keeps one. Two packets are one to be kicked for and one that
  is queued or waits behind it; the kick may be GAME's, MAIN's, or both.
* *Download.* The sizes are: whole chunks, a smaller last chunk, less than a chunk, none.
* *Packets.* The sizes reach a buffer that is full in the middle of a packet, several packets
  in one read and one in many; the seconds count to the timeout and stop there, since
  nothing distinguishes later ones. `SystemBuffer` is large enough for a whole packet: with
  a full one packets are lost or cut (section 5), and no queue is promised.
* *Games.* Everything a game leaves behind meets the next one; the third one meets what two
  failed in different ways leave. Since a game's own state is small, more games add
  nothing but a higher number.
* *Timers.* The numbers reach a batch of several timers, one of them started, stopped or
  repeated by another, a repeated one that falls together with a new one, and a collection
  at every point of it.
* Deadlock is not checked: players may stop clicking, people may stay away, and the
  bounds end every behaviour.

### Fairness

Weak fairness of everything a loop does on every round: `HostProcess`, `StartBatch`,
`Flush`, receiving, handling answers; `ProcessRequest`, fetching, handling and ending a
batch, the closures of a frame, and the second step of a kick on each thread (MAIN's closures
end, so GAME gets the mutex it waits for). `Engine::Run` iterates each module for ever and these steps, once enabled, stay
enabled until they are taken. Receiving is fair because TCP delivers or the connection
is lost. A peer that is asked for its authentication answers or is lost
(`ReadAuth`). Players owe nothing: no fairness on clicks, on joining with more
packets, on starting the game, or on losing a connection.

`PacketStream`: each end's round (`Proceed`, with all bytes that fit) and the clock; nobody
has to send. `TimeoutIsSilence` assumes, by `Punctual`, that both programs iterate and read
within each second: a program that hangs for `WAIT_PONG_FOR` seconds is rightly taken for
gone. `GameStart`: both threads run on. Strong fairness of `CompleteDownload` or a lost
connection stands for the many steps of a download, which are `Download`'s and end by
`DownloadEnds`; strong fairness of the end of `Map::Initialize` for its finite number of
tiles. The user owes nothing. `ScriptTimers`: the clock, handlers and scripts that return, MAIN's
frame, the end of a collection. `BeginScript` and `BeginRun` wait for a mutex that the
collector takes again and again with pauses in between, hence strong fairness.

## 4. What is proved

The proofs hold for every number of clients, people, slots, connections, sizes and
bounds. The only assumptions are those named in the modules: the host is not a client,
`NoAccount` is no account, counts and delays are naturals, a chunk, a header and a packet are
not empty and sizes are naturals; theorems that need more (one thread, room in the system's
buffer, a margin of seconds) have it in their statement.

* **TurnReplicationProofs.** `TypeCorrect`. `HostQueueOrdered`: the inductive
  invariant `HostQueueInv`. `HostImplementsTurnGame`: the refinement. The refinement is not
  inductive by itself: two `advance_turn` events may be queued for one turn (somebody took
  the completion back and repeated it within a batch), and the second must not advance the
  game again. `HostQueueInv` says why it cannot: what a batch raises is in front of
  everything that arrives later, so between two `advance_turn` events of a batch no
  completion can come, and the second one finds `done` empty. `NothingIsAhead` follows turn
  numbers through every queue they pass; `ClientsNeverAhead` is its corollary. With one thread
  the bound is the host's turn, since the flush finds the host's event applied. With two it is
  `ComingTurn`: while the host is between queueing an event and applying it, the turn it will be
  in then. So a client may start a turn before the host, but only one that the host, which has
  validated the `advance_turn` (`HostQueueInv` has that it stays valid), is certain to start next.
  `TripsInOrder`, `ResponsesFindEvents`, `AwaitedAreInFlight`: the event
  of a click passes eight places: the client's queue, its batch, `m_pending_events` of its
  connection, the wire, the host's queue and batch, the wire back, and the client's queue
  of answers. `TripInv` says that no event is at two of them (`Once`), that ids are not used
  again (`Issued`), and that from `m_pending_events` on the client waits for the answer
  (`Awaited`): `Awaited` makes the assertion of `Game.cpp:331` hold, but an answer takes its
  event off the waiting ones, so it needs `Once`. That an awaited event is at one of these
  places (`InFlight`) needs one thread: then a flush starts with `flush_end` at the whole
  vector and nothing is pushed meanwhile. With two threads the run `lost_event` refutes it.
* **TurnOrderProofs.** `JoinsOnce`, `TurnsArriveInOrder`, `ClientsNeverGoBack`. A client goes
  back to an earlier turn if an announcement overtakes another one on its way, or if a
  snapshot arrives after an announcement of a later turn. `JoinInv` excludes the
  second: until a client plays, it is idle, one request or one snapshot of it is on its way,
  and the host, which passes it over in broadcasts, cannot end turn 1 without it
  (`HostWaitsFor`); afterwards no snapshot is asked for. For the first `OrderInv` compares the
  five places where a turn number of the client can be, pairwise: its replica, its batch, its
  queue, the channel, and the part of the host's vector that it was not sent yet. Answers
  overtake broadcasts, but no client announces a turn (`OnlyHostAdvances`), so no answer
  carries one. That what enters the vector is not earlier than what is on its way needs
  `HostQueueInv` and `NothingAhead`.
* **TurnAgreementProofs.** `EventsKeepTheirCaller`, `ReplicasFollowHost`, `SettledReplicas`.
  `SettledReplicasAgree` speaks of the moment when nothing is on its way; the inductive
  invariant has to say what each thing on its way will do, and several are. It can be said
  without an induction over the queues, since what a client has of one player, or of the
  turn, is what the *last* event about it leaves: `complete_turn` and `uncomplete_turn` of that
  player, and `advance_turn`. `Follows` looks for that last event from the host outwards, in the
  part of the host's vector not sent to the client yet, the channel, the client's queue, and its batch;
  the first of these that has one ends with what the host has told the client (`LastLeaves`); if none has,
  the client has it. What the host has told a client (`ToldTurn`, `ToldDone`) is what the host has,
  or, between answering or queueing an event and applying it, what it will have then:
  answers and broadcasts may arrive in between. Once nothing is on its way or at hand it is
  what the host has, hence `SettledReplicasAgree`. The client's own completion takes another way, as the host does not
  send it back: an `advance_turn` on its way clears it, else the last answer decides
  (`OwnFollows`). Nothing orders answers and broadcasts when they leave: an answer overtakes the
  vector. But one that is written behind an `advance_turn` in the channel would be applied
  before it, and the turn would then clear what the host has set since. `AnswersFirst` excludes
  it for clients without an excuse: if a turn is on its way to a client, its replica is in
  an earlier turn (that turns arrive strictly in order, in `TurnsArriveInOrder`, is what this
  needs), and an event of it that the host accepts then is `Belated`. `IdentityInv` says that an answer makes the client
  apply what the host applied under that id. `ReplicasFollow` holds of the clients outside
  `excused`, which only grows; a step that adds a client has nothing to show for it. The proof
  needs all the invariants above, hence the order of the modules.
* **ClientSessionsProofs.** `TypeCorrect`, `SessionsConsistent`, `TableMatchesSlots`,
  `SlotsPassOnOpen`, `KicksTakeEffect`, `KickedStaySilent`.
  `SessionsMatchSlots` is not inductive: whoever authenticates must be
  a cid that was given out before (else a later `Accept` changes the account behind it),
  and in the lobby a slot linked to an account must have somebody connected in it (else
  `PT_AUTH`, which counts on from the slot it found, would run past the free slot).
  `SessionInv` adds both. The theorems do not depend on disconnects being reported, so they
  hold even where section 5 shows one lost.
  `KickedIsSilent` is about the clients that GAME kicks, for an answer to the request to
  authenticate or for a packet, while MAIN may be kicking anybody, the same client included. MAIN
  does not clear `m_ignored_cids`, and GAME does only when it has handled a whole batch. So `SilenceInv`
  says that from GAME's kick on (`kicked`) such a client is ignored, or nothing of it is left in the
  batch; and that it is closed, or GAME has it in hand (`BeingKicked`), or the request to close it
  is ahead of the next fetch, or is behind it while the client is still ignored (`Closing`; one
  fetch is under way at a time, `OneFetch`). What the closed socket leaves in `m_events_out` is nothing
  but, maybe, the disconnect (`ClosedAreQuiet`). Nothing of the kind holds of a client that MAIN
  kicks: section 5.
* **DownloadProofs.** `TypeCorrect`, `DownloadFollowsOn`, `SnapshotArrivesWhole`,
  `NoRefusal`, `NoSnapshotKept`, all from `TypeOK /\ DownloadInv`. `DownloadInv` says that
  exactly one packet is on its way and follows on from a prefix of one snapshot; that it
  is preserved needs the arithmetic of offsets, and that two adjacent parts of a sequence
  make one.
* **PacketStreamProofs.** `TypeCorrect`, `PacketsStayWhole`, `PacketsInOrder`,
  `PingsAreAnswered`. What an end has not passed on (`Pipe`: its buffer followed by what is on
  its way) is cut between packets (`Framed`), ends with a whole one while the sender runs
  (`Ended`), and holds the packets after the last one passed on, in order (`InOrder`) and
  without a gap (`Present`): together `ConnInv`. From it follows every step of `PacketQueue`
  (its fairness stays with TLC). It assumes `RoomEnough`: whatever is written fits in the
  system's buffer, which `WriteToSocket` takes for granted (`SimpleTCP.cpp:616`; section 3).
  For the pings `PingInv` says where a ping and its pong are (`IsAnswered`) and how long each
  stage may last when both programs run on time: wanted in the second after
  `SEND_PING_AFTER`, sent in the next, answered in the third. Hence the margin of three
  seconds; the code's is 6 (`WAIT_PONG_FOR`).
* **ScriptTimersProofs.** `TypeCorrect`, `TablesCorrect`, `HandlersExpected`, `CallablesKept`.
  Between batches the tables are what the scripts expect; in a batch they are not, and
  `TablesInv` says for each stage (before the handlers, in one, between two, erasing,
  inserting the repeated ones) where a timer is that no handler of its own batch
  disturbed. It also has to say what the disturbed ones may do to the others: a handler that
  stops a later timer of its batch ends the batch with its own entry (`Orderly`), and what
  such a batch leaves behind in `m_timers` ends the next one with its first handler
  (`Again`). `KeptInv` adds that the collector takes no callable that waits for its
  first run, wherever a collection falls, also between the erasing and the inserting of
  other timers that are repeated: what is out of the tables there has run (`repeats`).
* **GameStartProofs.** `TypeCorrect`, `CancelIsNeverStale`, `FrontendShowsItsGame`,
  `CrashesOnlyWhenLost`. None of the four is inductive; `IInv` is, and holds them together by
  four things. The *table* (`Table`, `Ids`): a request is known by its kind and by who waits,
  MAIN's own reset is the last in it, and as long as "init" is under way there is nothing else.
  The *batch* (`Batch`): GAME answers MAIN's reset after everything it took with it, so that
  nothing of an old game is answered later; this is what makes a reset leave nothing behind. The
  *stage* (`Stage`) of the game in the backend: `Fresh`, `Begun`, `Loading` or `NotLoaded`,
  `Initializing`, `Creating`, `Running`, each with the closures that may be queued at it and with
  the managers, the map and the state that they find; and `Broken`, where a client that lost its
  connection has been reset with closures left over. Every step moves a game to the next stage,
  back to `Fresh`, or, only if the connection was lost, to `Broken`: so a closure that would use
  what is not there is at a game that was lost. And the *way back* (`Ends`, `Answers`): whoever
  leaves, or is told an error, finds a game that is `Fresh` or `Running`, or lost. That the
  response to `OP_GET_MAP_DATA` with the map means `Running` still when it is read, a batch
  later, is what `FrontendIsCurrent` needs. `StageKept` proves once for all steps that only
  touch requests that the stage is kept.

Only model-checked: everything under fairness (`EventuallyAnswered`,
`CompletedTurnEnds`, `LostPlayerLeaves`, `AuthIsAnswered`, `KickedIsClosed`, `DownloadEnds`, `WaitsEnd`,
`QuitEnds`, `TimersRun`, `ExitEnds`, `SilenceEndsConnection`, and `IsPacketQueue`, whose queue is fair),
which is out of the prover's reach. Every invariant that a passing run checks is a theorem.

## 5. Where the code disagrees with itself

Shown by runs:

1. `game/backend/Game.cpp:334` (`double_complete`). `was_event_applied` is false for every
   event that waits for a response, because such an event always has source `ES_LOCAL`. An
   accepted event is thus applied twice; `Game.cpp:622` asserts that it is not. For the
   same reason a rejected event is not rolled back, although `Game.cpp:337` says it is.
2. `Connection.cpp:408` (`lost_event`). With threads, an event appended between the flush
   and `clear()` is lost, and its sender waits for good.
3. `Network.cpp:167` (`disconnect_lost`). When two clients are lost between two fetches,
   the disconnect of the second is dropped; its player stays connected and cannot come back.
4. `game/backend/Game.cpp:464` (`map_lost`). A client that loses its connection between its last chunk and
   `Map::Initialize` has its map deleted by a reset that is processed inside `Initialize`.

Met while modelling, and part of the models where they are in their scope:

* *Start of a game.* A map that cannot be loaded leaves the response at `R_NONE`
  (`Game.cpp:1854` has no `else`): its entry is erased and the loader stays (`WaitsEnd` excuses
  it). A connection lost while loading makes `IsMaster` true (`State.cpp:85`); lost before
  `OP_INIT` it leaves no slots to read. A client whose start failed for a lost connection
  ends with an empty interface: `m_on_cancel` does nothing. A lost connection in a
  running game ends the program (`frontend/Game.cpp:917`). `InitGame` clears
  `m_pending_frontend_requests` after it queued "configure", which appends to it without a lock.
  `InitFailed` on MAIN sets `m_state` to null while GAME iterates. The closure of
  `Game.cpp:1038` refers to a freed request. With `--single-thread` the wait of
  `GLSMAC.cpp:169` is for ever. MT_Cancel leaves an executed request in the table for good.
* *Connections.* `WriteToSocket` takes a refused or short write for success, and tests the
  wrong variable after the second one (`SimpleTCP.cpp:607`, `616`); a packet that with its size
  is longer than `BUFFER_SIZE` never arrives whole, since only the packet is checked against it;
  a "bye", and the reason of a kick before it, can be lost to `SO_LINGER` 0. GAME may ask to
  disconnect a client that NETWORK has closed, which `SimpleTCP.cpp:286` asserts away.
  A client that MAIN kicks for a wrong caller (`Server.cpp:371`, `376`) may still be heard: a
  game event of it that has passed the check of `m_ignored_cids` is queued after the kick, and between
  the two steps of the kick GAME may end its batch, clear `m_ignored_cids` (`Connection.cpp:190`)
  and fetch and handle more. It is disconnected all the same (`KickedIsClosed`).
* *Timers.* A handler that stops its own timer leaves the batch (`Async.cpp:221`): timers that
  ran before it in the batch stay in `m_timers` and run again; one that stops a
  later timer of its batch does not keep it from running; a timer started for the very
  millisecond of the batch is erased with it, and stopping it later makes `at` throw
  (`Async.cpp:73`). `disturbed` excuses these. Between `Async.cpp:230` and the insertions
  nothing holds the collector back, so a repeated timer's callable may be freed although
  `Async.cpp:137` says timer callables are reachable (`FirstRunKept` therefore speaks of first runs).
  `ProcessAndExit` never ends while a timer repeats itself.

`SettledReplicasAgree` excuses a client from agreeing when

* it missed a broadcast while joining (`Missed`): the snapshot does not carry who completed
  the turn (`Server.cpp:420`, `PROJECT.json`);
* a broadcast was lost by the flush (`Lost`; 2 above);
* it refused an event of the host (`Refused`): a slave validates the host's decisions against
  its own optimistic replica (`Game.cpp:1468`, `PROJECT.json`);
* an event of it was rejected (`Rejected`): it is not rolled back (1 above);
* or accepted for a turn that it had not come to (`Belated`). The second application of 1
  makes it possible: a client completes the turn, takes that back and completes it again; the
  answer to the second click takes the completion back once more, so the client may complete
  the turn a third time. The host has counted the second completion and may be in the next
  turn when the third arrives. `complete_turn` does not say which turn it is meant for, so the host counts
  it for the new one; `advance_turn` reaches the client after its own click and clears it there.

The proof shows that these five are enough.

## 6. Not modelled, and the plan

The twelve runs and the theorems are what the project says about the protocols and the
threads of the program. What could be added, in this order:

1. Sessions composed with turns: a player who leaves keeps the slot and is missing in
   every turn; an answer addressed to a slot whose player has reconnected
   (`Server.cpp:485`). Both modules are near what TLC can enumerate, so this needs a smaller
   pipeline than `TurnReplication`'s.
2. Events with `resolve` (`move_unit`, `attack_unit`), whose outcome is decided by the host
   and sent back, with the tile locks that they take.
3. A second game's turns after `ResetGame`, which keeps `m_pending_event_responses`.

Not modelled at all, and not planned: numeric map generation, rendering, audio, input,
loaders, data types (computation over large data, without interaction); the parser and
interpreter of the script language (a language of its own, whose reference would be a
second interpreter); the managers of units, bases, animations, resources and factions (tables
of definitions that scripts fill and read); saves, dumps and the memory watcher of debug builds;
the Windows and macOS variants.

## 7. Running

```
tlc -workers 2 -config MCTwoPlayers.cfg TurnReplication
tlc -workers 2 -config MCThreePlayers.cfg MCTurnReplication
tlc -workers 2 -config MCSessions.cfg MCClientSessions
tlc -workers 2 -config MCDownload.cfg MCDownload
tlc -workers 2 -config MCPackets.cfg MCPacketStream
tlc -workers 2 -config MCGameStart.cfg MCGameStart
tlc -workers 2 -config MCTimers.cfg MCScriptTimers
tlapm TurnReplicationProofs.tla
tlapm TurnOrderProofs.tla
tlapm TurnAgreementProofs.tla
tlapm ClientSessionsProofs.tla
tlapm DownloadProofs.tla
tlapm ScriptTimersProofs.tla
tlapm PacketStreamProofs.tla
tlapm GameStartProofs.tla
```

`PROJECT.json` maps every definition that models code to its lines.
