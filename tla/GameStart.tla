------------------------------ MODULE GameStart ------------------------------
(***************************************************************************)
(* Starting, failing to start, resetting and restarting a game: MAIN, with *)
(* the main loop (GLSMAC.cpp) and the game's frontend, and the GAME thread *)
(* with its backend.  They talk over the request table of common::MTModule *)
(* (MAIN asks and polls, GAME answers) and over closures that GAME queues  *)
(* for MAIN, where scripts run (gc::Space::Accumulate).                    *)
(*                                                                         *)
(* A client loads a snapshot from its host (module Download has how), and  *)
(* may lose its connection at any time; a master makes its map or loads    *)
(* it, which may fail.  A master's connections are left out.  A request is *)
(* named by its kind and by who waits for it: nobody has two of a kind     *)
(* under way.  "crashed" stands for undefined behaviour: a null or dangling*)
(* pointer is used.  Left out: requests of a running game (backend         *)
(* requests, saving, chat, dumps), the loader's cancel, which ShowLoader   *)
(* ignores, and --single-thread.  m_old_map is never set: every reset      *)
(* deletes m_map.                                                          *)
(***************************************************************************)
EXTENDS Naturals, Sequences, SequencesExt

CONSTANTS
    Roles,      \* how a game is played: a subset of {"master", "client"}
    MaxGames    \* bound: games that are started

ASSUME RolesAssumption == Roles \subseteq {"master", "client"}
ASSUME MaxGamesAssumption == MaxGames \in Nat

Ops == {"init", "map", "reset", "frontend"}
Phases == {"new", "processing", "answered", "executed"}
Results == {"NONE", "SUCCESS", "PENDING", "ERROR", "ABORTED"}
FrontendRequests == {"define", "quit"} \X (0..MaxGames)

VARIABLES
    states,            \* m_mt_states, in the order of the ids
    closures,          \* m_pending_accumulations: what GAME queued for MAIN
    main,              \* where MAIN is in GLSMAC::Iterate
    ui,                \* what the user sees: "menu", an error "popup", or the "game"
    reset_needed,      \* m_reset_needed
    mt_ids,            \* frontend: the kinds whose m_mt_ids is not 0
    shown,             \* frontend: m_is_initialized
    on_game_exit,      \* frontend: m_on_game_exit
    game,              \* where GAME is in backend::Game::Iterate
    game_state,        \* m_game_state
    init_cancel,       \* m_init_cancel
    init_error,        \* m_initialization_error is not empty
    has_state,         \* m_state # nullptr
    has_managers,      \* m_tm, m_rm, m_um, m_bm and m_am are set
    has_map,           \* m_map # nullptr
    map_data,          \* m_response_map_data # nullptr
    connection,        \* m_state->m_connection, of a client
    frontend_requests, \* m_pending_frontend_requests, each with its game
    number,            \* history: the game started last
    role,              \* history: its role
    lost,              \* history: its connection was lost
    unloadable         \* history: its map could not be loaded

requestVars == <<states, closures>>
frontendVars == <<ui, reset_needed, mt_ids, shown, on_game_exit>>
backendVars == <<game_state, init_cancel, init_error, has_state, has_managers, has_map, map_data,
                 connection, frontend_requests>>
historyVars == <<number, role, lost, unloadable>>
vars == <<requestVars, main, frontendVars, game, backendVars, historyVars>>

Requests == [op: Ops, who: {"frontend", "main"}, phase: Phases,
             result: Results, items: SUBSET FrontendRequests]

TypeOK ==
    /\ states \in Seq(Requests) /\ Len(states) <= 3
    /\ closures \in Seq({"configure", "unpack", "create"})
    /\ main \in {"closures", "ui", "init", "map", "reset", "frontend", "end", "await",
                 "over", "crashed"}
    /\ ui \in {"menu", "popup", "game"}
    /\ reset_needed \in BOOLEAN
    /\ mt_ids \in SUBSET Ops
    /\ shown \in BOOLEAN
    /\ on_game_exit \in {"none", "cancel", "quit"}
    /\ game \in {"requests", "processing", "preparing", "connection", "initialize"}
    /\ game_state \in {"NONE", "PREPARING_MAP", "INITIALIZING", "STARTING", "RUNNING"}
    /\ {init_cancel, init_error, has_state, has_managers, has_map, map_data} \subseteq BOOLEAN
    /\ connection \in {"none", "up", "closing"}
    /\ frontend_requests \in SUBSET FrontendRequests
    /\ number \in 0..MaxGames
    /\ role \in {"master", "client"}
    /\ {lost, unloadable} \subseteq BOOLEAN

Init ==
    /\ states = <<>> /\ closures = <<>>
    /\ main = "ui" /\ ui = "menu" /\ reset_needed = FALSE
    /\ mt_ids = {} /\ shown = FALSE /\ on_game_exit = "none"
    /\ game = "requests" /\ game_state = "NONE"
    /\ init_cancel = FALSE /\ init_error = FALSE
    /\ has_state = FALSE /\ has_managers = FALSE /\ has_map = FALSE /\ map_data = FALSE
    /\ connection = "none" /\ frontend_requests = {}
    /\ number = 0 /\ role = "master" /\ lost = FALSE /\ unloadable = FALSE

Alive == main \notin {"over", "crashed"}

\* Undefined behaviour, or an exception nobody catches: the program is gone.
Crash == main' = "crashed" /\ UNCHANGED <<requestVars, frontendVars, game, backendVars, historyVars>>

-----------------------------------------------------------------------------
(* The request table *)

Request(op, who) ==
    [op |-> op, who |-> who, phase |-> "new", result |-> "NONE", items |-> {}]

\* The response to a request that was executed, as a set of none or one.
Responses(op, who) ==
    {r \in Range(states) : r.op = op /\ r.who = who /\ r.phase = "executed"}

Places(table, op, who) == {i \in DOMAIN table : table[i].op = op /\ table[i].who = who}

\* Fault: a response that was read is not erased.
WithoutKept(table, op, who) ==
    IF \E i \in Places(table, op, who) : table[i].phase # "executed"
    THEN RemoveAt(table, CHOOSE i \in Places(table, op, who) : table[i].phase # "executed")
    ELSE table

\* MT_GetResponse: a response is read once.  One that MT_Cancel finds executed
\* stays in the table, but nobody knows its id any more.
Without(table, op, who) ==
    IF Places(table, op, who) = {} THEN table
    ELSE RemoveAt(table, CHOOSE i \in Places(table, op, who) : TRUE)

\* Fault: MT_Cancel waits for a request that was executed as well.
CanCancelUnread ==
    \A r \in Range(states) : r.who = "frontend" => r.phase = "new"

\* MT_Cancel waits while a request is processed.
CanCancel ==
    \A r \in Range(states) : r.who = "frontend" => r.phase \notin {"processing", "answered"}

-----------------------------------------------------------------------------
(* What MAIN and GAME do to the backend's game *)

\* Fault: a reset leaves the managers to the next game.
ResetGameKeepsManagers ==
    /\ game_state' = "NONE"
    /\ init_cancel' = FALSE
    /\ has_map' = FALSE
    /\ frontend_requests' = {}
    /\ connection' = IF has_state THEN "none" ELSE connection
    /\ UNCHANGED <<map_data, has_managers>>

\* Fault: a reset leaves the requests for the frontend.
ResetGameKeepsRequests ==
    /\ game_state' = "NONE"
    /\ init_cancel' = FALSE
    /\ has_managers' = FALSE
    /\ has_map' = FALSE
    /\ connection' = IF has_state THEN "none" ELSE connection
    /\ UNCHANGED <<map_data, frontend_requests>>

\* Fault: a reset leaves m_init_cancel up.
ResetGameKeepsCancel ==
    /\ game_state' = "NONE"
    /\ has_managers' = FALSE
    /\ has_map' = FALSE
    /\ frontend_requests' = {}
    /\ connection' = IF has_state THEN "none" ELSE connection
    /\ UNCHANGED <<map_data, init_cancel>>

\* A connection that is closed without its handlers is as good as gone.
ResetGame ==
    /\ game_state' = "NONE"
    /\ init_cancel' = FALSE
    /\ has_managers' = FALSE
    /\ has_map' = FALSE
    /\ frontend_requests' = {}
    /\ connection' = IF has_state THEN "none" ELSE connection
    /\ UNCHANGED map_data

\* "error" is triggered before the game's handlers are cleared.
InitFailed ==
    /\ ResetGame
    /\ has_state' = FALSE
    /\ init_error' = TRUE
    /\ ui' = "popup"

\* m_on_disconnect, and State::Iterate, which forgets the connection, the
\* players and the slots.
LoseConnection ==
    /\ connection' = "none"
    /\ lost' = TRUE
    /\ IF game_state # "RUNNING"
       THEN init_error' = TRUE /\ UNCHANGED frontend_requests
       ELSE /\ frontend_requests' = frontend_requests \cup {<<"quit", number>>}
            /\ UNCHANGED init_error
    /\ UNCHANGED <<game_state, init_cancel, has_state, has_managers, has_map, map_data,
                   number, role, unloadable>>

-----------------------------------------------------------------------------
(* GAME: requests.  Those of a batch are answered together when all of      *)
(* them have been processed; those that SetLoaderText takes, in the middle  *)
(* of Map::Initialize, one by one.                                          *)

Nested == game = "initialize"

\* The request that GAME processes next.
IsNext(i) ==
    /\ Alive
    /\ game \in {"processing", "initialize"} /\ (Nested => has_map)
    /\ states[i].phase = IF Nested THEN "new" ELSE "processing"
    /\ \A j \in 1..(i - 1) : states[j].phase # states[i].phase

Answer(i, result, items) ==
    states' = [states EXCEPT ![i].phase = IF Nested THEN "executed" ELSE "answered",
                             ![i].result = result, ![i].items = items]

TakeRequests ==
    /\ Alive /\ game = "requests"
    /\ states' = [i \in DOMAIN states |->
            [states[i] EXCEPT !.phase = IF @ = "new" THEN "processing" ELSE @]]
    /\ game' = "processing"
    /\ UNCHANGED <<closures, main, frontendVars, backendVars, historyVars>>

SetResponses ==
    /\ Alive /\ game = "processing"
    /\ \A r \in Range(states) : r.phase # "processing"
    /\ states' = [i \in DOMAIN states |->
            [states[i] EXCEPT !.phase = IF @ = "answered" THEN "executed" ELSE @]]
    /\ game' = "connection"
    /\ UNCHANGED <<closures, main, frontendVars, backendVars, historyVars>>

\* OP_INIT and the beginning of InitGame.  The mutex of the closures is
\* held by MAIN while it runs them.
BeginInitGame(i) ==
    /\ IsNext(i) /\ states[i].op = "init" /\ ~Nested
    /\ main # "closures"
    /\ closures' = Append(closures, "configure")
    /\ IF game_state # "NONE" THEN ResetGame
       ELSE UNCHANGED <<game_state, init_cancel, has_managers, has_map, map_data, connection,
                        frontend_requests>>
    /\ game' = "preparing"
    /\ UNCHANGED <<states, main, frontendVars, init_error, has_state, historyVars>>

\* The rest of InitGame.  Its response stays R_NONE when the map cannot be
\* loaded.  The slots of a connection lost before are gone.
PrepareMap(i) ==
    /\ Alive /\ game = "preparing"
    /\ states[i].op = "init" /\ states[i].phase = "processing"
    /\ \/ /\ role = "client" /\ connection = "none"
          /\ Crash
       \/ /\ role = "client" /\ connection # "none"
          /\ game_state' = "PREPARING_MAP"
          /\ states' = [states EXCEPT ![i].phase = "answered", ![i].result = "SUCCESS"]
          /\ frontend_requests' = {}
          /\ init_error' = FALSE
          /\ game' = "processing"
          /\ UNCHANGED <<closures, main, frontendVars, init_cancel, has_state, has_managers, has_map,
                         map_data, connection, historyVars>>
       \/ /\ role = "master"
          /\ \E loaded \in BOOLEAN :
                /\ game_state' = IF loaded THEN "INITIALIZING" ELSE "PREPARING_MAP"
                /\ states' = [states EXCEPT ![i].phase = "answered",
                                            ![i].result = IF loaded THEN "SUCCESS" ELSE "NONE"]
                /\ unloadable' = ~loaded
          /\ has_map' = TRUE
          /\ frontend_requests' = {}
          /\ init_error' = FALSE
          /\ game' = "processing"
          /\ UNCHANGED <<closures, main, frontendVars, init_cancel, has_state, has_managers, map_data,
                         connection, number, role, lost>>

\* Fault: an error of the initialization is not looked at.
MapDataResultPending ==
    CASE game_state # "RUNNING" -> "PENDING"
      [] game_state = "RUNNING" /\ map_data -> "SUCCESS"
      [] OTHER -> IF init_cancel THEN "ABORTED" ELSE "ERROR"

\* Fault: map data is given out whatever the state.
MapDataResultAnyState ==
    CASE map_data -> "SUCCESS"
      [] ~map_data /\ game_state # "RUNNING" -> IF init_error THEN "ERROR" ELSE "PENDING"
      [] OTHER -> IF init_cancel THEN "ABORTED" ELSE "ERROR"

MapDataResult ==
    CASE game_state # "RUNNING" -> IF init_error THEN "ERROR" ELSE "PENDING"
      [] game_state = "RUNNING" /\ map_data -> "SUCCESS"
      [] OTHER -> IF init_cancel THEN "ABORTED" ELSE "ERROR"

GetMapData(i) ==
    /\ IsNext(i) /\ states[i].op = "map"
    /\ Answer(i, MapDataResult, {})
    /\ map_data' = (map_data /\ MapDataResult # "SUCCESS")
    /\ UNCHANGED <<closures, main, frontendVars, game, game_state, init_cancel, init_error, has_state,
                   has_managers, has_map, connection, frontend_requests, historyVars>>

Reset(i) ==
    /\ IsNext(i) /\ states[i].op = "reset"
    /\ Answer(i, "SUCCESS", {})
    /\ ResetGame
    /\ UNCHANGED <<closures, main, frontendVars, game, init_error, has_state, historyVars>>

GetFrontendRequests(i) ==
    /\ IsNext(i) /\ states[i].op = "frontend"
    /\ Answer(i, "SUCCESS", frontend_requests)
    /\ frontend_requests' = {}
    /\ UNCHANGED <<closures, main, frontendVars, game, game_state, init_cancel, init_error, has_state,
                   has_managers, has_map, map_data, connection, historyVars>>

ProcessRequest ==
    \E i \in DOMAIN states :
        BeginInitGame(i) \/ PrepareMap(i) \/ GetMapData(i) \/ Reset(i) \/ GetFrontendRequests(i)

-----------------------------------------------------------------------------
(* GAME: the connection, which is looked at once per iteration and, while   *)
(* the map is initialized, every so many tiles.                             *)

AfterConnection ==
    IF has_state /\ game_state = "INITIALIZING" THEN "initialize" ELSE "requests"

NothingReceived ==
    /\ Alive /\ game = "connection"
    /\ has_state => connection # "closing"
    /\ game' = AfterConnection
    /\ UNCHANGED <<requestVars, main, frontendVars, backendVars, historyVars>>

Downloading ==
    /\ has_state /\ role = "client" /\ connection = "up"
    /\ game_state = "PREPARING_MAP" /\ ~Contains(closures, "unpack")

CompleteDownload ==
    /\ Alive /\ game = "connection"
    /\ Downloading
    /\ main # "closures"
    /\ closures' = Append(closures, "unpack")
    /\ game' = "requests"
    /\ UNCHANGED <<states, main, frontendVars, backendVars, historyVars>>

Disconnected ==
    /\ Alive /\ game \in {"connection", "initialize"}
    /\ has_state /\ connection # "none"
    /\ LoseConnection
    /\ game' = IF game = "connection" THEN AfterConnection ELSE game
    /\ UNCHANGED <<requestVars, main, frontendVars>>

-----------------------------------------------------------------------------
(* GAME: Map::Initialize and what follows it *)

CannotInitialize == ~has_map \/ lost

\* With the map deleted or the slots cleared, anything may happen.
InitializeCrashes ==
    /\ Alive /\ game = "initialize"
    /\ CannotInitialize
    /\ Crash

InitializeAborted ==
    /\ Alive /\ game = "initialize"
    /\ has_map /\ init_cancel
    /\ InitFailed
    /\ game' = "requests"
    /\ UNCHANGED <<requestVars, main, reset_needed, mt_ids, shown, on_game_exit, historyVars>>

Initialized ==
    /\ Alive /\ game = "initialize"
    /\ has_map /\ ~init_cancel
    /\ main # "closures"
    /\ map_data' = TRUE
    /\ frontend_requests' = frontend_requests \cup {<<"define", number>>}
    /\ game_state' = "STARTING"
    /\ closures' = Append(closures, "create")
    /\ game' = "requests"
    /\ UNCHANGED <<states, main, frontendVars, init_cancel, init_error, has_state, has_managers,
                   has_map, connection, historyVars>>

-----------------------------------------------------------------------------
(* MAIN: the closures that GAME queued, all of them before anything else *)

Closure(name) ==
    /\ main = "closures"
    /\ Head(closures) = name
    /\ closures' = Tail(closures)
    /\ main' = IF Len(closures) = 1 THEN "ui" ELSE "closures"

Configure ==
    /\ Closure("configure")
    /\ has_managers' = TRUE
    /\ frontend_requests' = frontend_requests \cup {<<"define", number>>}
    /\ UNCHANGED <<states, frontendVars, game, game_state, init_cancel, init_error, has_state,
                   has_map, map_data, connection, historyVars>>

Unpack ==
    /\ Closure("unpack") /\ has_managers
    /\ has_map' = TRUE
    /\ game_state' = "INITIALIZING"
    /\ UNCHANGED <<states, frontendVars, game, init_cancel, init_error, has_state, has_managers,
                   map_data, connection, frontend_requests, historyVars>>

SnapshotMismatch ==
    /\ Closure("unpack") /\ has_managers
    /\ connection = "up"
    /\ has_map' = TRUE
    /\ connection' = "closing"
    /\ UNCHANGED <<states, frontendVars, game, game_state, init_cancel, init_error, has_state,
                   has_managers, map_data, frontend_requests, historyVars>>

Create ==
    /\ Closure("create") /\ has_managers /\ has_state
    /\ game_state' = "RUNNING"
    /\ UNCHANGED <<states, frontendVars, game, init_cancel, init_error, has_state, has_managers,
                   has_map, map_data, connection, frontend_requests, historyVars>>

\* A script raises an error in "create_world" or "start".
CreateFails ==
    /\ Closure("create") /\ has_map /\ has_state
    /\ InitFailed
    /\ UNCHANGED <<states, reset_needed, mt_ids, shown, on_game_exit, game, historyVars>>

\* The closure works on what the game had when it was queued.
ClosureCrashes ==
    /\ main = "closures"
    /\ \/ Head(closures) = "configure" /\ has_managers
       \/ Head(closures) = "unpack" /\ (~has_managers \/ connection # "up")
       \/ Head(closures) = "create" /\ (~has_managers \/ ~has_map \/ ~has_state)
    /\ Crash

RunClosure ==
    Configure \/ Unpack \/ SnapshotMismatch \/ Create \/ CreateFails \/ ClosureCrashes

-----------------------------------------------------------------------------
(* MAIN: what the user does *)

\* GLSMAC::StartGame with a state that was reset: a new frontend.  A user
\* needs longer to get here than the frontend before to be done.
StartGame(r) ==
    /\ main = "ui" /\ ui = "menu" /\ number < MaxGames
    /\ mt_ids = {}
    /\ number' = number + 1
    /\ role' = r
    /\ connection' = IF r = "client" THEN "up" ELSE "none"
    /\ has_state' = TRUE
    /\ lost' = FALSE /\ unloadable' = FALSE
    /\ states' = Append(states, Request("init", "frontend"))
    /\ mt_ids' = {"init"}
    /\ shown' = FALSE /\ on_game_exit' = "none"
    /\ ui' = "game"
    /\ main' = "init"
    /\ UNCHANGED <<closures, reset_needed, game, game_state, init_cancel, init_error, has_managers,
                   has_map, map_data, frontend_requests>>

\* glsmac.reset(), from the menu of a running game or from an error popup
ClickReset ==
    /\ main = "ui"
    /\ ui = "popup" \/ (ui = "game" /\ shown)
    /\ reset_needed' = TRUE
    /\ ui' = "game"
    /\ main' = "init"
    /\ UNCHANGED <<requestVars, mt_ids, shown, on_game_exit, game, backendVars, historyVars>>

NoClick ==
    /\ main = "ui"
    /\ main' = "init"
    /\ UNCHANGED <<requestVars, frontendVars, game, backendVars, historyVars>>

-----------------------------------------------------------------------------
(* MAIN: frontend::Game::Iterate *)

\* The ids of all requests are forgotten.
CancelRequests(table) ==
    Without(Without(Without(Without(table, "init", "frontend"), "map", "frontend"),
                    "reset", "frontend"), "frontend", "frontend")

\* Fault: the requests are canceled after the reset was asked for.
ExitGameCancelsReset(how) ==
    /\ CanCancel
    /\ on_game_exit' = how
    /\ states' = CancelRequests(states)
    /\ mt_ids' = {}
    /\ init_cancel' = TRUE

\* Whatever is under way is canceled, and a reset asked for.
ExitGame(how) ==
    /\ CanCancel
    /\ on_game_exit' = how
    /\ states' = Append(CancelRequests(states), Request("reset", "frontend"))
    /\ mt_ids' = {"reset"}
    /\ init_cancel' = TRUE

NothingYet(op, next) ==
    /\ main = op
    /\ Responses(op, "frontend") = {}
    /\ main' = next
    /\ UNCHANGED <<requestVars, frontendVars, game, backendVars, historyVars>>

PollInit ==
    /\ main = "init"
    /\ \E r \in Responses("init", "frontend") :
        IF r.result = "NONE"
        THEN /\ states' = Without(states, "init", "frontend")
             /\ UNCHANGED mt_ids
        ELSE /\ states' = Append(Without(states, "init", "frontend"), Request("map", "frontend"))
             /\ mt_ids' = (mt_ids \ {"init"}) \cup {"map"}
    /\ main' = "map"
    /\ UNCHANGED <<closures, ui, reset_needed, shown, on_game_exit, game, backendVars, historyVars>>

PollMapData ==
    /\ main = "map"
    /\ main' = "reset"
    /\ \E r \in Responses("map", "frontend") :
        \/ /\ r.result = "PENDING"
           /\ states' = Append(Without(states, "map", "frontend"), Request("map", "frontend"))
           /\ UNCHANGED <<mt_ids, shown, on_game_exit, init_cancel>>
        \/ /\ r.result = "SUCCESS"
           /\ states' = Without(states, "map", "frontend")
           /\ mt_ids' = mt_ids \ {"map"}
           /\ shown' = TRUE
           /\ UNCHANGED <<on_game_exit, init_cancel>>
        \/ /\ r.result \in {"ERROR", "ABORTED"}
           /\ ExitGame("cancel")
           /\ UNCHANGED shown
    /\ UNCHANGED <<closures, ui, reset_needed, game, game_state, init_error, has_state, has_managers,
                   has_map, map_data, connection, frontend_requests, historyVars>>

\* Leaving a running game ends the program: there is no way back to the menu.
PollReset ==
    /\ main = "reset"
    /\ Responses("reset", "frontend") # {}
    /\ states' = Without(states, "reset", "frontend")
    /\ mt_ids' = mt_ids \ {"reset"}
    /\ on_game_exit' = "none"
    /\ main' = IF on_game_exit = "quit" THEN "over" ELSE "frontend"
    /\ UNCHANGED <<closures, ui, reset_needed, shown, game, backendVars, historyVars>>

PollFrontendRequests ==
    /\ main = "frontend"
    /\ main' = "end"
    /\ shown
    /\ \/ /\ "frontend" \notin mt_ids
          /\ states' = Append(states, Request("frontend", "frontend"))
          /\ mt_ids' = mt_ids \cup {"frontend"}
          /\ UNCHANGED <<on_game_exit, init_cancel>>
       \/ \E r \in Responses("frontend", "frontend") :
            IF \E item \in r.items : item[1] = "quit"
            THEN ExitGame("quit")
            ELSE /\ states' = IF on_game_exit = "none"
                              THEN Append(Without(states, "frontend", "frontend"),
                                          Request("frontend", "frontend"))
                              ELSE Without(states, "frontend", "frontend")
                 /\ mt_ids' = IF on_game_exit = "none" THEN mt_ids ELSE mt_ids \ {"frontend"}
                 /\ UNCHANGED <<on_game_exit, init_cancel>>
    /\ UNCHANGED <<closures, ui, reset_needed, shown, game, game_state, init_error, has_state,
                   has_managers, has_map, map_data, connection, frontend_requests, historyVars>>

NothingToShow ==
    /\ main = "frontend"
    /\ shown => "frontend" \in mt_ids /\ Responses("frontend", "frontend") = {}
    /\ main' = "end"
    /\ UNCHANGED <<requestVars, frontendVars, game, backendVars, historyVars>>

-----------------------------------------------------------------------------
(* MAIN: the end of GLSMAC::Iterate *)

NextFrame ==
    /\ main = "end" /\ ~reset_needed
    /\ main' = IF closures = <<>> THEN "ui" ELSE "closures"
    /\ UNCHANGED <<requestVars, frontendVars, game, backendVars, historyVars>>

AwaitReset ==
    /\ main = "end" /\ reset_needed
    /\ reset_needed' = FALSE
    /\ init_cancel' = TRUE
    /\ states' = Append(states, Request("reset", "main"))
    /\ main' = "await"
    /\ UNCHANGED <<closures, ui, mt_ids, shown, on_game_exit, game, game_state, init_error, has_state,
                   has_managers, has_map, map_data, connection, frontend_requests, historyVars>>

\* RunMain, GLSMAC::Reset and frontend::Game::Stop, which does nothing for a
\* frontend that is not initialized.
ReturnToMenu ==
    /\ main = "await"
    /\ Responses("reset", "main") # {}
    /\ IF shown
       THEN /\ CanCancel
            /\ states' = CancelRequests(Without(states, "reset", "main"))
            /\ mt_ids' = {}
       ELSE /\ states' = Without(states, "reset", "main")
            /\ UNCHANGED mt_ids
    /\ shown' = FALSE
    /\ ui' = "menu"
    /\ main' = IF closures = <<>> THEN "ui" ELSE "closures"
    /\ UNCHANGED <<closures, reset_needed, on_game_exit, game, backendVars, historyVars>>

-----------------------------------------------------------------------------

Main ==
    \/ RunClosure
    \/ (\E r \in Roles : StartGame(r)) \/ ClickReset \/ NoClick
    \/ PollInit \/ NothingYet("init", "map")
    \/ PollMapData \/ NothingYet("map", "reset")
    \/ PollReset \/ NothingYet("reset", "frontend")
    \/ PollFrontendRequests \/ NothingToShow
    \/ NextFrame \/ AwaitReset \/ ReturnToMenu

Game ==
    \/ TakeRequests \/ ProcessRequest \/ SetResponses
    \/ NothingReceived \/ CompleteDownload \/ Disconnected
    \/ InitializeCrashes \/ InitializeAborted \/ Initialized

Next == Main \/ Game

Spec == Init /\ [][Next]_vars

\* Both threads run on.  A download ends or the connection is lost, which
\* is what module Download shows; Map::Initialize has so many tiles only, and
\* as many chances to take requests.
FairSpec ==
    /\ Spec
    /\ WF_vars(Main) /\ WF_vars(Game)
    /\ SF_vars(CompleteDownload \/ Disconnected)
    /\ SF_vars(InitializeCrashes \/ InitializeAborted \/ Initialized)

-----------------------------------------------------------------------------
(* Properties *)

\* Null and dangling pointers are used only after a client has lost its
\* connection: no start, failure, reset and restart without one leads there.
CrashIsLoss == main = "crashed" => lost

\* What the frontend shows, or is about to, is the game that the backend
\* runs, with the map that it draws from, until a reset is asked for.
ResetAsked == reset_needed \/ \E r \in Range(states) : r.op = "reset"
Shows == shown \/ \E r \in Range(states) : r.op = "map" /\ r.result = "SUCCESS"
ShownIsRunning == Shows /\ ~ResetAsked /\ Alive => game_state = "RUNNING" /\ has_map

\* No request for the frontend outlives its game.
RequestsOfThisGame ==
    \A item \in frontend_requests \cup UNION {r.items : r \in Range(states)} : item[2] = number

FrontendIsCurrent == ShownIsRunning /\ RequestsOfThisGame

\* m_init_cancel is up only while a reset is to be processed, so that it
\* never stops the game after.
NoStaleCancel ==
    init_cancel => \E r \in Range(states) : r.op = "reset" /\ r.phase \in {"new", "processing"}

\* What the frontend waits for comes, its game or an error, unless the map
\* cannot be loaded: then the loader stays for ever.  And the main loop, when
\* it waits for a reset, goes on.
Starting == mt_ids \cap {"init", "map"} # {} /\ Alive
WaitsEnd ==
    /\ Starting ~> (~Starting \/ unloadable)
    /\ main = "await" ~> main # "await"

\* A player who is to leave a game that lost its connection does, be it that
\* the frontend of the game is not there yet.
QuitEnds == <<"quit", number>> \in frontend_requests ~> (~Alive \/ ui = "menu")

\* The map is there as long as it is initialized (backend Game.cpp:212 asserts it).
MapOutlivesInitialize == game = "initialize" => has_map

=============================================================================
