--------------------------- MODULE ClientSessions ---------------------------
(***************************************************************************)
(* How the host of a GLSMAC game tells who is connected.  Three threads:   *)
(* NETWORK (SimpleTCP) owns the sockets, names each connection by a cid    *)
(* and queues events about it; GAME (Connection, Server) fetches these     *)
(* events in batches, maps cids to player slots and asks NETWORK to send   *)
(* or to close; MAIN runs the closures that take the players' game events. *)
(*                                                                         *)
(* Requests reach NETWORK through the table of MTModule, in the order of   *)
(* their ids: taking them one at a time is one of its possible batchings.  *)
(* Abstracted: what packets carry beyond their sender, pings, and packets  *)
(* that change none of this state.  A failed write closes the socket, as a *)
(* peer may.  cids do not wrap around within the bound.  Nothing calls     *)
(* KickFromSlot and BanFromSlot, so slots are not closed and nobody is     *)
(* banned.  Peers authenticate once, when asked, and send game events and  *)
(* wrong packets once they have a slot.  m_ignored_cids, which GAME and    *)
(* MAIN use without a lock, is taken to be inserted into, searched and     *)
(* cleared atomically; GAME and MAIN hold up each other only in            *)
(* gc::Space::Accumulate, whose mutex MAIN keeps while it runs closures.   *)
(***************************************************************************)
EXTENDS Naturals, Sequences, FiniteSets

CONSTANTS
    Accounts,         \* the GSIDs of the people who play
    NoAccount,
    NumSlots,         \* slots besides the host's slot 0
    MaxSockets,       \* bound: connections open at a time
    MaxConnections,   \* bound: connections accepted in all
    MaxPackets        \* bound: packets sent after the authentication in all

ASSUME AccountAssumption == NoAccount \notin Accounts
ASSUME SizeAssumption == NumSlots \in Nat /\ MaxConnections \in Nat
ASSUME BoundAssumption == MaxSockets \in Nat /\ MaxPackets \in Nat

Cids == 1..MaxConnections
SlotNums == 1..NumSlots
NoSlot == 0   \* the host's slot, which no cid maps to
NoCid == 0    \* cid of the host, and of an open slot

Slot == [state : {"open", "player"}, account : Accounts \cup {NoAccount},
         cid : Cids \cup {NoCid}, connected : BOOLEAN]

\* network::Event: ET_CLIENT_CONNECT, ET_CLIENT_DISCONNECT, and the packets
\* PT_AUTH, PT_GAME_EVENT and any that Server answers with Error.
\* An event that is taken out of the queue leaves a gap, which GAME passes over.
EventType == {"connect", "disconnect", "auth", "game_event", "wrong"}
Gap == [type |-> "gap"]
Event == [type : EventType, cid : Cids] \cup {Gap}

Request ==
    [op : {"get_events"}]
        \cup [op : {"request_auth", "disconnect_client"}, cid : Cids]
        \cup [op : {"players"}, cid : Cids, slot_num : SlotNums]

Threads == {"GAME", "MAIN"}

\* A PT_GAME_EVENT closure: who sent the event, and the slot it names as caller,
\* its own, the host's, somebody else's, or one beyond the last.
Closure == [cid : Cids, caller : 0..(NumSlots + 1)]
NoClosure == [cid |-> NoCid, caller |-> 0]

VARIABLES
    \* NETWORK and the peers
    next_cid,     \* m_server.next_cid
    sockets,      \* cids in m_server.cid_to_fd
    events_out,   \* m_events_out
    requests,     \* requests of GAME and MAIN not processed yet
    account,      \* who is behind a connection
    peer,         \* how far the peer is: knows nothing, is asked, has answered
    peer_slot,    \* the slot that PT_PLAYERS told it
    sent,         \* how many packets the peers have sent after the authentication
    \* GAME and MAIN
    fetching,     \* m_mt_ids.events: none, created, or its result is at hand
    fetched,      \* events of that result not handled yet
    ignored,      \* m_ignored_cids
    cid_slots,    \* State::m_cid_slots, NoSlot where there is no entry
    slots,
    game_state,
    queueing,     \* the closure with which GAME waits for the mutex, or NoClosure
    closures,     \* m_pending_accumulations, PT_GAME_EVENT closures waiting for MAIN
    accumulating, \* MAIN is in ProcessAccumulations, with the mutex
    kicking       \* whom a thread has ignored in Kick and not yet asked to disconnect

networkVars == <<next_cid, sockets, events_out>>
peerVars == <<account, peer, peer_slot, sent>>
fetchVars == <<fetching, fetched>>
sessionVars == <<cid_slots, slots>>
closureVars == <<queueing, closures, accumulating>>
vars == <<networkVars, requests, peerVars, fetchVars, ignored, sessionVars, game_state,
          closureVars, kicking>>

TypeOK ==
    /\ next_cid \in 1..(MaxConnections + 1)
    /\ sockets \subseteq Cids
    /\ events_out \in Seq(Event)
    /\ requests \in Seq(Request)
    /\ account \in [Cids -> Accounts \cup {NoAccount}]
    /\ peer \in [Cids -> {"new", "asked", "answered"}]
    /\ peer_slot \in [Cids -> SlotNums \cup {NoSlot}]
    /\ sent \in 0..MaxPackets
    /\ fetching \in {"idle", "created", "executed"}
    /\ fetched \in Seq(Event)
    /\ ignored \subseteq Cids
    /\ cid_slots \in [Cids -> SlotNums \cup {NoSlot}]
    /\ slots \in [SlotNums -> Slot]
    /\ game_state \in {"lobby", "running"}
    /\ queueing \in Closure \cup {NoClosure}
    /\ closures \in Seq(Closure)
    /\ accumulating \in BOOLEAN
    /\ kicking \in [Threads -> Cids \cup {NoCid}]

OpenSlot == [state |-> "open", account |-> NoAccount, cid |-> NoCid, connected |-> FALSE]

\* The host listens, in the lobby.
Init ==
    /\ next_cid = 1
    /\ sockets = {}
    /\ events_out = <<>>
    /\ requests = <<>>
    /\ account = [c \in Cids |-> NoAccount]
    /\ peer = [c \in Cids |-> "new"]
    /\ peer_slot = [c \in Cids |-> NoSlot]
    /\ sent = 0
    /\ fetching = "idle"
    /\ fetched = <<>>
    /\ ignored = {}
    /\ cid_slots = [c \in Cids |-> NoSlot]
    /\ slots = [s \in SlotNums |-> OpenSlot]
    /\ game_state = "lobby"
    /\ queueing = NoClosure
    /\ closures = <<>>
    /\ accumulating = FALSE
    /\ kicking = [t \in Threads |-> NoCid]

-----------------------------------------------------------------------------
(* NETWORK *)

Accept(a) ==
    /\ next_cid \in Cids
    /\ Cardinality(sockets) < MaxSockets
    /\ sockets' = sockets \cup {next_cid}
    /\ next_cid' = next_cid + 1
    /\ account' = [account EXCEPT ![next_cid] = a]
    /\ events_out' = Append(events_out, [type |-> "connect", cid |-> next_cid])
    /\ UNCHANGED <<requests, peer, peer_slot, sent, fetchVars, ignored, sessionVars,
                   game_state, closureVars, kicking>>

ReadAuth(c) ==
    /\ c \in sockets
    /\ peer[c] = "asked"
    /\ peer' = [peer EXCEPT ![c] = "answered"]
    /\ events_out' = Append(events_out, [type |-> "auth", cid |-> c])
    /\ UNCHANGED <<next_cid, sockets, requests, account, peer_slot, sent, fetchVars, ignored,
                   sessionVars, game_state, closureVars, kicking>>

ReadPacket(c, type) ==
    /\ c \in sockets
    /\ peer_slot[c] # NoSlot
    /\ sent < MaxPackets
    /\ sent' = sent + 1
    /\ events_out' = Append(events_out, [type |-> type, cid |-> c])
    /\ UNCHANGED <<next_cid, sockets, requests, account, peer, peer_slot, fetchVars, ignored,
                   sessionVars, game_state, closureVars, kicking>>

IsDisconnect(e) == e.type = "disconnect"
IsAbout(e, c) == e # Gap /\ e.cid = c

\* Fault: the client's own disconnect goes with its other events.
InvalidateAll(q, c) == [i \in 1..Len(q) |-> IF IsAbout(q[i], c) THEN Gap ELSE q[i]]

\* InvalidateEventsForDisconnectedClient keeps the first disconnect it finds,
\* whoever it is about, and drops everything else of this client.
Invalidate(q, c) ==
    [i \in 1..Len(q) |->
        IF IsAbout(q[i], c) /\ (IsDisconnect(q[i]) => \E j \in 1..(i - 1) : IsDisconnect(q[j]))
        THEN Gap ELSE q[i]]

CloseClientSocket(c) ==
    /\ sockets' = sockets \ {c}
    /\ events_out' = Invalidate(Append(events_out, [type |-> "disconnect", cid |-> c]), c)

\* The peer is gone: it closed, or a read or write failed, or its ping timed out.
LosePeer(c) ==
    /\ c \in sockets
    /\ CloseClientSocket(c)
    /\ UNCHANGED <<next_cid, requests, peerVars, fetchVars, ignored, sessionVars,
                   game_state, closureVars, kicking>>

\* Fault: an empty result is taken for none, and waited for.
AfterFetchWaiting(events) == IF events = <<>> THEN "created" ELSE "executed"

\* An empty result leaves nothing to do but to ask again.
AfterFetch(events) == IF events = <<>> THEN "idle" ELSE "executed"

GetEvents ==
    /\ requests # <<>>
    /\ Head(requests).op = "get_events"
    /\ requests' = Tail(requests)
    /\ fetching' = AfterFetch(events_out)
    /\ fetched' = events_out
    /\ events_out' = <<>>
    /\ UNCHANGED <<next_cid, sockets, peerVars, ignored, sessionVars, game_state, closureVars, kicking>>

SendRequestAuth ==
    /\ requests # <<>>
    /\ Head(requests).op = "request_auth"
    /\ LET c == Head(requests).cid IN
        peer' = IF c \in sockets THEN [peer EXCEPT ![c] = "asked"] ELSE peer
    /\ requests' = Tail(requests)
    /\ UNCHANGED <<networkVars, account, peer_slot, sent, fetchVars, ignored, sessionVars,
                   game_state, closureVars, kicking>>

SendPlayers ==
    /\ requests # <<>>
    /\ Head(requests).op = "players"
    /\ LET r == Head(requests) IN
        peer_slot' =
            IF r.cid \in sockets THEN [peer_slot EXCEPT ![r.cid] = r.slot_num] ELSE peer_slot
    /\ requests' = Tail(requests)
    /\ UNCHANGED <<networkVars, account, peer, sent, fetchVars, ignored, sessionVars,
                   game_state, closureVars, kicking>>

DisconnectClient ==
    /\ requests # <<>>
    /\ Head(requests).op = "disconnect_client"
    /\ LET c == Head(requests).cid IN
        IF c \in sockets THEN CloseClientSocket(c) ELSE UNCHANGED <<sockets, events_out>>
    /\ requests' = Tail(requests)
    /\ UNCHANGED <<next_cid, peerVars, fetchVars, ignored, sessionVars, game_state, closureVars, kicking>>

ProcessRequest == GetEvents \/ SendRequestAuth \/ SendPlayers \/ DisconnectClient

-----------------------------------------------------------------------------
(* GAME: Connection::IterateAndMaybeDelete and Server::ProcessEvent *)

\* GAME is neither in the middle of a kick nor waiting for the mutex.
GameFree == kicking["GAME"] = NoCid /\ queueing = NoClosure

CreateGetEvents ==
    /\ GameFree
    /\ fetching = "idle"
    /\ fetching' = "created"
    /\ requests' = Append(requests, [op |-> "get_events"])
    /\ UNCHANGED <<networkVars, peerVars, fetched, ignored, sessionVars, game_state, closureVars, kicking>>

\* Fault: events of the client that are fetched already are still handled.
KickUnignored(t, c) ==
    /\ kicking[t] = NoCid
    /\ ignored' = ignored
    /\ kicking' = [kicking EXCEPT ![t] = c]

\* Kick, on GAME or on MAIN, first has the client ignored,
Kick(t, c) ==
    /\ kicking[t] = NoCid
    /\ ignored' = ignored \cup {c}
    /\ kicking' = [kicking EXCEPT ![t] = c]

\* Fault: the connection stays open.
KickOpen(t) ==
    /\ kicking[t] # NoCid
    /\ requests' = requests
    /\ kicking' = [kicking EXCEPT ![t] = NoCid]
    /\ UNCHANGED <<networkVars, peerVars, fetchVars, ignored, sessionVars, game_state, closureVars>>

\* sends PT_KICK, which changes none of this state, and then asks NETWORK to
\* disconnect it.  No lock is held meanwhile: the other thread goes on.
DisconnectKicked(t) ==
    /\ kicking[t] # NoCid
    /\ requests' = Append(requests, [op |-> "disconnect_client", cid |-> kicking[t]])
    /\ kicking' = [kicking EXCEPT ![t] = NoCid]
    /\ UNCHANGED <<networkVars, peerVars, fetchVars, ignored, sessionVars, game_state, closureVars>>

\* The event being handled; disconnects are never ignored.
Handles(type) ==
    /\ GameFree
    /\ fetched # <<>>
    /\ Head(fetched).type = type
    /\ type # "disconnect" => Head(fetched).cid \notin ignored
    /\ fetched' = Tail(fetched)

Ignore ==
    /\ GameFree
    /\ fetched # <<>>
    /\ ~IsDisconnect(Head(fetched))
    /\ Head(fetched) # Gap => Head(fetched).cid \in ignored
    /\ fetched' = Tail(fetched)
    /\ UNCHANGED <<networkVars, requests, peerVars, fetching, ignored, sessionVars,
                   game_state, closureVars, kicking>>

EndBatch ==
    /\ GameFree
    /\ fetching = "executed"
    /\ fetched = <<>>
    /\ fetching' = "idle"
    /\ ignored' = {}
    /\ UNCHANGED <<networkVars, requests, peerVars, fetched, sessionVars, game_state, closureVars, kicking>>

HandleConnect ==
    /\ Handles("connect")
    /\ requests' = Append(requests, [op |-> "request_auth", cid |-> Head(fetched).cid])
    /\ UNCHANGED <<networkVars, peerVars, fetching, ignored, sessionVars, game_state, closureVars, kicking>>

LinkedTo(a) == {s \in SlotNums : slots[s].account = a}

\* Where the loop over the slots stops: the first open one, or beyond the last.
FirstOpen ==
    CHOOSE s \in 1..(NumSlots + 1) :
        /\ s \in SlotNums => slots[s].state = "open"
        /\ \A t \in 1..(s - 1) : slots[t].state # "open"

\* In the lobby the loop counts on from the slot the player was found in, if any.
SlotForAuth(a) ==
    LET found == IF LinkedTo(a) = {} THEN 0 ELSE CHOOSE s \in LinkedTo(a) : TRUE
    IN  IF game_state = "lobby" THEN found + FirstOpen ELSE found

\* Fault: a player beyond the last slot is let in.
AuthRefusedLate(a) ==
    \/ game_state # "lobby" /\ LinkedTo(a) = {}
    \/ \E s \in LinkedTo(a) : slots[s].connected
    \/ game_state = "lobby" /\ SlotForAuth(a) > NumSlots + 1

\* Not a player of this game, connected already, or no slot is free.
AuthRefused(a) ==
    \/ game_state # "lobby" /\ LinkedTo(a) = {}
    \/ \E s \in LinkedTo(a) : slots[s].connected
    \/ game_state = "lobby" /\ SlotForAuth(a) > NumSlots

\* A second authentication from one cid disconnects it without the kick.
RefuseAuth ==
    /\ Handles("auth")
    /\ LET c == Head(fetched).cid IN
        /\ cid_slots[c] # NoSlot \/ AuthRefused(account[c])
        /\ IF cid_slots[c] # NoSlot
           THEN /\ requests' = Append(requests, [op |-> "disconnect_client", cid |-> c])
                /\ UNCHANGED <<ignored, kicking>>
           ELSE Kick("GAME", c) /\ requests' = requests
    /\ UNCHANGED <<networkVars, peerVars, fetching, sessionVars, game_state, closureVars>>

AcceptAuth ==
    /\ Handles("auth")
    /\ LET c == Head(fetched).cid
           s == SlotForAuth(account[c]) IN
        /\ cid_slots[c] = NoSlot
        /\ ~AuthRefused(account[c])
        /\ cid_slots' = [cid_slots EXCEPT ![c] = s]
        /\ slots' = [slots EXCEPT ![s] =
                [state |-> "player", account |-> account[c], cid |-> c, connected |-> TRUE]]
        /\ requests' = Append(requests, [op |-> "players", cid |-> c, slot_num |-> s])
    /\ UNCHANGED <<networkVars, peerVars, fetching, ignored, game_state, closureVars, kicking>>

\* Fault: a player who leaves the lobby stays linked to the slot.
VacatedLinked(s) ==
    IF game_state = "lobby" THEN [OpenSlot EXCEPT !.account = slots[s].account]
    ELSE [slots[s] EXCEPT !.connected = FALSE]

\* Fault: a player who leaves the game stays connected.
VacatedConnected(s) == IF game_state = "lobby" THEN OpenSlot ELSE slots[s]

\* In the lobby the slot is freed, in the game it is kept for the player.
Vacated(s) ==
    IF game_state = "lobby" THEN OpenSlot ELSE [slots[s] EXCEPT !.connected = FALSE]

HandleDisconnect ==
    /\ Handles("disconnect")
    /\ LET c == Head(fetched).cid
           s == cid_slots[c] IN
        IF s = NoSlot THEN UNCHANGED sessionVars
        ELSE /\ cid_slots' = [cid_slots EXCEPT ![c] = NoSlot]
             /\ slots' = [slots EXCEPT ![s] = Vacated(s)]
    /\ UNCHANGED <<networkVars, requests, peerVars, fetching, ignored, game_state, closureVars, kicking>>

HandleWrong ==
    /\ Handles("wrong")
    /\ Kick("GAME", Head(fetched).cid)
    /\ UNCHANGED <<networkVars, requests, peerVars, fetching, sessionVars, game_state, closureVars>>

\* A game event that passed the check is queued for MAIN as soon as MAIN lets go
\* of the mutex; by then MAIN may have kicked its sender.
HandleGameEvent ==
    /\ Handles("game_event")
    /\ \E caller \in 0..(NumSlots + 1) :
        queueing' = [cid |-> Head(fetched).cid, caller |-> caller]
    /\ UNCHANGED <<networkVars, requests, peerVars, fetching, ignored, sessionVars, game_state,
                   closures, accumulating, kicking>>

Accumulate ==
    /\ queueing # NoClosure
    /\ ~accumulating
    /\ closures' = Append(closures, queueing)
    /\ queueing' = NoClosure
    /\ UNCHANGED <<networkVars, requests, peerVars, fetchVars, ignored, sessionVars, game_state,
                   accumulating, kicking>>

ProcessEvent ==
    \/ Ignore \/ HandleConnect \/ RefuseAuth \/ AcceptAuth
    \/ HandleDisconnect \/ HandleWrong \/ HandleGameEvent \/ Accumulate

-----------------------------------------------------------------------------
(* MAIN *)

\* The slot named as caller must exist and be the sender's.
CallerIsSender(k) ==
    k.caller \in SlotNums /\ slots[k.caller].state = "player" /\ slots[k.caller].cid = k.cid

\* ProcessAccumulations takes the mutex, runs all closures,
RunClosure ==
    /\ kicking["MAIN"] = NoCid
    /\ closures # <<>>
    /\ accumulating' = TRUE
    /\ closures' = Tail(closures)
    /\ IF CallerIsSender(Head(closures))
       THEN UNCHANGED <<ignored, kicking>>
       ELSE Kick("MAIN", Head(closures).cid)
    /\ UNCHANGED <<networkVars, requests, peerVars, fetchVars, sessionVars, game_state, queueing>>

\* and lets it go.
EndAccumulations ==
    /\ kicking["MAIN"] = NoCid
    /\ accumulating
    /\ closures = <<>>
    /\ accumulating' = FALSE
    /\ UNCHANGED <<networkVars, requests, peerVars, fetchVars, ignored, sessionVars, game_state,
                   queueing, closures, kicking>>

ProcessAccumulations == RunClosure \/ EndAccumulations

StartGame ==
    /\ game_state = "lobby"
    /\ game_state' = "running"
    /\ UNCHANGED <<networkVars, requests, peerVars, fetchVars, ignored, sessionVars, closureVars, kicking>>

-----------------------------------------------------------------------------

Next ==
    \/ \E a \in Accounts : Accept(a)
    \/ \E c \in Cids :
        \/ ReadAuth(c)
        \/ \E type \in {"game_event", "wrong"} : ReadPacket(c, type)
        \/ LosePeer(c)
    \/ ProcessRequest
    \/ CreateGetEvents
    \/ ProcessEvent
    \/ EndBatch
    \/ ProcessAccumulations
    \/ \E t \in Threads : DisconnectKicked(t)
    \/ StartGame

Spec == Init /\ [][Next]_vars

\* The three threads keep looping, MAIN lets GAME have the mutex, and a peer that
\* is asked answers or is lost.
Fairness ==
    /\ WF_vars(ProcessRequest)
    /\ WF_vars(CreateGetEvents)
    /\ WF_vars(ProcessEvent)
    /\ WF_vars(EndBatch)
    /\ WF_vars(ProcessAccumulations)
    /\ \A t \in Threads : WF_vars(DisconnectKicked(t))
    /\ \A c \in Cids : WF_vars(ReadAuth(c))

FairSpec == Spec /\ Fairness
-----------------------------------------------------------------------------
(* Properties *)

\* State.cpp:115 asserts one cid per slot, Server.cpp:419 looks cids up with at():
\* the slots of connected players and the table of cids are inverse to each other,
\* and hold the account that is behind the connection.
SessionsMatchSlots ==
    /\ \A s \in SlotNums :
        slots[s].connected =>
            slots[s].state = "player" /\ slots[s].cid \in Cids /\ cid_slots[slots[s].cid] = s
    /\ \A c \in Cids : cid_slots[c] # NoSlot =>
        LET slot == slots[cid_slots[c]] IN
            slot.connected /\ slot.cid = c /\ slot.account = account[c]

\* Why: nothing is queued about a cid that was not given out yet, only players
\* send game events, and an account is linked to one slot, in the lobby to a
\* connected one.
Known == 1..(next_cid - 1)

Queued(events, cids, slot_of) ==
    \A i \in 1..Len(events) : events[i] # Gap =>
        /\ events[i].cid \in cids
        /\ events[i].type = "game_event" => slot_of[events[i].cid] # NoSlot

QueuedInv == Queued(events_out, Known, peer_slot) /\ Queued(fetched, Known, peer_slot)

CidsInv ==
    /\ sockets \subseteq Known
    /\ \A c \in Known : account[c] \in Accounts
    /\ \A c \in Cids : cid_slots[c] # NoSlot => c \in Known

SlotsInv ==
    /\ \A s \in SlotNums : slots[s].state = "open" => ~slots[s].connected
    /\ \A s \in SlotNums : slots[s].state = "open" => slots[s].account = NoAccount
    /\ game_state = "lobby" =>
        \A s \in SlotNums : slots[s].account # NoAccount => slots[s].connected
    /\ \A s, t \in SlotNums :
        s # t /\ slots[s].account # NoAccount => slots[s].account # slots[t].account

SessionInv == QueuedInv /\ CidsInv /\ SlotsInv /\ SessionsMatchSlots

\* Nobody plays two slots, and nobody connects into a slot somebody else holds
\* (asserted at Slot.cpp:100 and Slot.cpp:119): a slot changes hands only by
\* becoming open first.
SlotsChangeHandsOpen ==
    [][/\ \A s \in SlotNums :
            slots[s].state = "player" /\ slots'[s].state = "player" =>
                slots'[s].account = slots[s].account
       /\ \A s, t \in SlotNums :
            s # t /\ slots'[s].account # NoAccount => slots'[s].account # slots'[t].account]_vars

\* A connection that has a slot is open, or its end is still to be handled.
DisconnectReported ==
    \A c \in Cids : cid_slots[c] # NoSlot =>
        \/ c \in sockets
        \/ \E i \in 1..Len(events_out) : events_out[i] = [type |-> "disconnect", cid |-> c]
        \/ \E i \in 1..Len(fetched) : fetched[i] = [type |-> "disconnect", cid |-> c]

\* Hence a player whose connection is lost does not stay connected.
LostPlayerLeaves ==
    \A c \in Cids : (cid_slots[c] # NoSlot /\ c \notin sockets) ~> cid_slots[c] = NoSlot

\* Whoever answers the authentication request gets a slot or is disconnected.
AuthIsAnswered ==
    \A c \in Cids : (peer[c] = "answered") ~> (peer_slot[c] # NoSlot \/ c \notin sockets)

\* Whoever is kicked is disconnected, whichever thread kicks and whatever the
\* other one does between Kick's steps: forgets whom to ignore, fetches the next
\* events, or kicks the same client.
KickedIsClosed ==
    \A c \in Cids : c \in ignored ~> c \notin sockets
=============================================================================
