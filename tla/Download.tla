------------------------------ MODULE Download ------------------------------
(***************************************************************************)
(* How a client that joins a GLSMAC game gets the world (connection Server *)
(* and Client): the host serializes a snapshot when it is asked, keeps it  *)
(* per connection and hands it out in chunks, each chunk requested with an *)
(* offset and a size that both sides check.  Meanwhile the host plays on.  *)
(*                                                                         *)
(* A byte of a snapshot is the version of the world it was taken from and  *)
(* its position.  Abstracted: what the bytes mean, and the tear of a       *)
(* snapshot that is serialized while MAIN changes the world.  A client is  *)
(* one connection: whoever connects again has a new cid, and a new Client. *)
(***************************************************************************)
EXTENDS Naturals, Sequences

CONSTANTS
    Clients,
    ChunkSize,   \* DOWNLOAD_CHUNK_SIZE
    Sizes        \* bytes of a snapshot of each version of the world, the last one
                 \* included: the world changes at most Len(Sizes) - 1 times

ASSUME ChunkAssumption == ChunkSize \in Nat /\ ChunkSize > 0
ASSUME SizesAssumption == Sizes \in Seq(Nat) /\ Len(Sizes) > 0

Versions == 1..Len(Sizes)
Byte == Versions \X Nat
Snapshot(v) == [i \in 1..Sizes[v] |-> <<v, i>>]

NoData == [next |-> 0, snapshot |-> <<>>]
DownloadData == [next : Nat, snapshot : Seq(Byte)]

\* Client.cpp:373 asserts that no empty chunk is requested.
ClientPacket ==
    [type : {"download"}] \cup [type : {"next_chunk"}, offset : Nat, size : Nat \ {0}]
ServerPacket ==
    [type : {"download"}, num : Nat]
        \cup [type : {"next_chunk"}, offset : Nat, size : Nat, str : Seq(Byte)]

VARIABLES
    world,         \* version of the host's world
    data,          \* Server::m_download_data, NoData where there is no entry
    phase,         \* of a client; m_download_state.is_downloading is "downloading"
    total,         \* m_download_state.total_size
    downloaded,    \* m_download_state.downloaded_size
    buffer,        \* m_download_state.buffer, or what m_on_download_complete got
    to_server,     \* packets of a client on their way, in order
    to_client      \* packets to a client on their way, in order

clientVars == <<phase, total, downloaded, buffer>>
netVars == <<to_server, to_client>>
vars == <<world, data, clientVars, netVars>>

TypeOK ==
    /\ world \in Versions
    /\ data \in [Clients -> DownloadData]
    /\ phase \in [Clients -> {"new", "downloading", "complete", "nothing", "refused", "gone"}]
    /\ total \in [Clients -> Nat]
    /\ downloaded \in [Clients -> Nat]
    /\ buffer \in [Clients -> Seq(Byte)]
    /\ to_server \in [Clients -> Seq(ClientPacket)]
    /\ to_client \in [Clients -> Seq(ServerPacket)]

Init ==
    /\ world = 1
    /\ data = [c \in Clients |-> NoData]
    /\ phase = [c \in Clients |-> "new"]
    /\ total = [c \in Clients |-> 0]
    /\ downloaded = [c \in Clients |-> 0]
    /\ buffer = [c \in Clients |-> <<>>]
    /\ to_server = [c \in Clients |-> <<>>]
    /\ to_client = [c \in Clients |-> <<>>]

-----------------------------------------------------------------------------
(* Client *)

RequestDownload(c) ==
    /\ phase[c] = "new"
    /\ phase' = [phase EXCEPT ![c] = "downloading"]
    /\ to_server' = [to_server EXCEPT ![c] = Append(@, [type |-> "download"])]
    /\ UNCHANGED <<world, data, total, downloaded, buffer, to_client>>

\* Fault: the last chunk is requested as if it were a whole one.
NextChunkWhole(offset, size) == [type |-> "next_chunk", offset |-> offset, size |-> ChunkSize]

\* DownloadNextChunk asks for what is left, at most a chunk of it.
NextChunk(offset, size) ==
    [type |-> "next_chunk", offset |-> offset,
     size |-> IF size - offset < ChunkSize THEN size - offset ELSE ChunkSize]

\* Fault: the client goes on waiting.
PhaseWithoutSnapshotSame == "downloading"

\* An empty snapshot is none: the client disconnects.
PhaseWithoutSnapshot == "nothing"

ReceiveDownloadResponse(c) ==
    /\ phase[c] = "downloading"
    /\ to_client[c] # <<>>
    /\ LET p == Head(to_client[c]) IN
        /\ p.type = "download"
        /\ IF p.num = 0
           THEN /\ phase' = [phase EXCEPT ![c] = PhaseWithoutSnapshot]
                /\ UNCHANGED <<total, to_server>>
           ELSE /\ total' = [total EXCEPT ![c] = p.num]
                /\ to_server' = [to_server EXCEPT ![c] = Append(@, NextChunk(downloaded[c], p.num))]
                /\ UNCHANGED phase
    /\ to_client' = [to_client EXCEPT ![c] = Tail(@)]
    /\ UNCHANGED <<world, data, downloaded, buffer>>

ChunkFits(c, p) ==
    /\ p.offset + p.size <= total[c]
    /\ p.offset = downloaded[c]
    /\ p.size = ChunkSize \/ p.offset + p.size = total[c]

\* Fault: what ends with the snapshot is not the last chunk.
IsLastChunkLate(c, end) == end > total[c]

IsLastChunk(c, end) == end >= total[c]

\* The buffer is passed on when it is full; downloaded_size stays what it was.
ReceiveChunk(c) ==
    /\ phase[c] = "downloading"
    /\ to_client[c] # <<>>
    /\ LET p == Head(to_client[c])
           end == p.offset + p.size IN
        /\ p.type = "next_chunk"
        /\ IF ~ChunkFits(c, p)
           THEN /\ phase' = [phase EXCEPT ![c] = "refused"]
                /\ UNCHANGED <<downloaded, buffer, to_server>>
           ELSE /\ buffer' = [buffer EXCEPT ![c] = @ \o p.str]
                /\ IF IsLastChunk(c, end)
                   THEN /\ phase' = [phase EXCEPT ![c] = "complete"]
                        /\ UNCHANGED <<downloaded, to_server>>
                   ELSE /\ downloaded' = [downloaded EXCEPT ![c] = end]
                        /\ to_server' = [to_server EXCEPT ![c] = Append(@, NextChunk(end, total[c]))]
                        /\ UNCHANGED phase
    /\ to_client' = [to_client EXCEPT ![c] = Tail(@)]
    /\ UNCHANGED <<world, data, total>>

-----------------------------------------------------------------------------
(* Server *)

ChangeWorld ==
    /\ world < Len(Sizes)
    /\ world' = world + 1
    /\ UNCHANGED <<data, clientVars, netVars>>

NewDownloadData(v) == [next |-> 0, snapshot |-> Snapshot(v)]

ReceiveDownloadRequest(c) ==
    /\ to_server[c] # <<>>
    /\ Head(to_server[c]).type = "download"
    /\ data' = [data EXCEPT ![c] = NewDownloadData(world)]
    /\ to_client' = [to_client EXCEPT ![c] = Append(@, [type |-> "download", num |-> Sizes[world]])]
    /\ to_server' = [to_server EXCEPT ![c] = Tail(@)]
    /\ UNCHANGED <<world, clientVars>>

ChunkAllowed(c, p) ==
    /\ data[c] # NoData
    /\ p.offset + p.size <= Len(data[c].snapshot)
    /\ p.offset = data[c].next
    /\ p.size = ChunkSize \/ p.offset + p.size = Len(data[c].snapshot)

\* Fault: the chunk is cut from the world as it is now.
ChunkOfWorld(c, from, upto) == [i \in 1..(upto - from) |-> <<world, from + i>>]

ChunkOf(c, from, upto) == SubSeq(data[c].snapshot, from + 1, upto)

\* Fault: the snapshot is kept after its last chunk.
DataKept(c, end) == [data[c] EXCEPT !.next = end]

\* The snapshot is freed with its last chunk.
DataAfter(c, end) ==
    IF end < Len(data[c].snapshot) THEN [data[c] EXCEPT !.next = end] ELSE NoData

ReceiveChunkRequest(c) ==
    /\ to_server[c] # <<>>
    /\ LET p == Head(to_server[c])
           end == p.offset + p.size IN
        /\ p.type = "next_chunk"
        /\ IF ~ChunkAllowed(c, p)
           THEN /\ phase' = [phase EXCEPT ![c] = "refused"]
                /\ UNCHANGED <<data, to_client>>
           ELSE /\ to_client' = [to_client EXCEPT ![c] =
                        Append(@, [type |-> "next_chunk", offset |-> p.offset, size |-> p.size,
                                   str |-> ChunkOf(c, p.offset, end)])]
                /\ data' = [data EXCEPT ![c] = DataAfter(c, end)]
                /\ UNCHANGED phase
    /\ to_server' = [to_server EXCEPT ![c] = Tail(@)]
    /\ UNCHANGED <<world, total, downloaded, buffer>>

\* The connection is lost; what was on its way is dropped with it.
LoseClient(c) ==
    /\ phase[c] # "gone"
    /\ phase' = [phase EXCEPT ![c] = "gone"]
    /\ to_server' = [to_server EXCEPT ![c] = <<>>]
    /\ to_client' = [to_client EXCEPT ![c] = <<>>]
    /\ UNCHANGED <<world, data, total, downloaded, buffer>>

\* The server learns of it later, as of any event.
HandleDisconnect(c) ==
    /\ phase[c] = "gone"
    /\ data[c] # NoData
    /\ data' = [data EXCEPT ![c] = NoData]
    /\ UNCHANGED <<world, clientVars, netVars>>

-----------------------------------------------------------------------------

ClientReceive(c) == ReceiveDownloadResponse(c) \/ ReceiveChunk(c)
ServerReceive(c) == ReceiveDownloadRequest(c) \/ ReceiveChunkRequest(c) \/ HandleDisconnect(c)

Next ==
    \/ ChangeWorld
    \/ \E c \in Clients :
        RequestDownload(c) \/ ClientReceive(c) \/ ServerReceive(c) \/ LoseClient(c)

Spec == Init /\ [][Next]_vars

\* Both programs keep receiving; a client need not ask, and may be lost.
Fairness == \A c \in Clients : WF_vars(ClientReceive(c)) /\ WF_vars(ServerReceive(c))

FairSpec == Spec /\ Fairness
-----------------------------------------------------------------------------
(* Properties *)

\* What the client unpacks is one snapshot, whole, although the world may have
\* changed between two chunks.
CompleteIsOneSnapshot ==
    \A c \in Clients : phase[c] = "complete" => \E v \in Versions : buffer[c] = Snapshot(v)

\* The counters of the two sides agree whenever a packet arrives, whatever the
\* sizes: neither refuses what the other sends.
NobodyIsRefused == \A c \in Clients : phase[c] # "refused"

\* The server keeps no snapshot for a client that has all of it.
SnapshotIsFreed == \A c \in Clients : phase[c] = "complete" => data[c] = NoData

\* Why: exactly one packet is on its way while a client downloads, and what it
\* asks for or brings follows on from what the client has.
HasPrefix(c, v) ==
    downloaded[c] = Len(buffer[c]) /\ buffer[c] = SubSeq(Snapshot(v), 1, downloaded[c])

HasPart(c, v) == total[c] = Sizes[v] /\ downloaded[c] < Sizes[v] /\ HasPrefix(c, v)

Idle(c) == to_server[c] = <<>> /\ to_client[c] = <<>>

Nothing(c) == downloaded[c] = 0 /\ buffer[c] = <<>> /\ data[c] = NoData

Requested(c) ==
    /\ to_server[c] = <<[type |-> "download"]>>
    /\ to_client[c] = <<>>
    /\ Nothing(c)

Announced(c, v) ==
    /\ to_server[c] = <<>>
    /\ to_client[c] = <<[type |-> "download", num |-> Sizes[v]]>>
    /\ downloaded[c] = 0
    /\ HasPrefix(c, v)
    /\ data[c] = NewDownloadData(v)

Asked(c, v) ==
    /\ to_server[c] = <<NextChunk(downloaded[c], total[c])>>
    /\ to_client[c] = <<>>
    /\ HasPart(c, v)
    /\ data[c] = [next |-> downloaded[c], snapshot |-> Snapshot(v)]

Brought(c, v) ==
    LET p == NextChunk(downloaded[c], total[c])
        end == p.offset + p.size IN
    /\ HasPart(c, v)
    /\ to_server[c] = <<>>
    /\ to_client[c] = <<[type |-> "next_chunk", offset |-> p.offset, size |-> p.size,
                         str |-> SubSeq(Snapshot(v), p.offset + 1, end)]>>
    /\ data[c] = IF end < Sizes[v] THEN [next |-> end, snapshot |-> Snapshot(v)] ELSE NoData

Downloading(c) ==
    Requested(c) \/ \E v \in Versions : Announced(c, v) \/ Asked(c, v) \/ Brought(c, v)

Complete(c) == data[c] = NoData /\ \E v \in Versions : buffer[c] = Snapshot(v)

ClientInv(c) ==
    /\ phase[c] = "new" => Idle(c) /\ Nothing(c)
    /\ phase[c] = "downloading" => Downloading(c)
    /\ phase[c] \in {"complete", "nothing", "gone"} => Idle(c)
    /\ phase[c] = "complete" => Complete(c)
    /\ phase[c] # "refused"

DownloadInv == \A c \in Clients : ClientInv(c)

\* A download that was requested comes to an end.
DownloadEnds ==
    \A c \in Clients : (phase[c] = "downloading") ~> (phase[c] # "downloading")
=============================================================================
