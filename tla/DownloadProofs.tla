--------------------------- MODULE DownloadProofs ---------------------------
(***************************************************************************)
(* Proofs about Download, for every set of clients, chunk size and sizes   *)
(* of snapshots.  TypeOK /\ DownloadInv is inductive: DownloadInv says, of *)
(* each client by itself, what is on its way and how much it has.  Each    *)
(* action is proved for the client it is about; Frame does the others.     *)
(***************************************************************************)
EXTENDS Download, SequenceTheorems, TLAPS

IInv == TypeOK /\ DownloadInv

-----------------------------------------------------------------------------
(* Snapshots and chunks *)

\* A snapshot is a sequence of bytes of the size given for its version.
LEMMA SnapshotProperties ==
    ASSUME NEW v \in Versions
    PROVE  /\ Sizes[v] \in Nat
           /\ Snapshot(v) \in Seq(Byte)
           /\ Len(Snapshot(v)) = Sizes[v]
<1>1. Sizes[v] \in Nat
    BY SizesAssumption DEF Versions
<1>2. Snapshot(v) \in [1..Sizes[v] -> Byte]
    BY <1>1 DEF Snapshot, Byte
<1>3. Snapshot(v) \in Seq(Byte)
    BY <1>1, <1>2, SeqDef
<1>4. Len(Snapshot(v)) = Sizes[v]
    BY <1>1, <1>2, <1>3, LenProperties
<1> QED BY <1>1, <1>3, <1>4

\* What the client has and the chunk that follows on from it make a longer part.
LEMMA SnapshotParts ==
    ASSUME NEW v \in Versions, NEW n \in Nat, NEW end \in Nat, n <= end, end <= Sizes[v]
    PROVE  LET part == SubSeq(Snapshot(v), n + 1, end) IN
           /\ part \in Seq(Byte)
           /\ SubSeq(Snapshot(v), 1, n) \o part = SubSeq(Snapshot(v), 1, end)
           /\ SubSeq(Snapshot(v), 1, end) \in Seq(Byte)
           /\ Len(SubSeq(Snapshot(v), 1, end)) = end
           /\ SubSeq(Snapshot(v), 1, 0) = <<>>
           /\ SubSeq(Snapshot(v), 1, Sizes[v]) = Snapshot(v)
<1> DEFINE s == Snapshot(v)
<1>1. s \in Seq(Byte) /\ Len(s) = Sizes[v] /\ Sizes[v] \in Nat
    BY SnapshotProperties
<1> HIDE DEF s
<1>2. \A i \in 1..Len(s) : s[i] \in Byte
    BY <1>1, ElementOfSeq
<1>3. SubSeq(s, n + 1, end) \in Seq(Byte)
    BY <1>1, <1>2, SubSeqProperties
<1>4. SubSeq(s, 1, n) \o SubSeq(s, n + 1, end) = SubSeq(s, 1, end)
    <2>1. 1 \in 1..(Len(s) + 1) /\ n \in (1 - 1)..Len(s) /\ end \in n..Len(s)
        BY <1>1
    <2> QED BY <1>1, <2>1, ConcatAdjacentSubSeq
<1>5. SubSeq(s, 1, end) \in Seq(Byte) /\ Len(SubSeq(s, 1, end)) = end
    BY <1>1, <1>2, SubSeqProperties
<1>6. SubSeq(s, 1, 0) = <<>>
    BY SubSeqEmpty
<1>7. SubSeq(s, 1, Sizes[v]) = s
    BY <1>1, SubSeqFull
<1> QED BY <1>3, <1>4, <1>5, <1>6, <1>7 DEF s

\* What DownloadNextChunk asks for is not empty, ends within the snapshot, and
\* is smaller than a chunk only at its end: what both sides check.
LEMMA NextChunkProperties ==
    ASSUME NEW n \in Nat, NEW t \in Nat, n < t
    PROVE  LET p == NextChunk(n, t) IN
           /\ p \in ClientPacket
           /\ p.type = "next_chunk"
           /\ p.offset = n
           /\ p.size \in Nat \ {0}
           /\ n + p.size <= t
           /\ p.size = ChunkSize \/ n + p.size = t
BY ChunkAssumption DEF NextChunk, ClientPacket

\* No snapshot that has a byte is taken for none.
LEMMA DataIsNotNone ==
    ASSUME NEW n \in Nat, NEW s \in Seq(Byte), Len(s) > 0
    PROVE  [next |-> n, snapshot |-> s] # NoData
<1>1. s # <<>>
    BY EmptySeq
<1> QED BY <1>1 DEF NoData

-----------------------------------------------------------------------------
(* The clients a step is not about *)

\* What holds of a client depends on its own variables only.
LEMMA Frame ==
    ASSUME NEW c \in Clients, ClientInv(c),
           phase'[c] = phase[c], total'[c] = total[c], downloaded'[c] = downloaded[c],
           buffer'[c] = buffer[c], data'[c] = data[c],
           to_server'[c] = to_server[c], to_client'[c] = to_client[c]
    PROVE  ClientInv(c)'
BY DEF ClientInv, Idle, Nothing, Downloading, Requested, Announced, Asked, Brought, HasPart,
       HasPrefix, Complete

\* So a step about one client preserves the invariant if it does for this client.
LEMMA OneClient ==
    ASSUME DownloadInv, NEW c \in Clients, ClientInv(c)',
           \A d \in Clients \ {c} :
              /\ phase'[d] = phase[d] /\ total'[d] = total[d] /\ downloaded'[d] = downloaded[d]
              /\ buffer'[d] = buffer[d] /\ data'[d] = data[d]
              /\ to_server'[d] = to_server[d] /\ to_client'[d] = to_client[d]
    PROVE  DownloadInv'
<1>1. ASSUME NEW d \in Clients, d # c PROVE ClientInv(d)'
    BY <1>1, Frame DEF DownloadInv
<1> QED BY <1>1 DEF DownloadInv

-----------------------------------------------------------------------------
(* Where a client is when a packet is on its way *)

\* A request for a download is ahead of everything.
LEMMA DownloadIsRequested ==
    ASSUME IInv, NEW c \in Clients, to_server[c] # <<>>, Head(to_server[c]).type = "download"
    PROVE  phase[c] = "downloading" /\ Requested(c)
<1>1. ClientInv(c) /\ to_server[c] # <<>> /\ total[c] \in Nat /\ downloaded[c] \in Nat
    BY DEF IInv, DownloadInv, TypeOK
<1>2. phase[c] = "downloading"
    BY <1>1 DEF IInv, TypeOK, ClientInv, Idle
<1>3. Downloading(c)
    BY <1>1, <1>2 DEF ClientInv
<1>4. \A v \in Versions : ~Asked(c, v)
    BY DEF Asked, NextChunk
<1> QED BY <1>1, <1>2, <1>3, <1>4 DEF Downloading, Announced, Brought

\* Whoever asks for a chunk has the ones before it, and the server knows.
LEMMA ChunkIsRequested ==
    ASSUME IInv, NEW c \in Clients, to_server[c] # <<>>, Head(to_server[c]).type = "next_chunk"
    PROVE  phase[c] = "downloading" /\ \E v \in Versions : Asked(c, v)
<1>1. ClientInv(c)
    BY DEF IInv, DownloadInv
<1>2. phase[c] = "downloading"
    BY <1>1 DEF IInv, TypeOK, ClientInv, Idle
<1>3. Downloading(c)
    BY <1>1, <1>2 DEF ClientInv
<1>4. ~Requested(c)
    BY DEF Requested
<1> QED BY <1>2, <1>3, <1>4 DEF Downloading, Announced, Brought

\* The first packet a client gets is the size of its snapshot.
LEMMA SizeComes ==
    ASSUME IInv, NEW c \in Clients, phase[c] = "downloading", to_client[c] # <<>>,
           Head(to_client[c]).type = "download"
    PROVE  \E v \in Versions : Announced(c, v)
<1>1. Downloading(c)
    BY DEF IInv, DownloadInv, ClientInv
<1>2. \A v \in Versions : ~Brought(c, v)
    BY DEF Brought, NextChunk
<1> QED BY <1>1, <1>2 DEF Downloading, Requested, Asked

\* Any other packet is the chunk that follows on from what the client has.
LEMMA ChunkComes ==
    ASSUME IInv, NEW c \in Clients, phase[c] = "downloading", to_client[c] # <<>>,
           Head(to_client[c]).type = "next_chunk"
    PROVE  \E v \in Versions : Brought(c, v)
<1>1. Downloading(c)
    BY DEF IInv, DownloadInv, ClientInv
<1>2. \A v \in Versions : ~Announced(c, v)
    BY DEF Announced
<1> QED BY <1>1, <1>2 DEF Downloading, Requested, Asked

-----------------------------------------------------------------------------
(* Client *)

LEMMA RequestDownloadStep ==
    ASSUME IInv, NEW c \in Clients, RequestDownload(c)
    PROVE  IInv'
<1> USE DEF RequestDownload
<1>1. TypeOK /\ DownloadInv /\ phase[c] = "new" /\ Idle(c) /\ Nothing(c)
    BY DEF IInv, DownloadInv, ClientInv
<1>2. to_server'[c] = <<[type |-> "download"]>>
    BY <1>1 DEF TypeOK, Idle
<1>3. TypeOK'
    <2>1. [type |-> "download"] \in ClientPacket
        BY DEF ClientPacket
    <2>2. to_server' = [to_server EXCEPT ![c] = <<[type |-> "download"]>>]
        BY <1>1 DEF TypeOK, Idle
    <2> QED BY <1>1, <2>1, <2>2 DEF TypeOK
<1>4. ClientInv(c)'
    BY <1>1, <1>2 DEF TypeOK, ClientInv, Downloading, Requested, Idle, Nothing
<1>5. DownloadInv'
    BY <1>1, <1>4, OneClient DEF TypeOK
<1> QED BY <1>3, <1>5 DEF IInv

LEMMA ReceiveDownloadResponseStep ==
    ASSUME IInv, NEW c \in Clients, ReceiveDownloadResponse(c)
    PROVE  IInv'
<1> USE DEF ReceiveDownloadResponse
<1>1. TypeOK /\ DownloadInv /\ phase[c] = "downloading"
    BY DEF IInv
<1>2. PICK v \in Versions : Announced(c, v)
    BY SizeComes
<1>3. Sizes[v] \in Nat /\ Snapshot(v) \in Seq(Byte) /\ Len(Snapshot(v)) = Sizes[v]
    BY SnapshotProperties
<1>4. /\ Head(to_client[c]).num = Sizes[v]
      /\ to_client'[c] = <<>>
      /\ to_server[c] = <<>>
      /\ downloaded[c] = 0 /\ HasPrefix(c, v) /\ data[c] = NewDownloadData(v)
    BY <1>1, <1>2 DEF Announced, TypeOK
<1>5. CASE Sizes[v] = 0
    <2>1. phase'[c] = "nothing" /\ to_server' = to_server
        BY <1>1, <1>4, <1>5 DEF PhaseWithoutSnapshot, TypeOK
    <2>2. TypeOK'
        <3>1. to_client' = [to_client EXCEPT ![c] = <<>>] /\ total' = total
            BY <1>1, <1>4, <1>5 DEF TypeOK
        <3>2. phase' = [phase EXCEPT ![c] = "nothing"]
            BY <1>4, <1>5 DEF PhaseWithoutSnapshot
        <3> QED BY <1>1, <2>1, <3>1, <3>2 DEF TypeOK
    <2>3. ClientInv(c)'
        BY <1>4, <2>1 DEF ClientInv, Idle
    <2>4. DownloadInv'
        BY <1>1, <1>4, <1>5, <2>3, OneClient DEF TypeOK
    <2> QED BY <2>2, <2>4 DEF IInv
<1>6. CASE Sizes[v] # 0
    <2> DEFINE p == NextChunk(0, Sizes[v])
    <2>1. p \in ClientPacket
        BY <1>3, <1>6, NextChunkProperties
    <2>2. to_server' = [to_server EXCEPT ![c] = <<p>>]
        BY <1>1, <1>4, <1>6 DEF TypeOK
    <2>3. total' = [total EXCEPT ![c] = Sizes[v]] /\ phase' = phase
        BY <1>4, <1>6
    <2>4. TypeOK'
        BY <1>1, <1>3, <1>4, <2>1, <2>2, <2>3 DEF TypeOK
    <2>5. Asked(c, v)'
        <3>1. to_server'[c] = <<p>> /\ total'[c] = Sizes[v]
            BY <1>1, <2>2, <2>3 DEF TypeOK
        <3>2. HasPart(c, v)'
            BY <1>3, <1>4, <1>6, <3>1 DEF HasPart, HasPrefix
        <3> QED BY <1>4, <3>1, <3>2 DEF Asked, NewDownloadData
    <2>6. ClientInv(c)'
        BY <1>1, <2>3, <2>5 DEF ClientInv, Downloading
    <2>7. DownloadInv'
        BY <1>1, <2>2, <2>3, <2>6, OneClient DEF TypeOK
    <2> QED BY <2>4, <2>7 DEF IInv
<1> QED BY <1>5, <1>6

LEMMA ReceiveChunkStep ==
    ASSUME IInv, NEW c \in Clients, ReceiveChunk(c)
    PROVE  IInv'
<1> DEFINE n == downloaded[c]
           t == total[c]
           size == NextChunk(n, t).size
           end == n + size
           p == Head(to_client[c])
<1>1. /\ TypeOK /\ DownloadInv
      /\ phase[c] = "downloading"
      /\ to_client' = [to_client EXCEPT ![c] = Tail(@)]
      /\ UNCHANGED <<world, data, total>>
    BY DEF IInv, ReceiveChunk
<1>2. PICK v \in Versions : Brought(c, v)
    BY ChunkComes DEF ReceiveChunk
<1>3. Sizes[v] \in Nat /\ Snapshot(v) \in Seq(Byte) /\ Len(Snapshot(v)) = Sizes[v]
    BY SnapshotProperties
<1>4. /\ n \in Nat /\ t = Sizes[v] /\ n < t /\ n = Len(buffer[c])
      /\ buffer[c] = SubSeq(Snapshot(v), 1, n)
    BY <1>1, <1>2 DEF Brought, HasPart, HasPrefix, TypeOK
<1>5. /\ NextChunk(n, t).offset = n
      /\ size \in Nat \ {0}
      /\ end <= t
      /\ size = ChunkSize \/ end = t
    BY <1>3, <1>4, NextChunkProperties
<1>6. /\ to_client[c] = <<[type |-> "next_chunk", offset |-> n, size |-> size,
                           str |-> SubSeq(Snapshot(v), n + 1, end)]>>
      /\ to_server[c] = <<>>
      /\ data[c] = IF end < Sizes[v] THEN [next |-> end, snapshot |-> Snapshot(v)] ELSE NoData
    BY <1>2, <1>5 DEF Brought
<1>7. /\ p.offset = n /\ p.size = size /\ p.str = SubSeq(Snapshot(v), n + 1, end)
    BY <1>6
<1>8. to_client' = [to_client EXCEPT ![c] = <<>>]
    BY <1>1, <1>6
<1>9. to_client' \in [Clients -> Seq(ServerPacket)] /\ to_client'[c] = <<>>
    <2>1. to_client \in [Clients -> Seq(ServerPacket)]
        BY <1>1 DEF TypeOK
    <2>2. <<>> \in Seq(ServerPacket)
        BY EmptySeq
    <2> QED BY <1>8, <2>1, <2>2
<1> HIDE DEF size, p
<1>10. end \in Nat /\ n < end /\ end <= Sizes[v]
    BY <1>4, <1>5
<1>11. ChunkFits(c, p)
    BY <1>4, <1>5, <1>7 DEF ChunkFits
<1>12. /\ buffer' = [buffer EXCEPT ![c] = @ \o p.str]
       /\ IF end >= t
          THEN /\ phase' = [phase EXCEPT ![c] = "complete"]
               /\ UNCHANGED <<downloaded, to_server>>
          ELSE /\ downloaded' = [downloaded EXCEPT ![c] = end]
               /\ to_server' = [to_server EXCEPT ![c] = Append(@, NextChunk(end, t))]
               /\ UNCHANGED phase
    BY <1>7, <1>11 DEF ReceiveChunk, IsLastChunk, p
<1> HIDE DEF n, t, end
<1>13. /\ buffer[c] \o p.str = SubSeq(Snapshot(v), 1, end)
       /\ SubSeq(Snapshot(v), 1, end) \in Seq(Byte)
       /\ Len(SubSeq(Snapshot(v), 1, end)) = end
       /\ SubSeq(Snapshot(v), 1, Sizes[v]) = Snapshot(v)
    <2>1. n \in Nat /\ end \in Nat /\ n <= end /\ end <= Sizes[v]
        BY <1>4, <1>10
    <2>2. /\ SubSeq(Snapshot(v), 1, n) \o SubSeq(Snapshot(v), n + 1, end)
               = SubSeq(Snapshot(v), 1, end)
          /\ SubSeq(Snapshot(v), 1, end) \in Seq(Byte)
          /\ Len(SubSeq(Snapshot(v), 1, end)) = end
          /\ SubSeq(Snapshot(v), 1, Sizes[v]) = Snapshot(v)
        BY <2>1, SnapshotParts
    <2> QED BY <1>4, <1>7, <2>2
<1>14. buffer' = [buffer EXCEPT ![c] = SubSeq(Snapshot(v), 1, end)]
    BY <1>12, <1>13
<1>15. CASE end = Sizes[v]
    <2>1. phase' = [phase EXCEPT ![c] = "complete"] /\ UNCHANGED <<downloaded, to_server>>
        BY <1>4, <1>10, <1>12, <1>15
    <2>2. TypeOK'
        <3>1. buffer' \in [Clients -> Seq(Byte)]
            BY <1>1, <1>13, <1>14 DEF TypeOK
        <3>2. phase' \in [Clients -> {"new", "downloading", "complete", "nothing", "refused", "gone"}]
            BY <1>1, <2>1 DEF TypeOK
        <3> QED BY <1>1, <1>9, <2>1, <3>1, <3>2 DEF TypeOK
    <2>3. ClientInv(c)'
        <3>1. Complete(c)'
            BY SMTT(20), <1>1, <1>6, <1>13, <1>14, <1>15 DEF Complete, TypeOK
        <3> QED BY <1>1, <1>6, <1>9, <2>1, <3>1 DEF ClientInv, Idle, TypeOK
    <2>4. DownloadInv'
        BY <1>1, <1>8, <1>14, <2>1, <2>3, OneClient DEF TypeOK
    <2> QED BY <2>2, <2>4 DEF IInv
<1>16. CASE end < Sizes[v]
    <2>1. /\ phase' = phase
          /\ downloaded' = [downloaded EXCEPT ![c] = end]
          /\ to_server' = [to_server EXCEPT ![c] = <<NextChunk(end, t)>>]
        BY <1>3, <1>4, <1>6, <1>10, <1>12, <1>16
    <2>2. NextChunk(end, t) \in ClientPacket
        BY <1>3, <1>4, <1>10, <1>16, NextChunkProperties
    <2>3. TypeOK'
        <3>1. buffer' \in [Clients -> Seq(Byte)]
            BY <1>1, <1>13, <1>14 DEF TypeOK
        <3>2. downloaded' \in [Clients -> Nat] /\ to_server' \in [Clients -> Seq(ClientPacket)]
            BY <1>1, <1>10, <2>1, <2>2 DEF TypeOK
        <3> QED BY <1>1, <1>9, <2>1, <3>1, <3>2 DEF TypeOK
    <2>4. Asked(c, v)'
        <3>1. /\ downloaded'[c] = end /\ total'[c] = t
              /\ buffer'[c] = SubSeq(Snapshot(v), 1, end)
              /\ to_server'[c] = <<NextChunk(end, t)>> /\ to_client'[c] = <<>>
              /\ data'[c] = data[c]
            BY <1>1, <1>9, <1>14, <2>1 DEF TypeOK, t
        <3>2. HasPart(c, v)'
            BY <1>4, <1>13, <1>16, <3>1 DEF HasPart, HasPrefix
        <3> QED BY <1>6, <1>16, <3>1, <3>2 DEF Asked
    <2>5. ClientInv(c)'
        BY <1>1, <2>1, <2>4 DEF ClientInv, Downloading
    <2>6. DownloadInv'
        BY <1>1, <1>8, <1>14, <2>1, <2>5, OneClient DEF TypeOK
    <2> QED BY <2>3, <2>6 DEF IInv
<1> QED BY <1>3, <1>10, <1>15, <1>16

-----------------------------------------------------------------------------
(* Server *)

LEMMA ReceiveDownloadRequestStep ==
    ASSUME IInv, NEW c \in Clients, ReceiveDownloadRequest(c)
    PROVE  IInv'
<1>1. PICK v \in Versions : v = world
    BY DEF IInv, TypeOK
<1> DEFINE p == [type |-> "download", num |-> Sizes[v]]
<1>2. /\ TypeOK /\ DownloadInv
      /\ to_server' = [to_server EXCEPT ![c] = Tail(@)]
      /\ to_client' = [to_client EXCEPT ![c] = Append(@, p)]
      /\ data' = [data EXCEPT ![c] = NewDownloadData(v)]
      /\ UNCHANGED <<world, clientVars>>
    BY <1>1 DEF IInv, ReceiveDownloadRequest
<1>3. phase[c] = "downloading" /\ Requested(c)
    BY DownloadIsRequested DEF ReceiveDownloadRequest
<1>4. Sizes[v] \in Nat /\ Snapshot(v) \in Seq(Byte) /\ Len(Snapshot(v)) = Sizes[v]
    BY SnapshotProperties
<1>5. to_server' = [to_server EXCEPT ![c] = <<>>] /\ to_client' = [to_client EXCEPT ![c] = <<p>>]
    BY <1>2, <1>3 DEF Requested
<1>6. p \in ServerPacket /\ NewDownloadData(v) \in DownloadData
    BY <1>4 DEF ServerPacket, NewDownloadData, DownloadData
<1> HIDE DEF p
<1>7. TypeOK'
    <2>1. to_server' \in [Clients -> Seq(ClientPacket)]
        <3>1. to_server \in [Clients -> Seq(ClientPacket)]
            BY <1>2 DEF TypeOK
        <3>2. <<>> \in Seq(ClientPacket)
            BY EmptySeq
        <3> QED BY <1>5, <3>1, <3>2
    <2>2. to_client' \in [Clients -> Seq(ServerPacket)]
        BY <1>2, <1>5, <1>6 DEF TypeOK
    <2>3. data' \in [Clients -> DownloadData]
        BY <1>2, <1>6 DEF TypeOK
    <2> QED BY <1>2, <2>1, <2>2, <2>3 DEF TypeOK, clientVars
<1>8. Announced(c, v)'
    <2>1. /\ to_server'[c] = <<>> /\ to_client'[c] = <<p>> /\ data'[c] = NewDownloadData(v)
          /\ downloaded'[c] = 0 /\ buffer'[c] = <<>>
        BY <1>2, <1>3, <1>5 DEF TypeOK, clientVars, Requested, Nothing
    <2>2. SubSeq(Snapshot(v), 1, 0) = <<>> /\ Len(<<>>) = 0
        BY SubSeqEmpty, EmptySeq
    <2> QED BY <2>1, <2>2 DEF Announced, HasPrefix, p
<1>9. ClientInv(c)'
    BY <1>2, <1>3, <1>8 DEF ClientInv, Downloading, clientVars
<1>10. DownloadInv'
    BY <1>2, <1>5, <1>9, OneClient DEF TypeOK, clientVars
<1> QED BY <1>7, <1>10 DEF IInv

LEMMA ReceiveChunkRequestStep ==
    ASSUME IInv, NEW c \in Clients, ReceiveChunkRequest(c)
    PROVE  IInv'
<1> DEFINE n == downloaded[c]
           t == total[c]
           size == NextChunk(n, t).size
           end == n + size
           q == Head(to_server[c])
<1>1. /\ TypeOK /\ DownloadInv
      /\ to_server' = [to_server EXCEPT ![c] = Tail(@)]
      /\ UNCHANGED <<world, total, downloaded, buffer>>
    BY DEF IInv, ReceiveChunkRequest
<1>2. phase[c] = "downloading" /\ \E v \in Versions : Asked(c, v)
    BY ChunkIsRequested DEF ReceiveChunkRequest
<1>3. PICK v \in Versions : Asked(c, v)
    BY <1>2
<1>4. Sizes[v] \in Nat /\ Snapshot(v) \in Seq(Byte) /\ Len(Snapshot(v)) = Sizes[v]
    BY SnapshotProperties
<1>5. /\ n \in Nat /\ t = Sizes[v] /\ n < t
      /\ to_server[c] = <<NextChunk(n, t)>> /\ to_client[c] = <<>>
      /\ data[c] = [next |-> n, snapshot |-> Snapshot(v)]
    BY <1>1, <1>3 DEF Asked, HasPart, TypeOK
<1>6. /\ NextChunk(n, t).offset = n
      /\ size \in Nat \ {0}
      /\ end <= t
      /\ size = ChunkSize \/ end = t
    BY <1>4, <1>5, NextChunkProperties
<1>7. q = NextChunk(n, t) /\ q.offset = n /\ q.size = size
    BY <1>5, <1>6
<1> HIDE DEF size, q
<1>8. end \in Nat /\ n < end /\ end <= Sizes[v]
    BY <1>5, <1>6
<1>9. ChunkAllowed(c, q)
    BY <1>4, <1>5, <1>6, <1>7, DataIsNotNone DEF ChunkAllowed
<1> DEFINE str == SubSeq(Snapshot(v), n + 1, end)
           p == [type |-> "next_chunk", offset |-> n, size |-> size, str |-> str]
           rest == IF end < Sizes[v] THEN [next |-> end, snapshot |-> Snapshot(v)] ELSE NoData
<1>10. /\ to_client' = [to_client EXCEPT ![c] = Append(@, p)]
       /\ data' = [data EXCEPT ![c] = rest]
       /\ phase' = phase
    BY <1>4, <1>5, <1>7, <1>9 DEF ReceiveChunkRequest, ChunkOf, DataAfter, q
<1>11. to_client' = [to_client EXCEPT ![c] = <<p>>] /\ to_server' = [to_server EXCEPT ![c] = <<>>]
    BY <1>1, <1>5, <1>10
<1> HIDE DEF n, t, end
<1>12. str \in Seq(Byte)
    BY <1>5, <1>8, SnapshotParts
<1> HIDE DEF str
<1>13. p \in ServerPacket
    BY <1>5, <1>6, <1>12 DEF ServerPacket
<1>14. rest \in DownloadData
    BY <1>4, <1>8, EmptySeq DEF DownloadData, NoData
<1> HIDE DEF p, rest
<1>15. TypeOK'
    <2>1. to_server' \in [Clients -> Seq(ClientPacket)]
        <3>1. to_server \in [Clients -> Seq(ClientPacket)]
            BY <1>1 DEF TypeOK
        <3>2. <<>> \in Seq(ClientPacket)
            BY EmptySeq
        <3> QED BY <1>11, <3>1, <3>2
    <2>2. to_client' \in [Clients -> Seq(ServerPacket)]
        BY <1>1, <1>11, <1>13 DEF TypeOK
    <2>3. data' \in [Clients -> DownloadData]
        BY <1>1, <1>10, <1>14 DEF TypeOK
    <2> QED BY <1>1, <1>10, <2>1, <2>2, <2>3 DEF TypeOK
<1>16. Brought(c, v)'
    <2>1. /\ to_server'[c] = <<>> /\ to_client'[c] = <<p>> /\ data'[c] = rest
          /\ downloaded'[c] = n /\ total'[c] = t /\ buffer'[c] = buffer[c]
        BY <1>1, <1>10, <1>11 DEF TypeOK, n, t
    <2>2. HasPart(c, v)'
        BY <1>3, <2>1 DEF Asked, HasPart, HasPrefix, n, t
    <2>3. NextChunk(n, t).offset + NextChunk(n, t).size = end
        BY <1>6 DEF end, size
    <2> QED BY <1>6, <2>1, <2>2, <2>3 DEF Brought, p, str, rest, size
<1>17. ClientInv(c)'
    BY <1>2, <1>10, <1>16 DEF ClientInv, Downloading
<1>18. DownloadInv'
    BY <1>1, <1>10, <1>11, <1>17, OneClient DEF TypeOK
<1> QED BY <1>15, <1>18 DEF IInv

LEMMA LoseClientStep ==
    ASSUME IInv, NEW c \in Clients, LoseClient(c)
    PROVE  IInv'
<1> USE DEF LoseClient
<1>1. TypeOK /\ DownloadInv
    BY DEF IInv
<1>2. TypeOK'
    BY <1>1, EmptySeq DEF TypeOK
<1>3. ClientInv(c)'
    BY <1>1 DEF TypeOK, ClientInv, Idle
<1>4. DownloadInv'
    BY <1>1, <1>3, OneClient DEF TypeOK
<1> QED BY <1>2, <1>4 DEF IInv

LEMMA HandleDisconnectStep ==
    ASSUME IInv, NEW c \in Clients, HandleDisconnect(c)
    PROVE  IInv'
<1> USE DEF HandleDisconnect, clientVars, netVars
<1>1. TypeOK /\ DownloadInv
    BY DEF IInv
<1>2. TypeOK'
    <2>1. NoData \in DownloadData
        BY EmptySeq DEF NoData, DownloadData
    <2> QED BY <1>1, <2>1 DEF TypeOK
<1>3. ClientInv(c)'
    BY <1>1 DEF DownloadInv, ClientInv, Idle
<1>4. DownloadInv'
    BY <1>1, <1>3, OneClient DEF TypeOK
<1> QED BY <1>2, <1>4 DEF IInv

LEMMA ChangeWorldStep ==
    ASSUME IInv, ChangeWorld
    PROVE  IInv'
<1> USE DEF ChangeWorld, clientVars, netVars
<1>1. TypeOK'
    BY SizesAssumption DEF IInv, TypeOK, Versions
<1>2. DownloadInv'
    BY Frame DEF IInv, DownloadInv
<1> QED BY <1>1, <1>2 DEF IInv

-----------------------------------------------------------------------------
(* Theorems *)

LEMMA InitialInv == Init => IInv
<1> SUFFICES ASSUME Init PROVE IInv
    OBVIOUS
<1>1. TypeOK
    <2>1. NoData \in DownloadData
        BY EmptySeq DEF NoData, DownloadData
    <2> QED BY <2>1, EmptySeq, SizesAssumption DEF Init, TypeOK, Versions
<1>2. DownloadInv
    BY DEF Init, DownloadInv, ClientInv, Idle, Nothing
<1> QED BY <1>1, <1>2 DEF IInv

LEMMA InductiveInv == Spec => []IInv
<1>1. ASSUME IInv, [Next]_vars PROVE IInv'
    <2> USE <1>1
    <2>1. CASE ChangeWorld
        BY <2>1, ChangeWorldStep
    <2>2. ASSUME NEW c \in Clients, RequestDownload(c) PROVE IInv'
        BY <2>2, RequestDownloadStep
    <2>3. ASSUME NEW c \in Clients, ClientReceive(c) PROVE IInv'
        BY <2>3, ReceiveDownloadResponseStep, ReceiveChunkStep DEF ClientReceive
    <2>4. ASSUME NEW c \in Clients, ServerReceive(c) PROVE IInv'
        BY <2>4, ReceiveDownloadRequestStep, ReceiveChunkRequestStep, HandleDisconnectStep
        DEF ServerReceive
    <2>5. ASSUME NEW c \in Clients, LoseClient(c) PROVE IInv'
        BY <2>5, LoseClientStep
    <2>6. CASE UNCHANGED vars
        <3>1. TypeOK'
            BY <2>6 DEF IInv, TypeOK, vars, clientVars, netVars
        <3>2. DownloadInv'
            BY <2>6, Frame DEF IInv, DownloadInv, vars, clientVars, netVars
        <3> QED BY <3>1, <3>2 DEF IInv
    <2> QED BY <1>1, <2>1, <2>2, <2>3, <2>4, <2>5, <2>6 DEF Next
<1> QED BY InitialInv, <1>1, PTL DEF Spec

\* Every variable keeps its type, and no empty chunk is asked for (Client.cpp:373).
THEOREM TypeCorrect == Spec => []TypeOK
<1>1. IInv => TypeOK
    BY DEF IInv
<1> QED BY <1>1, InductiveInv, PTL

\* What is on its way to and from a client follows on from what it has.
THEOREM DownloadFollowsOn == Spec => []DownloadInv
<1>1. IInv => DownloadInv
    BY DEF IInv
<1> QED BY <1>1, InductiveInv, PTL

\* A client that completes the download has one snapshot, whole, of a version of
\* the world the host has had, although the host played on.
THEOREM SnapshotArrivesWhole == Spec => []CompleteIsOneSnapshot
<1>1. IInv => CompleteIsOneSnapshot
    BY DEF IInv, DownloadInv, ClientInv, Complete, CompleteIsOneSnapshot
<1> QED BY <1>1, InductiveInv, PTL

\* The checks of offset and size in Server and Client never fail.
THEOREM NoRefusal == Spec => []NobodyIsRefused
<1>1. IInv => NobodyIsRefused
    BY DEF IInv, DownloadInv, ClientInv, NobodyIsRefused
<1> QED BY <1>1, InductiveInv, PTL

\* The host keeps no snapshot for a client that has all of it.
THEOREM NoSnapshotKept == Spec => []SnapshotIsFreed
<1>1. IInv => SnapshotIsFreed
    BY DEF IInv, DownloadInv, ClientInv, Complete, SnapshotIsFreed
<1> QED BY <1>1, InductiveInv, PTL

=============================================================================
