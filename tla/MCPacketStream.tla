--------------------------- MODULE MCPacketStream ---------------------------
(***************************************************************************)
(* PacketStream for TLC.                                                   *)
(***************************************************************************)
EXTENDS PacketStream

MCMaxSent == [client |-> 2, server |-> 1]
=============================================================================
