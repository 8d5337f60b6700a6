---------------------------- MODULE PacketQueue ----------------------------
(***************************************************************************)
(* What a connection of GLSMAC promises in one direction: the packets that *)
(* are sent arrive whole, in order, none lost and none twice, as long as   *)
(* the receiving end is open; an end that was closed stays closed.         *)
(***************************************************************************)
EXTENDS Naturals, Sequences

CONSTANT Packets

VARIABLES sent, received, open
vars == <<sent, received, open>>

Init ==
    /\ sent = <<>>
    /\ received = <<>>
    /\ open = TRUE

Send(p) ==
    /\ sent' = Append(sent, p)
    /\ UNCHANGED <<received, open>>

Receive ==
    /\ open
    /\ Len(received) < Len(sent)
    /\ received' = Append(received, sent[Len(received) + 1])
    /\ UNCHANGED <<sent, open>>

Close ==
    /\ open
    /\ open' = FALSE
    /\ UNCHANGED <<sent, received>>

Next == Receive \/ Close \/ \E p \in Packets : Send(p)

Spec == Init /\ [][Next]_vars /\ WF_vars(Receive)
=============================================================================
