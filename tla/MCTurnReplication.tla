------------------------- MODULE MCTurnReplication -------------------------
(***************************************************************************)
(* TurnAgreement for TLC: the clients are interchangeable.                 *)
(***************************************************************************)
EXTENDS TurnAgreement, TLC

ClientSymmetry == Permutations(Clients)
=============================================================================
