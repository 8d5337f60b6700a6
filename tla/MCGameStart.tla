----------------------------- MODULE MCGameStart -----------------------------
(***************************************************************************)
(* GameStart for TLC: three games in a row, so that what one leaves behind *)
(* can meet the next, and the second has both a past and a future.         *)
(***************************************************************************)
EXTENDS GameStart
=============================================================================
