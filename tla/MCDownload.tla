----------------------------- MODULE MCDownload -----------------------------
(***************************************************************************)
(* Download for TLC: a snapshot of several whole chunks, one that ends in  *)
(* a smaller chunk, one smaller than a chunk, and none.                    *)
(***************************************************************************)
EXTENDS Download

MCSizes == <<4, 5, 1, 0>>
=============================================================================
