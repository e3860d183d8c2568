--------------------------- MODULE MCShareWriter ---------------------------
(* ShareWriter on three shares and buffers small enough for every one of them *)
(* to overflow.                                                              *)
EXTENDS ShareWriter

MCShares == 1..3
=============================================================================
