---------------------------- MODULE MCMessaging ----------------------------
(* One regional node with an event of each kind, and a spool too small for  *)
(* both.                                                                    *)
EXTENDS Messaging

CONSTANTS s1, b1

MCShares == {s1}
MCBlocks == {b1}
=============================================================================
