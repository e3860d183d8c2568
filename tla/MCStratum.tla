---------------------------- MODULE MCStratum ----------------------------
(* One miner over two connections, three jobs of which two are remembered,  *)
(* and hashes and difficulties on both sides of the network's.              *)
EXTENDS Stratum

CONSTANT m1

MCSessions == {m1}
MCQualities == {1, 2}
MCDiffs == {1, 3}
=============================================================================
