----------------------------- MODULE MCRewards -----------------------------
(***************************************************************************)
(* Two candidate blocks, three shares of two miners of which two have the  *)
(* same time, pages of one share.                                           *)
(***************************************************************************)
EXTENDS Rewards, TLC

CONSTANTS b1, b2, p1, p2

MCBlocks == {b1, b2}
MCProcessors == {p1, p2}
MCOneProcessor == {p1}
MCMiners == {1, 2}
MCBlockInfo == (b1 :> [height |-> 1, finder |-> 1, reward |-> 7, target |-> 2, created |-> 2])
            @@ (b2 :> [height |-> 2, finder |-> 2, reward |-> 5, target |-> 4, created |-> 3])
MCShareTable == << [miner |-> 1, diff |-> 1, created |-> 1],
                   [miner |-> 2, diff |-> 1, created |-> 2],
                   [miner |-> 1, diff |-> 2, created |-> 2] >>
=============================================================================
