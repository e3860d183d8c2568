--------------------------- MODULE MCPayoutsLive ---------------------------
(* Payouts under its fairness: two credits of a miner who is paid only when   *)
(* both are in, one of a miner without a valid address, and two processors,   *)
(* so that two faults can strike the same money.                              *)
EXTENDS Payouts

CONSTANTS c1, c2, c3, m1, m2, p1, p2

MCCredits == {c1, c2, c3}
MCMiners == {m1, m2}
MCMinerOf == [c \in MCCredits |-> IF c = c3 THEN m2 ELSE m1]
MCValidMiners == {m1}
MCProcs == {p1, p2}
=============================================================================
