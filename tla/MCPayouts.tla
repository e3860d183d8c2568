----------------------------- MODULE MCPayouts -----------------------------
(* Payouts on a small instance: a credit of each of two miners, and two     *)
(* processors of the same pool.                                             *)
EXTENDS Payouts

CONSTANTS c1, c2, m1, m2, p1, p2

MCCredits == {c1, c2}
MCMiners == {m1, m2}
MCMinerOf == [c \in MCCredits |-> IF c = c1 THEN m1 ELSE m2]
MCProcs == {p1, p2}
=============================================================================
