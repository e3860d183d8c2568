---------------------------- MODULE RewardShares ----------------------------
(***************************************************************************)
(* How a block reward is split (internal/rewards/rewards.go).  Amounts are *)
(* whole satoshis.  The code multiplies in float64 and truncates; below    *)
(* 2^53 satoshis that is the division of whole numbers used here, up to a  *)
(* satoshi that the distribution of the remainder gives back.              *)
(*                                                                         *)
(* work is a function from miners to the sum of their shares' difficulty,  *)
(* credits a function from miners to satoshis; a miner without an entry in *)
(* the code has 0 here.  Miners are numbers, for their alphabetical order. *)
(***************************************************************************)
EXTENDS Naturals, FiniteSetsExt

Total(f) == SumFunction(f)

Fee(reward, percent) ==
  IF percent >= 100 THEN reward ELSE (reward * percent) \div 100

Distributable(reward, percent) == reward - Fee(reward, percent)

\* The place of m in the order of distribute: difficulty down, then name up.
Rank(work, m) ==
  Cardinality({o \in DOMAIN work : \/ work[o] > work[m]
                                   \/ work[o] = work[m] /\ o < m})

Floors(amount, work) == [m \in DOMAIN work |-> (amount * work[m]) \div Total(work)]

\* Mutant: the remainder is kept.
DistributeFloors(amount, work) ==
  IF Total(work) = 0 THEN [m \in DOMAIN work |-> 0] ELSE Floors(amount, work)

\* distribute: floors, and the satoshis that remain (fewer than there are
\* contributors) one by one to the largest.
Distribute(amount, work) ==
  IF Total(work) = 0 THEN [m \in DOMAIN work |-> 0]
  ELSE LET floors == Floors(amount, work)
       IN  [m \in DOMAIN work |->
              IF Rank(work, m) < amount - Total(floors) THEN floors[m] + 1 ELSE floors[m]]

Solo(amount, miners, finder) == [m \in miners |-> IF m = finder THEN amount ELSE 0]

\* Prop and PPLNS pay the finder when no share was counted.
Credits(scheme, amount, work, finder) ==
  IF scheme = "solo" \/ Total(work) = 0 THEN Solo(amount, DOMAIN work, finder)
  ELSE Distribute(amount, work)
=============================================================================
