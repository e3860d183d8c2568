--------------------------- MODULE PaymentLedger ---------------------------
(***************************************************************************)
(* What the payout service promises, without its processors, batches,      *)
(* database transactions or wallet calls: every credit a miner has earned  *)
(* is owed, then held for a transaction, then paid by that one transaction *)
(* and settled.  A held credit may be released (owed again) only while no  *)
(* transaction has paid it, and a credit is never paid by two.             *)
(*                                                                         *)
(* Payouts implements this specification (Payouts!LedgerSpec).             *)
(***************************************************************************)
CONSTANTS
  Credits,        \* block-reward credits written by the reward processor
  Transactions    \* wallet transactions

VARIABLES
  place,          \* place[c]: where the ledger has the credit
  paidBy          \* paidBy[c]: the transactions that paid it on chain

lvars == <<place, paidBy>>

Places == {"none", "owed", "held", "settled"}

LedgerInit ==
  /\ place = [c \in Credits |-> "none"]
  /\ paidBy = [c \in Credits |-> {}]

\* The credits of S move from one place to another, together.
Move(S, from, to) ==
  /\ \A c \in S : place[c] = from
  /\ place' = [c \in Credits |-> IF c \in S THEN to ELSE place[c]]

Accrue(S) == Move(S, "none", "owed") /\ UNCHANGED paidBy

Hold(S) == Move(S, "owed", "held") /\ UNCHANGED paidBy

Pay(S, t) ==
  /\ \A c \in S : place[c] = "held" /\ paidBy[c] = {}
  /\ paidBy' = [c \in Credits |-> IF c \in S THEN {t} ELSE paidBy[c]]
  /\ UNCHANGED place

Settle(S) ==
  /\ \A c \in S : paidBy[c] # {}
  /\ Move(S, "held", "settled")
  /\ UNCHANGED paidBy

Release(S) ==
  /\ \A c \in S : paidBy[c] = {}
  /\ Move(S, "held", "owed")
  /\ UNCHANGED paidBy

LedgerNext ==
  \E S \in SUBSET Credits :
    \/ Accrue(S)
    \/ Hold(S)
    \/ \E t \in Transactions : Pay(S, t)
    \/ Settle(S)
    \/ Release(S)

Ledger == LedgerInit /\ [][LedgerNext]_lvars
=============================================================================
