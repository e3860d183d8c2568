------------------------------ MODULE Payouts ------------------------------
(***************************************************************************)
(* The payout service: cmd/payoutd's processors (internal/payouts) over    *)
(* the postgres ledger (internal/storage/postgres/payouts.go) and the coin *)
(* daemon's wallet, for one pool.                                          *)
(*                                                                         *)
(* A miner's balance is the bag of block-reward credits it was built from: *)
(* balances[c] is the number of times credit c is still in the balance of  *)
(* its miner, rows[b][c] the number of times the payment row of batch b    *)
(* carries it.  A credit counts one unit, so an amount is the size of a    *)
(* bag; the SQL's "amount - $3" and "amount + EXCLUDED.amount" are         *)
(* differences and sums of bags.                                           *)
(*                                                                         *)
(* Each database transaction is one step with three outcomes: it commits   *)
(* and the caller learns it, it fails without effect, or it commits and    *)
(* the reply is lost.  A wallet call is two: the request reaches the       *)
(* wallet, and its outcome comes back, is lost with the process, or        *)
(* arrives too late.                                                       *)
(***************************************************************************)
EXTENDS Naturals, FiniteSetsExt

CONSTANTS
  Credits,       \* block-reward credits of this pool's miners
  Miners,        \* the miners
  MinerOf,       \* MinerOf[c]: the miner credit c belongs to
  ValidMiners,   \* the miners whose name the coin adapter accepts as address
  MinUnits,      \* ProcessorOptions.MinSats, in credits
  MaxBatches,    \* bound on the batches created
  Procs,         \* payoutd processes of the pool (a restart keeps its name)
  ReplyLoss,     \* may a sendmany that was not refused come back as an error
                 \* to a processor that goes on: HTTP timeout, connection reset,
                 \* undecodable body, empty txid?
  MaxFaults      \* bound on failures of every kind in one behaviour

ASSUME PayoutsAssumption ==
  /\ MinerOf \in [Credits -> Miners]
  /\ MinUnits \in Nat \ {0}
  /\ MaxBatches \in Nat
  /\ ReplyLoss \in BOOLEAN
  /\ MaxFaults \in Nat

\* NewBatchID is a timestamp: batches are numbered in the order they commit.
Batches == 1..MaxBatches

\* The batch of a processor that holds none.
NoBatch == 0

VARIABLES
  credited,      \* balance_changes: credits booked as 'block-reward'
  balances,      \* balances table
  status,        \* payments table: status of the rows of a batch
  rows,          \* payments table: what the rows of a batch carry
  aged,          \* batches whose rows are older than StuckBatches' 5 minutes
  surfaced,      \* batches StuckBatches has reported to the operator
  wallet,        \* the daemon's view of the sendmany of a batch
  txs,           \* transactions the wallet has broadcast for a batch
  pc,            \* where each processor is in Pass
  batch,         \* batchID of the pass in progress
  stopping,      \* the processor's context is cancelled (SIGINT, SIGTERM)
  faults         \* failures so far

dbVars == <<credited, balances, status, rows>>
scanVars == <<aged, surfaced>>
walletVars == <<wallet, txs>>
procVars == <<pc, batch, stopping>>
vars == <<dbVars, scanVars, walletVars, procVars, faults>>

\* The points of a pass, and those at which it holds a batch.
PassPoints == {"idle", "begin", "send", "wait", "mark", "refund"}
AfterBegin == {"send", "wait", "mark", "refund"}
BatchStatus == {"none", "sending", "sent", "failed"}
WalletStates == {"none", "requested", "accepted", "refused"}

NoCredits == [c \in Credits |-> 0]

TypeOK ==
  /\ credited \in SUBSET Credits
  /\ balances \in [Credits -> Nat]
  /\ status \in [Batches -> BatchStatus]
  /\ rows \in [Batches -> [Credits -> Nat]]
  /\ aged \in SUBSET Batches
  /\ surfaced \in SUBSET Batches
  /\ wallet \in [Batches -> WalletStates]
  /\ txs \in [Batches -> Nat]
  /\ pc \in [Procs -> PassPoints]
  /\ batch \in [Procs -> Batches \cup {NoBatch}]
  /\ stopping \in [Procs -> BOOLEAN]
  /\ \A p \in Procs : pc[p] \in AfterBegin <=> batch[p] # NoBatch
  /\ faults \in 0..MaxFaults

Init ==
  /\ credited = {}
  /\ balances = NoCredits
  /\ status = [b \in Batches |-> "none"]
  /\ rows = [b \in Batches |-> NoCredits]
  /\ aged = {}
  /\ surfaced = {}
  /\ wallet = [b \in Batches |-> "none"]
  /\ txs = [b \in Batches |-> 0]
  /\ pc = [p \in Procs |-> "idle"]
  /\ batch = [p \in Procs |-> NoBatch]
  /\ stopping = [p \in Procs |-> FALSE]
  /\ faults = 0

(***************************************************************************)
(* Helpers.                                                                *)
(***************************************************************************)
CreditsOf(m) == {c \in Credits : MinerOf[c] = m}

BalanceOf(m) == MapThenSumSet(LAMBDA c : balances[c], CreditsOf(m))

\* Mutant: amount_sats > minSats.
PayableMinersAbove == {m \in ValidMiners \cap Miners : BalanceOf(m) > MinUnits}

\* SELECT ... WHERE amount_sats >= minSats, less the miners validate rejects.
PayableMiners == {m \in ValidMiners \cap Miners : BalanceOf(m) >= MinUnits}

\* The bag of credits the rows of a new batch would carry.
Payable ==
  [c \in Credits |-> IF MinerOf[c] \in PayableMiners THEN balances[c] ELSE 0]

Fault == faults < MaxFaults /\ faults' = faults + 1

NoFault == UNCHANGED faults

\* The pass of p goes on at point x.
Goto(p, x) == pc' = [pc EXCEPT ![p] = x]

\* Mutant: the batch of the previous pass is still at hand in the next one.
EndPassKeepingBatch(p) ==
  /\ Goto(p, "idle")
  /\ UNCHANGED <<batch, stopping>>

\* Pass returns; Run waits for the next interval.
EndPass(p) ==
  /\ Goto(p, "idle")
  /\ batch' = [batch EXCEPT ![p] = NoBatch]
  /\ UNCHANGED stopping

At(p, x) == pc[p] = x

(***************************************************************************)
(* The reward processor books a block reward: CreditBlockRewards writes    *)
(* the balance_changes row and the balance in one transaction, once.       *)
(***************************************************************************)
CreditReward(c) ==
  /\ c \notin credited
  /\ credited' = credited \cup {c}
  /\ balances' = [balances EXCEPT ![c] = @ + 1]
  /\ UNCHANGED <<status, rows, scanVars, walletVars, procVars, faults>>

(***************************************************************************)
(* Pass, step by step.                                                     *)
(***************************************************************************)

\* Mutant: created > cutoff, so that the batches in flight are reported.
ScanYoung(p) ==
  /\ At(p, "idle")
  /\ ~stopping[p]
  /\ surfaced' = surfaced \cup {b \in Batches \ aged : status[b] = "sending"}
  /\ Goto(p, "begin")
  /\ NoFault
  /\ UNCHANGED <<dbVars, aged, walletVars, batch, stopping>>

\* Mutant: a stuck batch is refunded without asking the operator.
ScanRefunding(p) ==
  LET stuck == {b \in aged : status[b] = "sending"}
  IN  /\ At(p, "idle")
      /\ ~stopping[p]
      /\ balances' = [c \in Credits |->
                        balances[c] + MapThenSumSet(LAMBDA b : rows[b][c], stuck)]
      /\ status' = [b \in Batches |-> IF b \in stuck THEN "failed" ELSE status[b]]
      /\ Goto(p, "begin")
      /\ NoFault
      /\ UNCHANGED <<credited, rows, scanVars, walletVars, batch, stopping>>

\* StuckBatches: every batch still 'sending' after the grace period is logged
\* for the operator, and nothing else is done about it.
ScanStuck(p) ==
  /\ At(p, "idle")
  /\ ~stopping[p]
  /\ surfaced' = surfaced \cup {b \in aged : status[b] = "sending"}
  /\ Goto(p, "begin")
  /\ NoFault
  /\ UNCHANGED <<dbVars, aged, walletVars, batch, stopping>>

\* BeginPayout finds nothing payable and rolls back.
BeginNothing(p) ==
  /\ At(p, "begin")
  /\ ~stopping[p]
  /\ Payable = NoCredits
  /\ EndPass(p)
  /\ NoFault
  /\ UNCHANGED <<dbVars, scanVars, walletVars>>

\* The effect of BeginPayout's transaction: the payable balances are deducted
\* and the 'sending' rows of batch b created together.
Deduct(b) ==
  /\ \A d \in Batches : status[d] = "none" <=> d >= b
  /\ Payable # NoCredits
  /\ rows' = [rows EXCEPT ![b] = Payable]
  /\ balances' = [c \in Credits |-> balances[c] - Payable[c]]
  /\ status' = [status EXCEPT ![b] = "sending"]
  /\ UNCHANGED credited

BeginPayout(p) ==
  /\ At(p, "begin")
  /\ \E b \in Batches :
       /\ Deduct(b)
       /\ \/ /\ ~stopping[p]
             /\ Goto(p, "send")
             /\ batch' = [batch EXCEPT ![p] = b]
             /\ NoFault
             /\ UNCHANGED stopping
          \/ /\ EndPass(p)          \* committed, but the commit's reply is lost
             /\ Fault
  /\ UNCHANGED <<scanVars, walletVars>>

\* SendMany: the request leaves for the wallet, unless the context is already
\* cancelled: then the call returns an error without sending anything.
SendMany(p) ==
  /\ At(p, "send")
  /\ IF stopping[p]
       THEN Goto(p, "refund") /\ UNCHANGED wallet
       ELSE Goto(p, "wait") /\ wallet' = [wallet EXCEPT ![batch[p]] = "requested"]
  /\ NoFault
  /\ UNCHANGED <<dbVars, scanVars, txs, batch, stopping>>

\* The call returns what the wallet answered.
SendReturns(p) ==
  /\ At(p, "wait")
  /\ \/ wallet[batch[p]] = "accepted" /\ Goto(p, "mark")
     \/ wallet[batch[p]] = "refused" /\ Goto(p, "refund")
  /\ NoFault
  /\ UNCHANGED <<dbVars, scanVars, walletVars, batch, stopping>>

\* The call returns an error although the wallet has not refused: the context
\* is cancelled, or (ReplyLoss) the reply did not arrive in time or in shape.
SendAborted(p) ==
  /\ At(p, "wait")
  /\ wallet[batch[p]] # "refused"
  /\ \/ stopping[p] /\ NoFault
     \/ ReplyLoss /\ Fault
  /\ Goto(p, "refund")
  /\ UNCHANGED <<dbVars, scanVars, walletVars, batch, stopping>>

\* MarkPaymentsSent touches only rows still 'sending'.
MarkSent(b) ==
  /\ status' = IF status[b] = "sending" THEN [status EXCEPT ![b] = "sent"] ELSE status
  /\ UNCHANGED <<credited, balances, rows>>

MarkPaymentsSent(p) ==
  /\ At(p, "mark")
  /\ MarkSent(batch[p])
  /\ \/ ~stopping[p] /\ NoFault
     \/ Fault                       \* committed, but the reply is lost
  /\ EndPass(p)
  /\ UNCHANGED <<scanVars, walletVars>>

\* Mutant: the rows are re-credited whatever their status.
RefundAnyStatus(b) ==
  /\ balances' = [c \in Credits |-> balances[c] + rows[b][c]]
  /\ status' = [status EXCEPT ![b] = "failed"]
  /\ UNCHANGED <<credited, rows>>

\* RefundBatch re-credits and fails only rows still 'sending'.
Refund(b) ==
  IF status[b] = "sending"
    THEN /\ balances' = [c \in Credits |-> balances[c] + rows[b][c]]
         /\ status' = [status EXCEPT ![b] = "failed"]
         /\ UNCHANGED <<credited, rows>>
    ELSE UNCHANGED dbVars

\* Mutant: the refund runs on a context of its own, which no signal cancels.
RefundUncancelled(p) ==
  /\ At(p, "refund")
  /\ Refund(batch[p])
  /\ NoFault
  /\ EndPass(p)
  /\ UNCHANGED <<scanVars, walletVars>>

RefundBatch(p) ==
  /\ At(p, "refund")
  /\ ~stopping[p]
  /\ Refund(batch[p])
  /\ \/ NoFault
     \/ Fault                       \* committed, but the reply is lost
  /\ EndPass(p)
  /\ UNCHANGED <<scanVars, walletVars>>

\* A database call fails without effect; Pass returns its error.  With a
\* cancelled context every call does.
DatabaseError(p) ==
  /\ pc[p] \in {"begin", "mark", "refund"}
  /\ \/ stopping[p] /\ NoFault
     \/ Fault
  /\ EndPass(p)
  /\ UNCHANGED <<dbVars, scanVars, walletVars>>

(***************************************************************************)
(* The process.                                                            *)
(***************************************************************************)

\* SIGINT or SIGTERM cancels the context of every call.
Signal(p) ==
  /\ ~stopping[p]
  /\ Fault
  /\ stopping' = [stopping EXCEPT ![p] = TRUE]
  /\ UNCHANGED <<dbVars, scanVars, walletVars, pc, batch>>

\* The signalled process has left its loop and is started again.
Restart(p) ==
  /\ stopping[p]
  /\ At(p, "idle")
  /\ stopping' = [stopping EXCEPT ![p] = FALSE]
  /\ NoFault
  /\ UNCHANGED <<dbVars, scanVars, walletVars, pc, batch>>

\* The process dies between two steps (or runOnce recovers a panic of Pass)
\* and starts a new pass.  What it asked of the wallet stays asked.
Crash(p) ==
  /\ pc[p] # "idle"
  /\ Fault
  /\ Goto(p, "idle")
  /\ batch' = [batch EXCEPT ![p] = NoBatch]
  /\ stopping' = [stopping EXCEPT ![p] = FALSE]
  /\ UNCHANGED <<dbVars, scanVars, walletVars>>

(***************************************************************************)
(* The surroundings.                                                       *)
(***************************************************************************)

\* The daemon executes a sendmany: it broadcasts one transaction, or refuses.
WalletAccepts(b) ==
  /\ wallet[b] = "requested"
  /\ wallet' = [wallet EXCEPT ![b] = "accepted"]
  /\ txs' = [txs EXCEPT ![b] = @ + 1]
  /\ NoFault
  /\ UNCHANGED <<dbVars, scanVars, procVars>>

WalletRefuses(b) ==
  /\ wallet[b] = "requested"
  /\ Fault
  /\ wallet' = [wallet EXCEPT ![b] = "refused"]
  /\ UNCHANGED <<dbVars, scanVars, txs, procVars>>

\* StuckBatches' grace period passes.  It is 5 minutes and a wallet call ends
\* within the RPC client's 15 seconds, so no call of the batch is in progress;
\* its database calls, which have no deadline, may be.
GracePasses(b) ==
  /\ status[b] = "sending"
  /\ b \notin aged
  /\ ~ \E p \in Procs : batch[p] = b /\ pc[p] \in {"send", "wait"}
  /\ aged' = aged \cup {b}
  /\ UNCHANGED <<dbVars, surfaced, walletVars, procVars, faults>>

\* The operator settles a reported batch as the log line says: "check wallet
\* transactions; then mark sent with the txid or refund manually".
Reconcile(b) ==
  /\ b \in surfaced
  /\ status[b] = "sending"
  /\ wallet[b] # "requested"
  /\ IF txs[b] > 0 THEN MarkSent(b) ELSE Refund(b)
  /\ UNCHANGED <<scanVars, walletVars, procVars, faults>>

ProcStep(p) ==
  \/ ScanStuck(p)
  \/ BeginNothing(p)
  \/ BeginPayout(p)
  \/ SendMany(p)
  \/ SendReturns(p)
  \/ SendAborted(p)
  \/ MarkPaymentsSent(p)
  \/ RefundBatch(p)
  \/ DatabaseError(p)
  \/ Restart(p)

Next ==
  \/ \E c \in Credits : CreditReward(c)
  \/ \E p \in Procs : ProcStep(p) \/ Signal(p) \/ Crash(p)
  \/ \E b \in Batches :
       WalletAccepts(b) \/ WalletRefuses(b) \/ GracePasses(b) \/ Reconcile(b)

Spec == Init /\ [][Next]_vars

(***************************************************************************)
(* Fairness: Run starts a pass at every interval and each step of a pass   *)
(* returns (rpc.Client's timeout, the pool's database calls), the daemon   *)
(* answers what it was asked, a stopped process is started again and the   *)
(* clock runs.  Nothing obliges a miner to earn, a fault to happen or the  *)
(* operator to act.                                                        *)
(***************************************************************************)
Fairness ==
  /\ \A p \in Procs : WF_vars(ProcStep(p))
  /\ \A b \in Batches : WF_vars(WalletAccepts(b)) /\ WF_vars(GracePasses(b))

FairSpec == Spec /\ Fairness

(***************************************************************************)
(* Properties.                                                             *)
(***************************************************************************)
Active(b) == status[b] \in {"sending", "sent"}

Holds(b, c) == Active(b) /\ rows[b][c] > 0

\* Money is conserved: every booked credit is in its miner's balance or in the
\* rows of one batch that is 'sending' or 'sent', once, and in one of them only;
\* a credit not booked is nowhere.  Deduct, refund, their lost replies, crashes
\* and manual reconciliation never duplicate nor drop one
\* (BeginPayout, RefundBatch: "Nothing leaves this function half-done").
CreditsConserved ==
  \A c \in Credits :
    /\ balances[c] <= 1
    /\ \A b \in Batches : rows[b][c] <= 1
    /\ c \in credited <=> (balances[c] > 0 \/ \E b \in Batches : Holds(b, c))
    /\ \A b \in Batches : Holds(b, c) =>
         /\ balances[c] = 0
         /\ \A d \in Batches : Holds(d, c) => d = b

\* A refunded batch is never paid: its rows are 'failed' only if no transaction
\* has been broadcast for it, then or later (Pass: batches with no send outcome
\* "are NEVER auto-refunded (the tx may have broadcast)").
RefundedIsUnpaid ==
  \A b \in Batches : status[b] = "failed" => txs[b] = 0

\* A batch with no outcome is not silently kept: when the pass that created it
\* is gone, its rows end as sent or failed, or StuckBatches reports the batch.
NothingSilentlyHeld ==
  \A b \in Batches : status[b] = "sending" ~> (status[b] # "sending" \/ b \in surfaced)

\* A balance at or above the minimum of a miner with a valid address leaves it:
\* a transaction pays it, or its batch is reported to the operator.
PayableIsPaid ==
  \A c \in Credits :
    (/\ c \in credited
     /\ MinerOf[c] \in ValidMiners
     /\ BalanceOf(MinerOf[c]) >= MinUnits)
      ~> \E b \in Batches : Holds(b, c) /\ (txs[b] > 0 \/ b \in surfaced)

\* The transactions that paid credit c, each with its number among those of b.
PaidBy(c) ==
  UNION {{<<b, k>> : k \in 1..txs[b]} : b \in {d \in Batches : rows[d][c] > 0}}

PlaceOf(c) ==
  IF c \notin credited THEN "none"
  ELSE IF balances[c] > 0 THEN "owed"
  ELSE IF \E b \in Batches : status[b] = "sent" /\ rows[b][c] > 0 THEN "settled"
  ELSE "held"

Promise == INSTANCE PaymentLedger WITH
  Transactions <- Batches \X {1},
  place <- [c \in Credits |-> PlaceOf(c)],
  paidBy <- [c \in Credits |-> PaidBy(c)]

\* The service implements PaymentLedger, with one transaction per batch: no
\* credit is paid by two transactions, released once paid, or settled unpaid
\* ("a crash can never pay twice; a failed send refunds atomically", package
\* comment of payouts.go).
LedgerSpec == Promise!Ledger
=============================================================================
