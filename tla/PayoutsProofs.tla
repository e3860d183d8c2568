--------------------------- MODULE PayoutsProofs ---------------------------
(***************************************************************************)
(* Theorems about Payouts, for any set of credits, miners and processors,  *)
(* any number of batches and faults.                                       *)
(***************************************************************************)
EXTENDS Payouts, TLAPS

(***************************************************************************)
(* What BeginPayout selects is a part of the balances.                     *)
(***************************************************************************)
LEMMA PayableIsPart ==
  ASSUME TypeOK
  PROVE  /\ Payable \in [Credits -> Nat]
         /\ \A c \in Credits : Payable[c] = 0 \/ Payable[c] = balances[c]
<1> DEFINE Chosen(c) == MinerOf[c] \in PayableMiners
<1>1. Payable = [c \in Credits |-> IF Chosen(c) THEN balances[c] ELSE 0]
  BY DEF Payable
<1> HIDE DEF Chosen
<1> QED
  BY <1>1 DEF TypeOK

(***************************************************************************)
(* The inductive invariant.  RefundedIsUnpaid is not inductive: whether a  *)
(* refund is safe depends on what the wallet was asked and on which        *)
(* processor, at which point of its pass, still holds the batch.           *)
(***************************************************************************)

\* A batch nobody created has left no trace.
UnusedIsBlank ==
  \A b \in Batches : status[b] = "none" =>
    /\ wallet[b] = "none"
    /\ b \notin aged
    /\ \A p \in Procs : batch[p] # b

\* The wallet broadcasts exactly the transactions it accepted.
WalletCounts ==
  \A b \in Batches : txs[b] = IF wallet[b] = "accepted" THEN 1 ELSE 0

\* A refunded batch was never asked for, or refused; a sent one was accepted.
OutcomesMatch ==
  \A b \in Batches :
    /\ status[b] = "failed" => wallet[b] \in {"none", "refused"}
    /\ status[b] = "sent" => wallet[b] = "accepted"

\* Only aged batches are reported.
SurfacedIsAged == surfaced \subseteq aged

\* What a processor between BeginPayout and the end of its pass may rely on.
CallsMatch ==
  \A p \in Procs :
    /\ batch[p] # NoBatch => \A q \in Procs : batch[q] = batch[p] => q = p
    /\ pc[p] \in {"send", "wait"} =>
         /\ status[batch[p]] = "sending"
         /\ batch[p] \notin aged
    /\ pc[p] = "send" => wallet[batch[p]] = "none"
    /\ pc[p] = "wait" => wallet[batch[p]] # "none"
    /\ pc[p] = "mark" => wallet[batch[p]] = "accepted" /\ status[batch[p]] # "failed"
    /\ (pc[p] = "refund" /\ ~stopping[p]) => wallet[batch[p]] = "refused"

LedgerInv == TypeOK /\ CreditsConserved

CallInv ==
  /\ UnusedIsBlank
  /\ WalletCounts
  /\ OutcomesMatch
  /\ SurfacedIsAged
  /\ CallsMatch

(***************************************************************************)
(* Type correctness.                                                       *)
(***************************************************************************)
LEMMA TypeInit == Init => TypeOK
BY PayoutsAssumption
   DEF Init, TypeOK, NoCredits, BatchStatus, WalletStates, PassPoints, AfterBegin, Batches, NoBatch

LEMMA DeductType ==
  ASSUME TypeOK, NEW b \in Batches, Deduct(b)
  PROVE  /\ credited' \in SUBSET Credits
         /\ balances' \in [Credits -> Nat]
         /\ rows' \in [Batches -> [Credits -> Nat]]
         /\ status' \in [Batches -> BatchStatus]
<1>1. \A c \in Credits : balances[c] - Payable[c] \in Nat
  BY PayableIsPart DEF TypeOK
<1> QED
  BY <1>1, PayableIsPart DEF Deduct, TypeOK, BatchStatus

LEMMA OutcomeType ==
  ASSUME TypeOK, NEW b \in Batches, MarkSent(b) \/ Refund(b)
  PROVE  /\ credited' \in SUBSET Credits
         /\ balances' \in [Credits -> Nat]
         /\ rows' \in [Batches -> [Credits -> Nat]]
         /\ status' \in [Batches -> BatchStatus]
BY DEF MarkSent, Refund, dbVars, TypeOK, BatchStatus

LEMMA EndPassType ==
  ASSUME TypeOK, NEW p \in Procs, EndPass(p)
  PROVE  /\ pc' \in [Procs -> PassPoints]
         /\ batch' \in [Procs -> Batches \cup {NoBatch}]
         /\ stopping' \in [Procs -> BOOLEAN]
         /\ \A q \in Procs : pc'[q] \in AfterBegin <=> batch'[q] # NoBatch
BY DEF EndPass, Goto, TypeOK, PassPoints, AfterBegin

LEMMA FaultType ==
  ASSUME TypeOK, Fault \/ NoFault
  PROVE  faults' \in 0..MaxFaults
BY PayoutsAssumption DEF Fault, NoFault, TypeOK

LEMMA TypeStep == TypeOK /\ [Next]_vars => TypeOK'
<1> SUFFICES ASSUME TypeOK, [Next]_vars PROVE TypeOK'
  OBVIOUS
<1> USE DEF At, Goto
<1>1. ASSUME NEW c \in Credits, CreditReward(c) PROVE TypeOK'
  BY <1>1 DEF CreditReward, TypeOK, scanVars, walletVars, procVars
<1>2. ASSUME NEW p \in Procs, ScanStuck(p) PROVE TypeOK'
  BY <1>2 DEF ScanStuck, NoFault, AfterBegin, TypeOK, PassPoints, dbVars, walletVars
<1>3. ASSUME NEW p \in Procs, BeginNothing(p) PROVE TypeOK'
  BY <1>3, EndPassType DEF BeginNothing, NoFault, TypeOK, dbVars, scanVars, walletVars
<1>4. ASSUME NEW p \in Procs, BeginPayout(p) PROVE TypeOK'
  <2>1. PICK b \in Batches :
          /\ Deduct(b)
          /\ \/ /\ ~stopping[p]
                /\ Goto(p, "send")
                /\ batch' = [batch EXCEPT ![p] = b]
                /\ NoFault
                /\ UNCHANGED stopping
             \/ EndPass(p) /\ Fault
    BY <1>4 DEF BeginPayout
  <2>2. /\ pc' \in [Procs -> PassPoints]
        /\ batch' \in [Procs -> Batches \cup {NoBatch}]
        /\ stopping' \in [Procs -> BOOLEAN]
        /\ \A q \in Procs : pc'[q] \in AfterBegin <=> batch'[q] # NoBatch
    <3>1. CASE EndPass(p)
      BY <3>1, EndPassType
    <3>2. CASE ~EndPass(p)
      <4>1. b # NoBatch
        BY DEF Batches, NoBatch
      <4> QED
        BY <2>1, <3>2, <4>1 DEF TypeOK, PassPoints, AfterBegin
    <3> QED
      BY <3>1, <3>2
  <2>3. UNCHANGED <<aged, surfaced, wallet, txs>>
    BY <1>4 DEF BeginPayout, scanVars, walletVars
  <2>4. /\ credited' \in SUBSET Credits
        /\ balances' \in [Credits -> Nat]
        /\ rows' \in [Batches -> [Credits -> Nat]]
        /\ status' \in [Batches -> BatchStatus]
    BY <2>1, DeductType
  <2>5. faults' \in 0..MaxFaults
    BY <2>1, FaultType
  <2> QED
    BY <2>2, <2>3, <2>4, <2>5 DEF TypeOK
<1>5. ASSUME NEW p \in Procs, SendMany(p) PROVE TypeOK'
  BY <1>5 DEF SendMany, NoFault, AfterBegin, TypeOK, PassPoints, WalletStates, dbVars, scanVars
<1>6. ASSUME NEW p \in Procs, SendReturns(p) PROVE TypeOK'
  BY <1>6 DEF SendReturns, NoFault, AfterBegin, TypeOK, PassPoints, dbVars, scanVars, walletVars
<1>7. ASSUME NEW p \in Procs, SendAborted(p) PROVE TypeOK'
  <2>1. Fault \/ NoFault
    BY <1>7 DEF SendAborted
  <2> QED
    BY <1>7, <2>1, FaultType DEF SendAborted, AfterBegin, TypeOK, PassPoints, dbVars, scanVars,
        walletVars
<1>8. ASSUME NEW p \in Procs, MarkPaymentsSent(p) PROVE TypeOK'
  <2>1. batch[p] \in Batches
    BY <1>8 DEF MarkPaymentsSent, TypeOK, AfterBegin
  <2>2. Fault \/ NoFault
    BY <1>8 DEF MarkPaymentsSent
  <2> QED
    BY <1>8, <2>1, <2>2, EndPassType, OutcomeType, FaultType
    DEF MarkPaymentsSent, TypeOK, scanVars, walletVars
<1>9. ASSUME NEW p \in Procs, DatabaseError(p) PROVE TypeOK'
  <2>1. Fault \/ NoFault
    BY <1>9 DEF DatabaseError
  <2> QED
    BY <1>9, <2>1, EndPassType, FaultType
    DEF DatabaseError, TypeOK, dbVars, scanVars, walletVars
<1>10. ASSUME NEW p \in Procs, RefundBatch(p) PROVE TypeOK'
  <2>1. batch[p] \in Batches
    BY <1>10 DEF RefundBatch, TypeOK, AfterBegin
  <2>2. Fault \/ NoFault
    BY <1>10 DEF RefundBatch
  <2> QED
    BY <1>10, <2>1, <2>2, EndPassType, OutcomeType, FaultType
    DEF RefundBatch, TypeOK, scanVars, walletVars
<1>11. ASSUME NEW p \in Procs, Signal(p) PROVE TypeOK'
  BY <1>11, FaultType DEF Signal, TypeOK, dbVars, scanVars, walletVars
<1>12. ASSUME NEW p \in Procs, Restart(p) PROVE TypeOK'
  BY <1>12 DEF Restart, NoFault, TypeOK, dbVars, scanVars, walletVars
<1>13. ASSUME NEW p \in Procs, Crash(p) PROVE TypeOK'
  BY <1>13, FaultType
  DEF Crash, AfterBegin, TypeOK, PassPoints, dbVars, scanVars, walletVars
<1>14. ASSUME NEW b \in Batches, WalletAccepts(b) PROVE TypeOK'
  BY <1>14, FaultType
  DEF WalletAccepts, TypeOK, WalletStates, dbVars, scanVars, procVars
<1>15. ASSUME NEW b \in Batches, WalletRefuses(b) PROVE TypeOK'
  BY <1>15, FaultType
  DEF WalletRefuses, TypeOK, WalletStates, dbVars, scanVars, procVars
<1>16. ASSUME NEW b \in Batches, GracePasses(b) PROVE TypeOK'
  BY <1>16 DEF GracePasses, TypeOK, dbVars, walletVars, procVars
<1>17. ASSUME NEW b \in Batches, Reconcile(b) PROVE TypeOK'
  BY <1>17, OutcomeType DEF Reconcile, TypeOK, scanVars, walletVars, procVars
<1>18. ASSUME UNCHANGED vars PROVE TypeOK'
  BY <1>18 DEF vars, TypeOK, dbVars, scanVars, walletVars, procVars
<1> QED
  BY <1>1, <1>2, <1>3, <1>4, <1>5, <1>6, <1>7, <1>8, <1>9, <1>10, <1>11, <1>12,
     <1>13, <1>14, <1>15, <1>16, <1>17, <1>18
  DEF Next, ProcStep

\* Every reachable state of the payout service is well typed.
THEOREM TypeCorrect == Spec => []TypeOK
BY TypeInit, TypeStep, PTL DEF Spec

(***************************************************************************)
(* Conservation of credits: the four effects a step can have on the        *)
(* database, then the steps.                                               *)
(***************************************************************************)

\* The part of CreditsConserved about credit c.
ConservedAt(c) ==
  /\ balances[c] <= 1
  /\ \A b \in Batches : rows[b][c] <= 1
  /\ c \in credited <=> (balances[c] > 0 \/ \E b \in Batches : Holds(b, c))
  /\ \A b \in Batches : Holds(b, c) =>
       /\ balances[c] = 0
       /\ \A d \in Batches : Holds(d, c) => d = b

LEMMA CreditConserves ==
  ASSUME TypeOK, CreditsConserved, NEW c \in Credits, CreditReward(c)
  PROVE  CreditsConserved'
<1>1. UNCHANGED <<status, rows>>
  BY DEF CreditReward
<1>2. \A b \in Batches, d \in Credits : Holds(b, d)' <=> Holds(b, d)
  BY <1>1 DEF Holds, Active
<1>3. balances[c] = 0 /\ \A b \in Batches : ~Holds(b, c)
  BY DEF CreditReward, CreditsConserved, TypeOK
<1>4. \A d \in Credits : balances'[d] = IF d = c THEN 1 ELSE balances[d]
  BY <1>3 DEF CreditReward, TypeOK
<1>5. \A d \in Credits : d \in credited' <=> d = c \/ d \in credited
  BY DEF CreditReward
<1> QED
  BY <1>1, <1>2, <1>3, <1>4, <1>5 DEF CreditsConserved

LEMMA DeductConserves ==
  ASSUME TypeOK, CreditsConserved, NEW b \in Batches, Deduct(b)
  PROVE  CreditsConserved'
<1>1. status[b] = "none"
  BY DEF Deduct, Batches
<1>2. \A c \in Credits : ~Holds(b, c) /\ (Holds(b, c)' <=> Payable[c] > 0)
  BY <1>1, PayableIsPart DEF Deduct, Holds, Active, TypeOK
<1>3. \A d \in Batches \ {b}, c \in Credits :
        (Holds(d, c)' <=> Holds(d, c)) /\ rows'[d][c] = rows[d][c]
  BY DEF Deduct, Holds, Active, TypeOK
<1>4. \A c \in Credits : balances'[c] = balances[c] - Payable[c]
                        /\ rows'[b][c] = Payable[c]
  BY DEF Deduct, TypeOK
<1>5. credited' = credited
  BY DEF Deduct
<1>6. ASSUME NEW c \in Credits PROVE ConservedAt(c)'
  <2>1. ConservedAt(c)
    BY DEF CreditsConserved, ConservedAt
  <2>2. CASE Payable[c] = 0
    <3>1. \A d \in Batches : Holds(d, c)' <=> Holds(d, c)
      BY <1>2, <1>3, <2>2
    <3>2. \A d \in Batches : rows'[d][c] <= 1
      BY <1>3, <1>4, <2>1, <2>2 DEF ConservedAt
    <3>3. balances'[c] = balances[c]
      BY <1>4, <2>2 DEF TypeOK
    <3> QED
      BY <1>5, <2>1, <3>1, <3>2, <3>3 DEF ConservedAt
  <2>3. CASE Payable[c] # 0
    <3>1. Payable[c] = 1 /\ balances[c] = 1
      BY <2>1, <2>3, PayableIsPart DEF ConservedAt, TypeOK
    <3>2. c \in credited /\ \A d \in Batches : ~Holds(d, c)
      BY <2>1, <3>1 DEF ConservedAt
    <3>3. ConservedAt(c)'
      <4>1. \A d \in Batches : Holds(d, c)' <=> d = b
        BY <1>2, <1>3, <3>1, <3>2
      <4>2. \A d \in Batches : rows'[d][c] <= 1
        BY <1>3, <1>4, <2>1, <3>1 DEF ConservedAt
      <4>3. balances'[c] = 0
        BY <1>4, <3>1
      <4> QED
        BY <1>5, <3>2, <4>1, <4>2, <4>3 DEF ConservedAt
    <3> QED
      BY <3>3
  <2> QED
    BY <2>2, <2>3
<1> QED
  BY <1>6 DEF CreditsConserved, ConservedAt

LEMMA MarkConserves ==
  ASSUME TypeOK, CreditsConserved, NEW b \in Batches, MarkSent(b)
  PROVE  CreditsConserved'
<1>1. \A d \in Batches, c \in Credits : Holds(d, c)' <=> Holds(d, c)
  BY DEF MarkSent, Holds, Active, TypeOK
<1> QED
  BY <1>1 DEF MarkSent, CreditsConserved

LEMMA RefundConserves ==
  ASSUME TypeOK, CreditsConserved, NEW b \in Batches, Refund(b)
  PROVE  CreditsConserved'
<1>1. CASE status[b] # "sending"
  BY <1>1 DEF Refund, dbVars, CreditsConserved, Holds, Active
<1>2. CASE status[b] = "sending"
  <2>1. /\ rows' = rows /\ credited' = credited
        /\ \A c \in Credits : balances'[c] = balances[c] + rows[b][c]
    BY <1>2 DEF Refund, TypeOK
  <2>2. \A c \in Credits : ~Holds(b, c)' /\ (Holds(b, c) <=> rows[b][c] > 0)
    BY <1>2 DEF Refund, Holds, Active, TypeOK
  <2>3. \A d \in Batches \ {b}, c \in Credits : Holds(d, c)' <=> Holds(d, c)
    BY <1>2 DEF Refund, Holds, Active, TypeOK
  <2>4. ASSUME NEW c \in Credits PROVE ConservedAt(c)'
    <3>1. ConservedAt(c)
      BY DEF CreditsConserved, ConservedAt
    <3>2. CASE Holds(b, c)
      <4>1. rows[b][c] = 1 /\ balances[c] = 0
        BY <2>2, <3>1, <3>2 DEF ConservedAt, TypeOK
      <4>2. \A d \in Batches : ~Holds(d, c)'
        BY <2>2, <2>3, <3>1, <3>2 DEF ConservedAt
      <4> QED
        BY <2>1, <2>2, <2>3, <3>1, <3>2, <4>1, <4>2 DEF ConservedAt
    <3>3. CASE ~Holds(b, c)
      <4>1. rows[b][c] = 0
        BY <2>2, <3>3 DEF TypeOK
      <4>2. \A d \in Batches : Holds(d, c)' <=> Holds(d, c)
        BY <2>2, <2>3, <3>3
      <4>3. balances'[c] = balances[c]
        BY <2>1, <4>1 DEF TypeOK
      <4> QED
        BY <2>1, <3>1, <4>2, <4>3 DEF ConservedAt
    <3> QED
      BY <3>2, <3>3
  <2> QED
    BY <2>4 DEF CreditsConserved, ConservedAt
<1> QED
  BY <1>1, <1>2

LEMMA ConservedInit == Init => CreditsConserved
BY DEF Init, CreditsConserved, NoCredits, Holds, Active

LEMMA ConservedStep == LedgerInv /\ [Next]_vars => CreditsConserved'
<1> SUFFICES ASSUME TypeOK, CreditsConserved, [Next]_vars PROVE CreditsConserved'
  BY DEF LedgerInv
<1>1. ASSUME UNCHANGED dbVars PROVE CreditsConserved'
  BY <1>1 DEF dbVars, CreditsConserved, Holds, Active
<1>2. ASSUME NEW c \in Credits, CreditReward(c) PROVE CreditsConserved'
  BY <1>2, CreditConserves
<1>3. ASSUME NEW p \in Procs, BeginPayout(p) PROVE CreditsConserved'
  BY <1>3, DeductConserves DEF BeginPayout
<1>4. ASSUME NEW p \in Procs, MarkPaymentsSent(p) PROVE CreditsConserved'
  <2>1. batch[p] \in Batches /\ MarkSent(batch[p])
    BY <1>4 DEF MarkPaymentsSent, At, TypeOK, AfterBegin
  <2> QED
    BY <2>1, MarkConserves
<1>5. ASSUME NEW p \in Procs, RefundBatch(p) PROVE CreditsConserved'
  <2>1. batch[p] \in Batches /\ Refund(batch[p])
    BY <1>5 DEF RefundBatch, At, TypeOK, AfterBegin
  <2> QED
    BY <2>1, RefundConserves
<1>6. ASSUME NEW b \in Batches, Reconcile(b) PROVE CreditsConserved'
  BY <1>6, MarkConserves, RefundConserves DEF Reconcile
<1>7. ASSUME NEW p \in Procs, ProcStep(p), ~BeginPayout(p), ~MarkPaymentsSent(p),
             ~RefundBatch(p)
      PROVE  UNCHANGED dbVars
  BY <1>7 DEF ProcStep, ScanStuck, BeginNothing, SendMany, SendReturns, SendAborted,
     DatabaseError, Restart
<1>8. ASSUME NEW p \in Procs, Signal(p) \/ Crash(p) PROVE UNCHANGED dbVars
  BY <1>8 DEF Signal, Crash
<1>9. ASSUME NEW b \in Batches, WalletAccepts(b) \/ WalletRefuses(b) \/ GracePasses(b)
      PROVE  UNCHANGED dbVars
  BY <1>9 DEF WalletAccepts, WalletRefuses, GracePasses
<1>10. ASSUME UNCHANGED vars PROVE UNCHANGED dbVars
  BY <1>10 DEF vars
<1> QED
  BY <1>1, <1>2, <1>3, <1>4, <1>5, <1>6, <1>7, <1>8, <1>9, <1>10 DEF Next

LEMMA LedgerStep == LedgerInv /\ [Next]_vars => LedgerInv'
BY TypeStep, ConservedStep DEF LedgerInv

\* No credit is ever duplicated or dropped, whatever fails or dies, and whether
\* or not sendmany's replies can be lost.
THEOREM ConservationCorrect == Spec => []CreditsConserved
<1>1. Init => LedgerInv
  BY TypeInit, ConservedInit DEF LedgerInv
<1>2. LedgerInv => CreditsConserved
  BY DEF LedgerInv
<1> QED
  BY <1>1, <1>2, LedgerStep, PTL DEF Spec

(***************************************************************************)
(* A refunded batch is never paid, when every sendmany that was not        *)
(* refused comes back as such to a processor that goes on.                 *)
(***************************************************************************)
LEMMA CallInit == Init => CallInv
BY DEF Init, CallInv, UnusedIsBlank, WalletCounts, OutcomesMatch, SurfacedIsAged,
   CallsMatch, Batches, NoBatch

\* A processor that ends its pass, whatever else happens to the database.
LEMMA EndPassCalls ==
  ASSUME TypeOK, CallsMatch, NEW p \in Procs, EndPass(p),
         UNCHANGED <<aged, wallet>>,
         \A q \in Procs \ {p} :
           /\ pc[q] \in {"send", "wait"} => status'[batch[q]] = status[batch[q]]
           /\ pc[q] = "mark" => status'[batch[q]] # "failed"
  PROVE  CallsMatch'
<1>1. /\ pc'[p] = "idle" /\ batch'[p] = NoBatch
      /\ \A q \in Procs \ {p} : pc'[q] = pc[q] /\ batch'[q] = batch[q]
      /\ UNCHANGED stopping
  BY DEF EndPass, Goto, TypeOK
<1> QED
  BY <1>1 DEF CallsMatch

LEMMA BeginCalls ==
  ASSUME TypeOK, CallInv, NEW p \in Procs, BeginPayout(p)
  PROVE  CallInv'
<1> USE DEF CallInv
<1>1. PICK b \in Batches :
        /\ Deduct(b)
        /\ \/ /\ ~stopping[p]
              /\ Goto(p, "send")
              /\ batch' = [batch EXCEPT ![p] = b]
              /\ UNCHANGED stopping
           \/ EndPass(p)
  BY DEF BeginPayout
<1>2. status[b] = "none" /\ status' = [status EXCEPT ![b] = "sending"]
  BY <1>1 DEF Deduct, Batches
<1>3. UNCHANGED <<aged, surfaced, wallet, txs>>
  BY DEF BeginPayout, scanVars, walletVars
<1>4. \A q \in Procs : batch[q] # b
  BY <1>2 DEF UnusedIsBlank
<1>5. \A q \in Procs : q # p => batch'[q] = batch[q] /\ pc'[q] = pc[q]
  BY <1>1 DEF EndPass, Goto, TypeOK
<1>6. batch'[p] \in {b, NoBatch}
  BY <1>1 DEF EndPass, TypeOK
<1>7. UnusedIsBlank'
  <2>1. ASSUME NEW d \in Batches, status'[d] = "none"
        PROVE  d # b /\ status[d] = "none"
    BY <1>2, <2>1 DEF TypeOK
  <2>2. ASSUME NEW d \in Batches, status'[d] = "none", NEW q \in Procs
        PROVE  batch'[q] # d
    <3>1. d # NoBatch
      BY DEF Batches, NoBatch
    <3> QED
      BY <1>5, <1>6, <2>1, <2>2, <3>1 DEF UnusedIsBlank
  <2> QED
    BY <1>3, <2>1, <2>2 DEF UnusedIsBlank
<1>8. WalletCounts' /\ OutcomesMatch' /\ SurfacedIsAged'
  BY <1>2, <1>3 DEF WalletCounts, OutcomesMatch, SurfacedIsAged, TypeOK
<1>9. CallsMatch'
  <2>1. \A q \in Procs : batch[q] # NoBatch => batch[q] \in Batches
    BY DEF TypeOK
  <2>2. CASE EndPass(p)
    <3>1. ASSUME NEW q \in Procs \ {p}, pc[q] \in AfterBegin
          PROVE  status'[batch[q]] = status[batch[q]]
      BY <1>2, <1>4, <2>1, <3>1 DEF TypeOK
    <3>2. \A q \in Procs \ {p} :
            /\ pc[q] \in {"send", "wait"} => status'[batch[q]] = status[batch[q]]
            /\ pc[q] = "mark" => status'[batch[q]] # "failed"
      BY <3>1 DEF CallsMatch, AfterBegin
    <3> QED
      BY <1>3, <2>2, <3>2, EndPassCalls
  <2>3. CASE ~EndPass(p)
    <3>1. pc'[p] = "send" /\ batch'[p] = b /\ UNCHANGED stopping
      BY <1>1, <2>3 DEF Goto, TypeOK
    <3>2. wallet[b] = "none" /\ b \notin aged
      BY <1>2 DEF UnusedIsBlank
    <3>3. status'[b] = "sending" /\ \A d \in Batches : d # b => status'[d] = status[d]
      BY <1>2 DEF TypeOK
    <3> QED
      BY <1>3, <1>4, <1>5, <2>1, <3>1, <3>2, <3>3 DEF CallsMatch, TypeOK, AfterBegin
  <2> QED
    BY <2>2, <2>3
<1> QED
  BY <1>7, <1>8, <1>9

LEMMA SendCalls ==
  ASSUME TypeOK, CallInv, NEW p \in Procs, SendMany(p)
  PROVE  CallInv'
<1> USE DEF CallInv
<1>1. /\ batch[p] \in Batches
      /\ status[batch[p]] = "sending"
      /\ wallet[batch[p]] = "none"
      /\ \A q \in Procs : batch[q] = batch[p] => q = p
  BY DEF SendMany, At, CallsMatch, TypeOK, AfterBegin
<1>2. UNCHANGED <<status, aged, surfaced, txs, batch, stopping>>
  BY DEF SendMany, dbVars, scanVars
<1>3. \A b \in Batches : b # batch[p] => wallet'[b] = wallet[b]
  BY DEF SendMany, TypeOK
<1>4. wallet'[batch[p]] \in {"none", "requested"}
  BY <1>1 DEF SendMany, TypeOK
<1>5. UnusedIsBlank'
  BY <1>1, <1>2, <1>3 DEF UnusedIsBlank
<1>6. WalletCounts' /\ OutcomesMatch' /\ SurfacedIsAged'
  BY <1>1, <1>2, <1>3, <1>4 DEF WalletCounts, OutcomesMatch, SurfacedIsAged
<1>7. CallsMatch'
  <2>1. \A q \in Procs : q # p => pc'[q] = pc[q]
    BY DEF SendMany, Goto, TypeOK
  <2>2. \/ pc'[p] = "refund" /\ stopping[p]
        \/ pc'[p] = "wait" /\ wallet'[batch[p]] = "requested"
    BY <1>1 DEF SendMany, Goto, TypeOK
  <2>3. \A q \in Procs : q # p => batch[q] # batch[p]
    BY <1>1
  <2>4. \A q \in Procs : pc[q] \in AfterBegin => batch[q] \in Batches
    BY DEF TypeOK
  <2>5. ASSUME NEW q \in Procs, q # p, pc[q] \in AfterBegin
        PROVE  wallet'[batch[q]] = wallet[batch[q]]
    BY <1>3, <2>3, <2>4, <2>5
  <2> QED
    BY <1>1, <1>2, <2>1, <2>2, <2>5 DEF CallsMatch, AfterBegin, SendMany, At
<1> QED
  BY <1>5, <1>6, <1>7

LEMMA EndCalls ==
  ASSUME TypeOK, CallInv, NEW p \in Procs,
         BeginNothing(p) \/ DatabaseError(p) \/ Crash(p)
  PROVE  CallInv'
<1> USE DEF CallInv
<1>1. /\ UNCHANGED <<status, aged, surfaced, wallet, txs>>
      /\ pc' = [pc EXCEPT ![p] = "idle"]
      /\ batch' = [batch EXCEPT ![p] = NoBatch]
      /\ stopping' = stopping \/ stopping' = [stopping EXCEPT ![p] = FALSE]
  BY DEF BeginNothing, DatabaseError, Crash, EndPass, Goto, dbVars, scanVars, walletVars
<1>2. pc'[p] = "idle" /\ batch'[p] = NoBatch
  BY <1>1 DEF TypeOK
<1>3. \A q \in Procs : q # p =>
        pc'[q] = pc[q] /\ batch'[q] = batch[q] /\ stopping'[q] = stopping[q]
  BY <1>1 DEF TypeOK
<1>4. UnusedIsBlank'
  <2>1. \A d \in Batches : d # NoBatch
    BY DEF Batches, NoBatch
  <2> QED
    BY <1>1, <1>2, <1>3, <2>1 DEF UnusedIsBlank
<1>5. CallsMatch'
  BY <1>1, <1>2, <1>3 DEF CallsMatch
<1> QED
  BY <1>1, <1>4, <1>5 DEF WalletCounts, OutcomesMatch, SurfacedIsAged

LEMMA OutcomeCalls ==
  ASSUME TypeOK, CallInv, NEW p \in Procs,
         MarkPaymentsSent(p) \/ RefundBatch(p)
  PROVE  CallInv'
<1> USE DEF CallInv
<1>1. UNCHANGED <<aged, surfaced, wallet, txs>> /\ EndPass(p)
  BY DEF MarkPaymentsSent, RefundBatch, scanVars, walletVars
<1>2. batch[p] \in Batches /\ status[batch[p]] # "none"
  BY DEF MarkPaymentsSent, RefundBatch, At, TypeOK, AfterBegin, UnusedIsBlank
<1>3. \A d \in Batches : d # batch[p] => status'[d] = status[d]
  BY <1>2 DEF MarkPaymentsSent, RefundBatch, MarkSent, Refund, dbVars, TypeOK
<1>4. \/ status'[batch[p]] = status[batch[p]]
      \/ status'[batch[p]] = "sent" /\ wallet[batch[p]] = "accepted"
      \/ status'[batch[p]] = "failed" /\ wallet[batch[p]] = "refused"
  BY <1>2 DEF MarkPaymentsSent, RefundBatch, MarkSent, Refund, dbVars, TypeOK,
     CallsMatch, At
<1>5. /\ batch'[p] = NoBatch
      /\ \A q \in Procs : q # p => batch'[q] = batch[q]
  BY <1>1 DEF EndPass, TypeOK
<1>6. UnusedIsBlank'
  <2>1. \A d \in Batches : d # NoBatch
    BY DEF Batches, NoBatch
  <2>2. \A d \in Batches : status'[d] = "none" => status[d] = "none"
    BY <1>2, <1>3, <1>4
  <2> QED
    BY <1>1, <1>5, <2>1, <2>2 DEF UnusedIsBlank
<1>7. WalletCounts' /\ SurfacedIsAged'
  BY <1>1 DEF WalletCounts, SurfacedIsAged
<1>8. OutcomesMatch'
  BY <1>1, <1>3, <1>4 DEF OutcomesMatch
<1>9. CallsMatch'
  <2>1. \A q \in Procs \ {p} : pc[q] \in AfterBegin =>
          batch[q] \in Batches /\ batch[q] # batch[p]
    BY <1>2 DEF TypeOK, CallsMatch
  <2>2. \A q \in Procs \ {p} :
          /\ pc[q] \in {"send", "wait"} => status'[batch[q]] = status[batch[q]]
          /\ pc[q] = "mark" => status'[batch[q]] # "failed"
    BY <1>3, <2>1 DEF CallsMatch, AfterBegin
  <2> QED
    BY <1>1, <2>2, EndPassCalls
<1> QED
  BY <1>6, <1>7, <1>8, <1>9

LEMMA WalletCalls ==
  ASSUME TypeOK, CallInv, NEW b \in Batches, WalletAccepts(b) \/ WalletRefuses(b)
  PROVE  CallInv'
<1> USE DEF CallInv
<1>1. UNCHANGED <<status, aged, surfaced, pc, batch, stopping>>
  BY DEF WalletAccepts, WalletRefuses, dbVars, scanVars, procVars
<1>2. /\ wallet[b] = "requested"
      /\ \/ wallet'[b] = "accepted" /\ txs'[b] = txs[b] + 1
         \/ wallet'[b] = "refused" /\ txs'[b] = txs[b]
  BY DEF WalletAccepts, WalletRefuses, TypeOK
<1>3. \A d \in Batches : d # b => wallet'[d] = wallet[d] /\ txs'[d] = txs[d]
  BY DEF WalletAccepts, WalletRefuses, TypeOK
<1>4. WalletCounts'
  BY <1>2, <1>3 DEF WalletCounts
<1>5. UnusedIsBlank' /\ OutcomesMatch' /\ SurfacedIsAged'
  BY <1>1, <1>2, <1>3 DEF UnusedIsBlank, OutcomesMatch, SurfacedIsAged
<1>6. CallsMatch'
  <2>1. \A q \in Procs : pc[q] \in AfterBegin => batch[q] \in Batches
    BY DEF TypeOK
  <2>2. ASSUME NEW q \in Procs, pc[q] \in AfterBegin, batch[q] # b
        PROVE  wallet'[batch[q]] = wallet[batch[q]]
    BY <1>3, <2>1, <2>2
  <2> QED
    BY <1>1, <1>2, <2>2 DEF CallsMatch, AfterBegin
<1> QED
  BY <1>4, <1>5, <1>6

LEMMA ReconcileCalls ==
  ASSUME TypeOK, CallInv, NEW b \in Batches, Reconcile(b)
  PROVE  CallInv'
<1> USE DEF CallInv
<1>1. UNCHANGED <<aged, surfaced, wallet, txs, pc, batch, stopping>>
  BY DEF Reconcile, scanVars, walletVars, procVars
<1>2. b \in aged /\ status[b] = "sending"
  BY DEF Reconcile, SurfacedIsAged
<1>3. \A d \in Batches : d # b => status'[d] = status[d]
  BY DEF Reconcile, MarkSent, Refund, dbVars, TypeOK
<1>4. \/ status'[b] = "sent" /\ wallet[b] = "accepted"
      \/ status'[b] = "failed" /\ wallet[b] \in {"none", "refused"}
  <2>1. CASE txs[b] > 0
    BY <2>1, <1>2 DEF Reconcile, MarkSent, WalletCounts, TypeOK
  <2>2. CASE ~(txs[b] > 0)
    BY <2>2, <1>2 DEF Reconcile, Refund, WalletCounts, TypeOK, WalletStates
  <2> QED
    BY <2>1, <2>2
<1>5. UnusedIsBlank'
  BY <1>1, <1>2, <1>3, <1>4 DEF UnusedIsBlank
<1>6. WalletCounts' /\ SurfacedIsAged' /\ OutcomesMatch'
  BY <1>1, <1>3, <1>4 DEF WalletCounts, SurfacedIsAged, OutcomesMatch
<1>7. CallsMatch'
  <2>1. \A q \in Procs : pc[q] \in AfterBegin => batch[q] \in Batches
    BY DEF TypeOK
  <2>2. \A q \in Procs : pc[q] \in AfterBegin /\ batch[q] # b =>
          status'[batch[q]] = status[batch[q]]
    BY <1>3, <2>1
  <2> QED
    BY <1>1, <1>2, <1>4, <2>2 DEF CallsMatch, AfterBegin
<1> QED
  BY <1>5, <1>6, <1>7

LEMMA CallStep ==
  ASSUME ~ReplyLoss, TypeOK, CallInv, [Next]_vars
  PROVE  CallInv'
<1>1. ASSUME UNCHANGED <<status, aged, surfaced, wallet, txs, pc, batch, stopping>>
      PROVE  CallInv'
  BY <1>1 DEF CallInv, UnusedIsBlank, WalletCounts, OutcomesMatch, SurfacedIsAged, CallsMatch
<1>2. ASSUME NEW c \in Credits, CreditReward(c) PROVE CallInv'
  BY <1>1, <1>2 DEF CreditReward, scanVars, walletVars, procVars
<1>3. ASSUME NEW p \in Procs, ScanStuck(p) PROVE CallInv'
  <2>1. /\ UNCHANGED <<status, aged, wallet, txs, batch, stopping>>
        /\ surfaced' \subseteq surfaced \cup aged
        /\ pc[p] = "idle" /\ pc' = [pc EXCEPT ![p] = "begin"]
    BY <1>3 DEF ScanStuck, At, Goto, dbVars, walletVars
  <2> QED
    BY <2>1 DEF CallInv, UnusedIsBlank, WalletCounts, OutcomesMatch, SurfacedIsAged,
       CallsMatch, TypeOK
<1>4. ASSUME NEW p \in Procs, SendReturns(p) PROVE CallInv'
  <2>1. /\ UNCHANGED <<status, aged, surfaced, wallet, txs, batch, stopping>>
        /\ pc[p] = "wait"
        /\ \A q \in Procs : q # p => pc'[q] = pc[q]
        /\ \/ wallet[batch[p]] = "accepted" /\ pc'[p] = "mark"
           \/ wallet[batch[p]] = "refused" /\ pc'[p] = "refund"
    BY <1>4 DEF SendReturns, At, Goto, TypeOK, dbVars, scanVars, walletVars
  <2> QED
    BY <2>1 DEF CallInv, UnusedIsBlank, WalletCounts, OutcomesMatch, SurfacedIsAged, CallsMatch
<1>5. ASSUME NEW p \in Procs, SendAborted(p) PROVE CallInv'
  <2>1. /\ UNCHANGED <<status, aged, surfaced, wallet, txs, batch, stopping>>
        /\ pc[p] = "wait" /\ stopping[p] /\ pc'[p] = "refund"
        /\ \A q \in Procs : q # p => pc'[q] = pc[q]
    BY <1>5 DEF SendAborted, At, Goto, TypeOK, dbVars, scanVars, walletVars
  <2> QED
    BY <2>1 DEF CallInv, UnusedIsBlank, WalletCounts, OutcomesMatch, SurfacedIsAged, CallsMatch
<1>6. ASSUME NEW p \in Procs, Signal(p) PROVE CallInv'
  <2>1. /\ UNCHANGED <<status, aged, surfaced, wallet, txs, pc, batch>>
        /\ \A q \in Procs : stopping[q] => stopping'[q]
    BY <1>6 DEF Signal, TypeOK, dbVars, scanVars, walletVars
  <2> QED
    BY <2>1 DEF CallInv, UnusedIsBlank, WalletCounts, OutcomesMatch, SurfacedIsAged, CallsMatch
<1>7. ASSUME NEW p \in Procs, Restart(p) PROVE CallInv'
  <2>1. /\ UNCHANGED <<status, aged, surfaced, wallet, txs, pc, batch>>
        /\ pc[p] = "idle"
        /\ \A q \in Procs : q # p => stopping'[q] = stopping[q]
    BY <1>7 DEF Restart, At, TypeOK, dbVars, scanVars, walletVars
  <2> QED
    BY <2>1 DEF CallInv, UnusedIsBlank, WalletCounts, OutcomesMatch, SurfacedIsAged, CallsMatch
<1>8. ASSUME NEW b \in Batches, GracePasses(b) PROVE CallInv'
  <2>1. /\ UNCHANGED <<status, surfaced, wallet, txs, pc, batch, stopping>>
        /\ status[b] = "sending"
        /\ aged' = aged \cup {b}
        /\ \A p \in Procs : pc[p] \in {"send", "wait"} => batch[p] # b
    BY <1>8 DEF GracePasses, dbVars, walletVars, procVars
  <2> QED
    BY <2>1 DEF CallInv, UnusedIsBlank, WalletCounts, OutcomesMatch, SurfacedIsAged, CallsMatch
<1>9. ASSUME UNCHANGED vars PROVE CallInv'
  BY <1>1, <1>9 DEF vars, dbVars, scanVars, walletVars, procVars
<1> QED
  BY <1>2, <1>3, <1>4, <1>5, <1>6, <1>7, <1>8, <1>9, BeginCalls, SendCalls, EndCalls,
     OutcomeCalls, WalletCalls, ReconcileCalls
  DEF Next, ProcStep

\* No batch is paid after it was refunded, and none is refunded after it was
\* paid, through crashes, signals, database failures and manual reconciliation,
\* as long as sendmany's outcome reaches a processor that goes on (~ReplyLoss).
THEOREM RefundCorrect ==
  ASSUME ~ReplyLoss
  PROVE  Spec => []RefundedIsUnpaid
<1>1. Init => TypeOK /\ CallInv
  BY TypeInit, CallInit
<1>2. TypeOK /\ CallInv /\ [Next]_vars => (TypeOK /\ CallInv)'
  BY TypeStep, CallStep
<1>3. TypeOK /\ CallInv => RefundedIsUnpaid
  BY DEF CallInv, OutcomesMatch, WalletCounts, RefundedIsUnpaid
<1> QED
  BY <1>1, <1>2, <1>3, PTL DEF Spec

(***************************************************************************)
(* Payouts implements PaymentLedger.  place and paidBy below are the       *)
(* refinement mapping of Payouts!Promise.                                  *)
(***************************************************************************)
IInv == LedgerInv /\ CallInv

Place == [c \in Credits |-> PlaceOf(c)]
Paid == [c \in Credits |-> PaidBy(c)]

\* The credits batch b carries.
Carried(b) == {c \in Credits : rows[b][c] > 0}

\* Each place, from the database's point of view.
PlaceIsSeen(c) ==
  /\ PlaceOf(c) = "none" <=> c \notin credited
  /\ PlaceOf(c) = "owed" <=> balances[c] > 0
  /\ PlaceOf(c) = "settled" <=>
       \E b \in Batches : status[b] = "sent" /\ rows[b][c] > 0
  /\ PlaceOf(c) = "held" <=>
       \E b \in Batches : status[b] = "sending" /\ rows[b][c] > 0

LEMMA Places == IInv => \A c \in Credits : PlaceIsSeen(c)
<1> SUFFICES ASSUME IInv, NEW c \in Credits PROVE PlaceIsSeen(c)
  OBVIOUS
<1>1. /\ balances[c] \in Nat
      /\ c \in credited <=> (balances[c] > 0 \/ \E b \in Batches : Holds(b, c))
      /\ \A b \in Batches : Holds(b, c) =>
           balances[c] = 0 /\ \A d \in Batches : Holds(d, c) => d = b
  BY DEF IInv, LedgerInv, CreditsConserved, TypeOK
<1> QED
  BY <1>1 DEF PlaceIsSeen, PlaceOf, Holds, Active

LEMMA PlacesNext == IInv' => (\A c \in Credits : PlaceIsSeen(c))'
BY Places, PTL

\* A credit that batch b holds and has not been paid by b is not paid at all.
LEMMA HeldIsUnpaid ==
  ASSUME IInv, NEW b \in Batches, status[b] = "sending", txs[b] = 0,
         NEW c \in Carried(b)
  PROVE  PlaceOf(c) = "held" /\ PaidBy(c) = {}
<1>1. PlaceOf(c) = "held"
  BY Places DEF PlaceIsSeen, Carried
<1>2. Holds(b, c)
  BY DEF Holds, Active, Carried
<1>3. ASSUME NEW d \in Batches, rows[d][c] > 0, txs[d] # 0 PROVE FALSE
  <2>1. status[d] \in {"sending", "sent"}
    BY <1>3 DEF IInv, LedgerInv, CallInv, WalletCounts, OutcomesMatch, UnusedIsBlank,
       TypeOK, BatchStatus
  <2>2. d = b
    BY <1>2, <1>3, <2>1 DEF IInv, LedgerInv, CreditsConserved, Holds, Active, Carried
  <2> QED
    BY <1>3, <2>2
<1>4. \A d \in Batches : rows[d][c] > 0 => 1..txs[d] = {}
  BY <1>3
<1> QED
  BY <1>1, <1>4 DEF PaidBy

LEMMA PlacesInit == Init => Promise!LedgerInit
BY DEF Init, NoCredits, Promise!LedgerInit, PlaceOf, PaidBy

\* Steps that leave the ledger and the transactions alone are stuttering steps.
LEMMA StutterMaps ==
  ASSUME UNCHANGED <<credited, balances, status, rows, txs>>
  PROVE  UNCHANGED Promise!lvars
BY DEF Promise!lvars, PlaceOf, PaidBy

LEMMA CreditMaps ==
  ASSUME IInv, IInv', NEW c \in Credits, CreditReward(c)
  PROVE  Promise!LedgerNext
<1>1. UNCHANGED <<status, rows, txs>>
  BY DEF CreditReward, walletVars
<1>2. PaidBy(c) = PaidBy(c)' /\ Paid' = Paid
  BY <1>1 DEF PaidBy, Paid
<1>3. PlaceOf(c) = "none" /\ PlaceOf(c)' = "owed"
  <2>1. balances'[c] = balances[c] + 1 /\ balances[c] \in Nat
    BY DEF CreditReward, IInv, LedgerInv, TypeOK
  <2>2. c \in credited' /\ c \notin credited
    BY DEF CreditReward
  <2> QED
    BY <2>1, <2>2 DEF PlaceOf
<1>4. \A d \in Credits : d # c => PlaceOf(d)' = PlaceOf(d)
  <2>1. \A d \in Credits : d # c =>
          balances'[d] = balances[d] /\ (d \in credited' <=> d \in credited)
    BY DEF CreditReward, IInv, LedgerInv, TypeOK
  <2> QED
    BY <1>1, <2>1 DEF PlaceOf
<1>5. Promise!Accrue({c})
  BY <1>2, <1>3, <1>4 DEF Promise!Accrue, Promise!Move, Paid
<1> QED
  BY <1>5 DEF Promise!LedgerNext

LEMMA DeductMaps ==
  ASSUME IInv, IInv', NEW b \in Batches, Deduct(b), UNCHANGED txs
  PROVE  Promise!LedgerNext
<1> DEFINE S == {c \in Credits : Payable[c] > 0}
<1>1. status[b] = "none" /\ txs[b] = 0
  BY DEF Deduct, Batches, IInv, CallInv, UnusedIsBlank, WalletCounts
<1>2. \A c \in Credits, d \in Batches :
        rows'[d][c] = IF d = b THEN Payable[c] ELSE rows[d][c]
  BY PayableIsPart DEF Deduct, IInv, LedgerInv, TypeOK
<1>3. Paid' = Paid
  <2>1. \A d \in Batches : 1..txs[d] # {} => d # b
    BY <1>1
  <2> QED
    BY <1>2, <2>1 DEF Paid, PaidBy
<1>4. \A d \in Batches : status'[d] = IF d = b THEN "sending" ELSE status[d]
  BY DEF Deduct, IInv, LedgerInv, TypeOK
<1>5. \A c \in S : PlaceOf(c) = "owed" /\ PlaceOf(c)' = "held"
  <2>1. \A c \in S : balances[c] > 0
    <3>1. TypeOK
      BY DEF IInv, LedgerInv
    <3>2. \A c \in Credits : Payable[c] = 0 \/ Payable[c] = balances[c]
      BY <3>1, PayableIsPart
    <3> QED
      BY <3>2
  <2>2. \A c \in S : PlaceOf(c) = "owed"
    BY <2>1, Places DEF PlaceIsSeen
  <2>3. \A c \in S : status'[b] = "sending" /\ rows'[b][c] > 0
    BY <1>2, <1>4
  <2> QED
    BY <2>2, <2>3, PlacesNext DEF PlaceIsSeen
<1>6. \A c \in Credits \ S : PlaceOf(c)' = PlaceOf(c)
  <2>1. \A c \in Credits \ S : balances'[c] = balances[c] /\ rows'[b][c] = 0
    BY <1>2, PayableIsPart DEF Deduct, IInv, LedgerInv, TypeOK
  <2>2. \A c \in Credits \ S, d \in Batches :
          (status'[d] = "sent" /\ rows'[d][c] > 0) <=> (status[d] = "sent" /\ rows[d][c] > 0)
    BY <1>1, <1>2, <1>4, <2>1
  <2> QED
    BY <2>1, <2>2 DEF PlaceOf, Deduct
<1>7. Promise!Hold(S)
  BY <1>3, <1>5, <1>6 DEF Promise!Hold, Promise!Move, Paid
<1> QED
  BY <1>7 DEF Promise!LedgerNext

LEMMA MarkMaps ==
  ASSUME IInv, IInv', NEW b \in Batches, MarkSent(b), UNCHANGED txs,
         txs[b] > 0 \/ status[b] # "sending"
  PROVE  [Promise!LedgerNext]_(Promise!lvars)
<1> DEFINE S == Carried(b)
<1>1. CASE status[b] # "sending"
  BY <1>1, StutterMaps DEF MarkSent
<1>2. CASE status[b] = "sending"
  <2>1. UNCHANGED <<credited, balances, rows>>
    BY DEF MarkSent
  <2>2. \A d \in Batches : status'[d] = IF d = b THEN "sent" ELSE status[d]
    BY <1>2 DEF MarkSent, IInv, LedgerInv, TypeOK
  <2>3. Paid' = Paid
    BY <2>1 DEF Paid, PaidBy
  <2>4. \A c \in S : PlaceOf(c) = "held" /\ PlaceOf(c)' = "settled"
    <3>1. \A c \in S : /\ c \in Credits
                        /\ status[b] = "sending" /\ rows[b][c] > 0
                        /\ status'[b] = "sent" /\ rows'[b][c] > 0
      BY <1>2, <2>1, <2>2 DEF Carried
    <3> HIDE DEF S
    <3>2. \A c \in S : PlaceOf(c) = "held"
      BY <3>1, Places DEF PlaceIsSeen
    <3> QED
      BY <3>1, <3>2, PlacesNext DEF PlaceIsSeen
  <2>5. \A c \in Credits \ S : PlaceOf(c)' = PlaceOf(c)
    <3>1. \A c \in Credits \ S, d \in Batches :
            (status'[d] = "sent" /\ rows'[d][c] > 0) <=> (status[d] = "sent" /\ rows[d][c] > 0)
      BY <2>1, <2>2 DEF Carried
    <3> QED
      BY <2>1, <3>1 DEF PlaceOf
  <2>6. \A c \in S : PaidBy(c) # {}
    <3>1. 1 \in 1..txs[b]
      BY <1>2 DEF IInv, LedgerInv, TypeOK
    <3>2. ASSUME NEW c \in S PROVE <<b, 1>> \in PaidBy(c)
      <4>1. b \in {d \in Batches : rows[d][c] > 0}
        BY DEF Carried
      <4> QED
        BY <3>1, <4>1 DEF PaidBy
    <3> QED
      BY <3>2
  <2>7. Promise!Settle(S)
    BY <2>3, <2>4, <2>5, <2>6 DEF Promise!Settle, Promise!Move, Paid, Carried
  <2> QED
    BY <2>7 DEF Promise!LedgerNext, Carried
<1> QED
  BY <1>1, <1>2

LEMMA RefundMaps ==
  ASSUME IInv, IInv', NEW b \in Batches, Refund(b), UNCHANGED txs,
         txs[b] = 0 \/ status[b] # "sending"
  PROVE  [Promise!LedgerNext]_(Promise!lvars)
<1> DEFINE S == Carried(b)
<1>1. CASE status[b] # "sending"
  BY <1>1, StutterMaps DEF Refund, dbVars
<1>2. CASE status[b] = "sending"
  <2>1. UNCHANGED <<credited, rows>>
    BY <1>2 DEF Refund
  <2>2. \A d \in Batches : status'[d] = IF d = b THEN "failed" ELSE status[d]
    BY <1>2 DEF Refund, IInv, LedgerInv, TypeOK
  <2>3. \A c \in Credits : balances'[c] = balances[c] + rows[b][c]
    BY <1>2 DEF Refund
  <2>4. Paid' = Paid
    BY <2>1 DEF Paid, PaidBy
  <2>5. \A c \in S : PlaceOf(c) = "held" /\ PaidBy(c) = {}
    BY <1>2, HeldIsUnpaid
  <2>6. \A c \in S : PlaceOf(c)' = "owed"
    <3>1. \A c \in S : balances'[c] > 0
      BY <2>3 DEF Carried, IInv, LedgerInv, TypeOK
    <3> QED
      BY <3>1, PlacesNext DEF PlaceIsSeen, Carried
  <2>7. \A c \in Credits \ S : PlaceOf(c)' = PlaceOf(c)
    <3>1. \A c \in Credits \ S : balances'[c] = balances[c]
      BY <2>3 DEF Carried, IInv, LedgerInv, TypeOK
    <3>2. \A c \in Credits \ S, d \in Batches :
            (status'[d] = "sent" /\ rows'[d][c] > 0) <=> (status[d] = "sent" /\ rows[d][c] > 0)
      BY <1>2, <2>1, <2>2
    <3> QED
      BY <2>1, <3>1, <3>2 DEF PlaceOf
  <2>8. Promise!Release(S)
    BY <2>4, <2>5, <2>6, <2>7 DEF Promise!Release, Promise!Move, Paid, Carried
  <2> QED
    BY <2>8 DEF Promise!LedgerNext, Carried
<1> QED
  BY <1>1, <1>2

LEMMA AcceptMaps ==
  ASSUME IInv, IInv', NEW b \in Batches, WalletAccepts(b)
  PROVE  Promise!LedgerNext
<1> DEFINE S == Carried(b)
           t == <<b, 1>>
<1>1. UNCHANGED <<credited, balances, status, rows>>
  BY DEF WalletAccepts, dbVars
<1>2. status[b] = "sending" /\ txs[b] = 0
  BY DEF WalletAccepts, IInv, LedgerInv, CallInv, UnusedIsBlank, WalletCounts,
     OutcomesMatch, TypeOK, BatchStatus
<1>3. \A d \in Batches : txs'[d] = IF d = b THEN 1 ELSE txs[d]
  BY <1>2 DEF WalletAccepts, IInv, LedgerInv, TypeOK
<1>4. \A c \in S : PlaceOf(c) = "held" /\ PaidBy(c) = {}
  BY <1>2, HeldIsUnpaid
<1>5. \A c \in S : PaidBy(c)' = {t}
  <2> SUFFICES ASSUME NEW c \in S PROVE PaidBy(c)' = {t}
    OBVIOUS
  <2>1. c \in Credits /\ rows'[b][c] > 0
    BY <1>1 DEF Carried
  <2>2. \A d \in Batches : d # b /\ rows'[d][c] > 0 => 1..txs'[d] = {}
    <3> SUFFICES ASSUME NEW d \in Batches, d # b, rows'[d][c] > 0, 1..txs'[d] # {}
                 PROVE  FALSE
      OBVIOUS
    <3>1. <<d, CHOOSE k \in 1..txs[d] : TRUE>> \in PaidBy(c)
      BY <1>1, <1>3 DEF PaidBy
    <3> QED
      BY <1>4, <3>1
  <2>3. 1..txs'[b] = {1}
    BY <1>3
  <2> QED
    BY <2>1, <2>2, <2>3 DEF PaidBy
<1>6. \A c \in Credits \ S : PaidBy(c)' = PaidBy(c)
  <2>1. \A c \in Credits \ S, d \in Batches : rows[d][c] > 0 => txs'[d] = txs[d]
    BY <1>3 DEF Carried
  <2> QED
    BY <1>1, <2>1 DEF PaidBy
<1>7. Place' = Place
  BY <1>1 DEF Place, PlaceOf
<1>8. Promise!Pay(S, t)
  BY <1>4, <1>5, <1>6, <1>7 DEF Promise!Pay, Place, Carried
<1> QED
  BY <1>8 DEF Promise!LedgerNext, Carried

LEMMA StepMaps ==
  ASSUME IInv, IInv', [Next]_vars
  PROVE  [Promise!LedgerNext]_(Promise!lvars)
<1> TypeOK /\ CallsMatch /\ WalletCounts
  BY DEF IInv, LedgerInv, CallInv
<1>1. ASSUME NEW c \in Credits, CreditReward(c) PROVE Promise!LedgerNext
  BY <1>1, CreditMaps
<1>2. ASSUME NEW p \in Procs, BeginPayout(p) PROVE Promise!LedgerNext
  <2>1. PICK b \in Batches : Deduct(b)
    BY <1>2 DEF BeginPayout
  <2>2. UNCHANGED txs
    BY <1>2 DEF BeginPayout, walletVars
  <2> QED
    BY <2>1, <2>2, DeductMaps
<1>3. ASSUME NEW p \in Procs, MarkPaymentsSent(p)
      PROVE  [Promise!LedgerNext]_(Promise!lvars)
  <2>1. batch[p] \in Batches /\ MarkSent(batch[p]) /\ UNCHANGED txs
    BY <1>3 DEF MarkPaymentsSent, At, TypeOK, AfterBegin, walletVars
  <2>2. txs[batch[p]] > 0
    BY <1>3, <2>1 DEF MarkPaymentsSent, At, CallsMatch, WalletCounts
  <2> QED
    BY <2>1, <2>2, MarkMaps
<1>4. ASSUME NEW p \in Procs, RefundBatch(p)
      PROVE  [Promise!LedgerNext]_(Promise!lvars)
  <2>1. batch[p] \in Batches /\ Refund(batch[p]) /\ UNCHANGED txs
    BY <1>4 DEF RefundBatch, At, TypeOK, AfterBegin, walletVars
  <2>2. txs[batch[p]] = 0
    BY <1>4, <2>1 DEF RefundBatch, At, CallsMatch, WalletCounts
  <2> QED
    BY <2>1, <2>2, RefundMaps
<1>5. ASSUME NEW b \in Batches, Reconcile(b)
      PROVE  [Promise!LedgerNext]_(Promise!lvars)
  <2>1. UNCHANGED txs
    BY <1>5 DEF Reconcile, walletVars
  <2>2. CASE txs[b] > 0
    BY <1>5, <2>1, <2>2, MarkMaps DEF Reconcile
  <2>3. CASE ~(txs[b] > 0)
    <3>1. txs[b] = 0 /\ Refund(b)
      BY <1>5, <2>3 DEF Reconcile, TypeOK
    <3> QED
      BY <2>1, <3>1, RefundMaps
  <2> QED
    BY <2>2, <2>3
<1>6. ASSUME NEW b \in Batches, WalletAccepts(b) PROVE Promise!LedgerNext
  BY <1>6, AcceptMaps
<1>7. ASSUME NEW p \in Procs, ProcStep(p), ~BeginPayout(p), ~MarkPaymentsSent(p),
             ~RefundBatch(p)
      PROVE  UNCHANGED <<credited, balances, status, rows, txs>>
  BY <1>7 DEF ProcStep, ScanStuck, BeginNothing, SendMany, SendReturns, SendAborted,
     DatabaseError, Restart, dbVars, walletVars
<1>8. ASSUME NEW p \in Procs, Signal(p) \/ Crash(p)
      PROVE  UNCHANGED <<credited, balances, status, rows, txs>>
  BY <1>8 DEF Signal, Crash, dbVars, walletVars
<1>9. ASSUME NEW b \in Batches, WalletRefuses(b) \/ GracePasses(b)
      PROVE  UNCHANGED <<credited, balances, status, rows, txs>>
  BY <1>9 DEF WalletRefuses, GracePasses, dbVars, walletVars
<1>10. ASSUME UNCHANGED vars
       PROVE  UNCHANGED <<credited, balances, status, rows, txs>>
  BY <1>10 DEF vars, dbVars, walletVars
<1> QED
  BY <1>1, <1>2, <1>3, <1>4, <1>5, <1>6, <1>7, <1>8, <1>9, <1>10, StutterMaps DEF Next

\* The service implements the abstract ledger: no credit is paid by two
\* transactions, released once paid or settled unpaid.
THEOREM RefinementCorrect ==
  ASSUME ~ReplyLoss
  PROVE  Spec => LedgerSpec
<1>1. Init => IInv
  BY TypeInit, ConservedInit, CallInit DEF IInv, LedgerInv
<1>2. IInv /\ [Next]_vars => IInv'
  BY LedgerStep, CallStep DEF IInv, LedgerInv
<1>3. IInv /\ IInv' /\ [Next]_vars => [Promise!LedgerNext]_(Promise!lvars)
  BY StepMaps
<1> QED
  BY <1>1, <1>2, <1>3, PlacesInit, PTL DEF Spec, LedgerSpec, Promise!Ledger
=============================================================================
