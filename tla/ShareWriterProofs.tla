------------------------- MODULE ShareWriterProofs -------------------------
(***************************************************************************)
(* What is proved of ShareWriter, for any number of shares, sizes of the   *)
(* buffers and of the WAL, faults, crashes and shutdowns: its types, that  *)
(* each accepted share is in one place, and that the counters tell the     *)
(* truth.                                                                  *)
(***************************************************************************)
EXTENDS ShareWriter, TLAPS

----------------------------------------------------------------------------
\* A flush empties the batch and the retained shares, which stay empty until it
\* ends; the last drain waits for the flusher; records a drain has inserted are in
\* the table.
Flushed ==
  /\ loop = "flush" => pending = {} /\ batch = {}
  /\ phase \in {"draining", "closed"} => loop = "done"
  /\ drained \subseteq db

\* One place of the share s, or none if it is not accepted.
Once(s) ==
  /\ s \in accepted <=> s \in Memory \cup written \cup diverted \cup dropped \cup cut
  /\ s \in diverting =>
       s \notin ch \cup batch \cup pending \cup flushing \cup overflow
                \cup written \cup diverted \cup dropped \cup cut
  /\ s \in ch =>
       s \notin batch \cup pending \cup flushing \cup overflow
                \cup written \cup diverted \cup dropped \cup cut
  /\ s \in batch =>
       s \notin pending \cup flushing \cup overflow \cup written \cup diverted \cup dropped \cup cut
  /\ s \in pending =>
       s \notin flushing \cup overflow \cup written \cup diverted \cup dropped \cup cut
  /\ s \in flushing => s \notin overflow \cup written \cup diverted \cup dropped \cup cut
  /\ s \in overflow => s \notin written \cup diverted \cup dropped \cup cut
  /\ s \in written => s \notin diverted \cup dropped \cup cut
  /\ s \in diverted => s \notin dropped \cup cut
  /\ s \in dropped => s \notin cut

AllOnce == \A s : Once(s)

IInv == TypeOK /\ Flushed /\ AllOnce /\ CountersTellTruth

----------------------------------------------------------------------------
(***************************************************************************)
(* The helpers.                                                            *)
(***************************************************************************)

\* A call takes a fault or none, and adds the shares it was given or none.
LEMMA InsertFacts ==
  ASSUME TypeOK, NEW S \in SUBSET accepted, NEW idempotent, NEW cancelled
  PROVE  /\ InsertSucceeds(S, idempotent) => db' = db \cup S /\ faults' \in 0..MaxFaults
         /\ InsertFails(S, idempotent, cancelled) =>
              db' \in {db, db \cup S} /\ faults' \in 0..MaxFaults
BY ShareWriterAssumption DEF InsertSucceeds, InsertFails, Fault, NoFault, TypeOK

\* divert writes off the share or puts it into the WAL and counts it there.
LEMMA DivertFacts ==
  ASSUME TypeOK, NEW s \in accepted, Divert(s)
  PROVE  /\ drain = "idle" /\ faults' \in 0..MaxFaults
         /\ wal' \in {wal, wal \cup {s}}
         /\ \/ diverted' = diverted \cup {s} /\ wal' = wal \cup {s} /\ dropped' = dropped
            \/ diverted' = diverted /\ dropped' = dropped \cup {s}
BY ShareWriterAssumption DEF Divert, Fault, NoFault, TypeOK

\* retain splits the shares of the failed flush.
LEMMA RetainFacts ==
  ASSUME NEW S, Retain(S), overflow = {}
  PROVE  /\ pending' \cup overflow' = S /\ pending' \cap overflow' = {}
         /\ loop' = IF overflow' = {} THEN "select" ELSE "retain"
<1>1. CASE Cardinality(S) <= MaxRetained
  BY <1>1 DEF Retain
<1>2. CASE ~(Cardinality(S) <= MaxRetained)
  <2>1. PICK K \in kSubset(MaxRetained, S) : pending' = K /\ overflow' = S \ K
    BY <1>2 DEF Retain
  <2>2. loop' = "retain" /\ K \subseteq S /\ Cardinality(K) = MaxRetained
    BY <1>2, <2>1 DEF Retain, kSubset
  <2>3. K # S
    BY <1>2, <2>2, ShareWriterAssumption
  <2> QED BY <2>1, <2>2, <2>3
<1> QED BY <1>1, <1>2

----------------------------------------------------------------------------
(***************************************************************************)
(* Types.                                                                  *)
(***************************************************************************)
LEMMA TypeStep == TypeOK /\ Flushed /\ [Next]_vars => TypeOK' /\ Flushed'
<1> SUFFICES ASSUME TypeOK, Flushed, [Next]_vars PROVE TypeOK' /\ Flushed'
  OBVIOUS
<1> USE ShareWriterAssumption DEF Memory, callVars, loopVars, walVars, countVars, NoFault
<1>1. ASSUME NEW s \in Shares, Enqueue(s) PROVE TypeOK' /\ Flushed'
  BY <1>1 DEF Enqueue, TypeOK, Flushed
<1>2. ASSUME NEW s \in Shares, DivertShare(s) PROVE TypeOK' /\ Flushed'
  <2>1. s \in accepted /\ Divert(s)
    BY <1>2 DEF DivertShare, TypeOK
  <2> QED BY <1>2, <2>1, DivertFacts DEF DivertShare, TypeOK, Flushed
<1>3. ASSUME NEW s \in Shares, Receive(s) PROVE TypeOK' /\ Flushed'
  <2>1. CASE Cardinality(batch \cup {s}) >= BatchSize
    <3>1. Flush(batch \cup {s})
      BY <1>3, <2>1 DEF Receive
    <3>2. hadRetained' \in BOOLEAN
      BY <3>1 DEF Flush
    <3>3. flushing' = pending \cup batch \cup {s} /\ pending' = {} /\ batch' = {}
          /\ loop' = "flush"
      BY <3>1 DEF Flush
    <3> QED BY <1>3, <3>2, <3>3 DEF Receive, TypeOK, Flushed
  <2>2. CASE ~(Cardinality(batch \cup {s}) >= BatchSize)
    BY <1>3, <2>2 DEF Receive, TypeOK, Flushed
  <2> QED BY <2>1, <2>2
<1>4. CASE Tick
  BY <1>4 DEF Tick, Flush, TypeOK, Flushed
<1>5. CASE FlushSucceeds
  <2>1. flushing \in SUBSET accepted
    BY DEF TypeOK
  <2>2. db' = db \cup flushing /\ faults' \in 0..MaxFaults
    BY <1>5, <2>1, InsertFacts DEF FlushSucceeds
  <2> QED BY <1>5, <2>2 DEF FlushSucceeds, TypeOK, Flushed
<1>6. CASE FlushFails
  <2>1. flushing \in SUBSET accepted /\ overflow = {}
    BY <1>6 DEF FlushFails, TypeOK
  <2>2. db' \in {db, db \cup flushing} /\ faults' \in 0..MaxFaults
    BY <1>6, <2>1, InsertFacts DEF FlushFails
  <2>3. /\ pending' \cup overflow' = flushing /\ flushing' = {}
        /\ loop' = IF overflow' = {} THEN "select" ELSE "retain"
    BY <1>6, <2>1, RetainFacts DEF FlushFails
  <2> QED BY <1>6, <2>1, <2>2, <2>3 DEF FlushFails, TypeOK, Flushed
<1>7. ASSUME NEW s \in Shares, DivertOverflow(s) PROVE TypeOK' /\ Flushed'
  <2>1. s \in accepted /\ Divert(s)
    BY <1>7 DEF DivertOverflow, TypeOK
  <2> QED BY <1>7, <2>1, DivertFacts DEF DivertOverflow, TypeOK, Flushed
<1>8. CASE StopLoop
  BY <1>8 DEF StopLoop, TypeOK, Flushed
<1>9. CASE FinalFlush
  <2>1. flushing \in SUBSET accepted
    BY DEF TypeOK
  <2>2. db' \in {db, db \cup flushing} /\ faults' \in 0..MaxFaults
    BY <1>9, <2>1, InsertFacts DEF FinalFlush
  <2> QED BY <1>9, <2>2 DEF FinalFlush, TypeOK, Flushed
<1>10. CASE DrainStart
  BY <1>10 DEF DrainStart, TypeOK, Flushed
<1>11. CASE DrainInsert
  <2>1. PICK B \in NextBatches :
          \/ /\ InsertSucceeds(B, TRUE) /\ drained' = drained \cup B
             /\ drain' \in {"rewrite", "insert"}
          \/ /\ InsertFails(B, TRUE, phase = "closing") /\ drain' = "rewrite"
             /\ drained' = drained
    BY <1>11 DEF DrainInsert
  <2>2. B \subseteq wal /\ B \in SUBSET accepted
    BY <2>1 DEF NextBatches, kSubset, TypeOK
  <2>3. faults' \in 0..MaxFaults
        /\ \/ db' = db \cup B /\ drained' = drained \cup B
           \/ db' \in {db, db \cup B} /\ drained' = drained
    BY <2>1, <2>2, InsertFacts
  <2>4. drain' \in {"rewrite", "insert"}
    BY <2>1
  <2> QED BY <1>11, <2>2, <2>3, <2>4 DEF DrainInsert, TypeOK, Flushed
<1>12. CASE DrainRewrite
  BY <1>12 DEF DrainRewrite, Fault, TypeOK, Flushed, Phases
<1>13. CASE Close
  BY <1>13 DEF Close, TypeOK, Flushed, Phases
<1>16. CASE FinalDrain
  BY <1>16 DEF FinalDrain, TypeOK, Flushed, Phases
<1>17. CASE Restart
  BY <1>17 DEF Restart, TypeOK, Flushed, Phases
<1>14. CASE Crash
  <2>1. PICK C \in {{}, flushing}, B \in {{}} \cup NextBatches : db' = db \cup C \cup B
    BY <1>14 DEF Crash
  <2>2. B \subseteq accepted /\ C \subseteq accepted
    BY <2>1 DEF NextBatches, kSubset, TypeOK
  <2>3. wal' \subseteq wal /\ cut' = cut \cup Memory /\ faults' \in 0..MaxFaults
    BY <1>14 DEF Crash, Fault, TypeOK
  <2>4. /\ diverting' = {} /\ ch' = {} /\ batch' = {} /\ pending' = {} /\ flushing' = {}
        /\ overflow' = {} /\ loop' = "select" /\ hadRetained' = FALSE /\ drain' = "idle"
        /\ drained' = {} /\ phase' = "running"
        /\ UNCHANGED <<accepted, written, diverted, dropped, stops>>
    BY <1>14 DEF Crash
  <2>5. db' \cup wal' \cup cut' \cup written' \cup diverted' \cup dropped' \subseteq accepted'
    <3>1. db' \subseteq accepted
      BY <2>1, <2>2 DEF TypeOK
    <3>2. wal' \subseteq accepted
      BY <2>3 DEF TypeOK
    <3>3. cut' \subseteq accepted
      BY <2>3 DEF TypeOK
    <3>4. written \cup diverted \cup dropped \subseteq accepted
      BY DEF TypeOK
    <3> QED BY <2>4, <3>1, <3>2, <3>3, <3>4
  <2> QED BY <2>3, <2>4, <2>5 DEF TypeOK, Flushed, Phases
<1>15. CASE UNCHANGED vars
  BY <1>15 DEF vars, TypeOK, Flushed
<1> QED BY <1>1, <1>2, <1>3, <1>4, <1>5, <1>6, <1>7, <1>8, <1>9, <1>10, <1>11, <1>12,
           <1>13, <1>14, <1>15, <1>16, <1>17 DEF Next, LoopStep, DrainStep

----------------------------------------------------------------------------
(***************************************************************************)
(* Each share is in one place.                                             *)
(***************************************************************************)

\* A share moves from one place to the next: no step leaves it in both or in
\* neither, and a crash counts what was in memory.
LEMMA OnceStep == TypeOK /\ Flushed /\ AllOnce /\ [Next]_vars => AllOnce'
<1> SUFFICES ASSUME TypeOK, Flushed, AllOnce, [Next]_vars, NEW x PROVE Once(x)'
  BY DEF AllOnce
<1>a. Once(x)
  BY DEF AllOnce
<1>b. loop \notin {"flush", "final"} => flushing = {}
  BY DEF TypeOK
<1>c. loop # "retain" => overflow = {}
  BY DEF TypeOK
<1> USE DEF Memory, callVars, loopVars, walVars, countVars
<1>1. ASSUME NEW s \in Shares, Enqueue(s) PROVE Once(x)'
  BY <1>1, <1>a DEF Enqueue, Once
<1>2. ASSUME NEW s \in Shares, DivertShare(s) PROVE Once(x)'
  <2>1. \/ diverted' = diverted \cup {s} /\ dropped' = dropped
        \/ diverted' = diverted /\ dropped' = dropped \cup {s}
    BY <1>2 DEF DivertShare, Divert
  <2> QED BY <1>2, <1>a, <2>1 DEF DivertShare, Once
<1>3. ASSUME NEW s \in Shares, Receive(s) PROVE Once(x)'
  <2>1. CASE Cardinality(batch \cup {s}) >= BatchSize
    <3>1. flushing' = pending \cup (batch \cup {s}) /\ pending' = {} /\ batch' = {}
      BY <1>3, <2>1 DEF Receive, Flush
    <3>2. s \in ch /\ ch' = ch \ {s} /\ flushing = {}
          /\ UNCHANGED <<accepted, diverting, overflow, written, diverted, dropped, cut>>
      BY <1>3, <1>b DEF Receive
    <3> QED BY <1>a, <3>1, <3>2 DEF Once
  <2>2. CASE ~(Cardinality(batch \cup {s}) >= BatchSize)
    BY <1>3, <1>a, <2>2 DEF Receive, Once
  <2> QED BY <2>1, <2>2
<1>4. CASE Tick
  BY <1>4, <1>a, <1>b DEF Tick, Flush, Once
<1>5. CASE FlushSucceeds
  BY <1>5, <1>a DEF FlushSucceeds, Once
<1>6. CASE FlushFails
  <2>1. overflow = {} /\ pending = {}
    BY <1>6, <1>c DEF FlushFails, Flushed
  <2>2. pending' \cup overflow' = flushing /\ pending' \cap overflow' = {}
    BY <1>6, <2>1, RetainFacts DEF FlushFails
  <2> QED BY <1>6, <1>a, <2>1, <2>2 DEF FlushFails, Once
<1>7. ASSUME NEW s \in Shares, DivertOverflow(s) PROVE Once(x)'
  <2>1. \/ diverted' = diverted \cup {s} /\ dropped' = dropped
        \/ diverted' = diverted /\ dropped' = dropped \cup {s}
    BY <1>7 DEF DivertOverflow, Divert
  <2> QED BY <1>7, <1>a, <2>1 DEF DivertOverflow, Once
<1>8. CASE StopLoop
  BY <1>8, <1>a, <1>b DEF StopLoop, Once
<1>9. CASE FinalFlush
  BY <1>9, <1>a DEF FinalFlush, Once
<1>10. CASE DrainStep \/ Close \/ FinalDrain \/ Restart
  BY <1>10, <1>a DEF DrainStep, DrainStart, DrainInsert, DrainRewrite, Close, FinalDrain,
                     Restart, Once
<1>11. CASE Crash
  BY <1>11, <1>a DEF Crash, Once
<1>12. CASE UNCHANGED vars
  BY <1>12, <1>a DEF vars, Once
<1> QED BY <1>1, <1>2, <1>3, <1>4, <1>5, <1>6, <1>7, <1>8, <1>9, <1>10, <1>11, <1>12
        DEF Next, LoopStep

\* Once is what CountedOnce says of each share.
LEMMA OnceIsCountedOnce == AllOnce => CountedOnce
<1> SUFFICES ASSUME AllOnce PROVE CountedOnce
  OBVIOUS
<1> DEFINE H == Holders
<1>1. DOMAIN H = 1..10
  BY DEF Holders
<1>2. /\ H[1] = diverting /\ H[2] = ch /\ H[3] = batch /\ H[4] = pending /\ H[5] = flushing
      /\ H[6] = overflow /\ H[7] = written /\ H[8] = diverted /\ H[9] = dropped /\ H[10] = cut
  BY DEF Holders
<1> HIDE DEF H
<1>3. \A i \in 1..10 : i = 1 \/ i = 2 \/ i = 3 \/ i = 4 \/ i = 5 \/ i = 6 \/ i = 7 \/ i = 8
                       \/ i = 9 \/ i = 10
  OBVIOUS
<1>4. accepted = UNION {H[i] : i \in DOMAIN H}
  <2>1. ASSUME NEW x PROVE x \in accepted <=> \E i \in 1..10 : x \in H[i]
    <3>1. x \in accepted <=> x \in Memory \cup written \cup diverted \cup dropped \cup cut
      BY DEF AllOnce, Once
    <3> QED BY <1>2, <1>3, <3>1 DEF Memory
  <2> QED BY <1>1, <2>1
<1>5. ASSUME NEW i \in 1..10, NEW j \in 1..10, i # j PROVE H[i] \cap H[j] = {}
  <2> SUFFICES ASSUME NEW x, x \in H[i], x \in H[j] PROVE FALSE
    OBVIOUS
  <2>1. Once(x)
    BY DEF AllOnce
  <2> QED BY <1>2, <1>3, <1>5, <2>1 DEF Once
<1> QED BY <1>1, <1>4, <1>5 DEF CountedOnce, H

----------------------------------------------------------------------------
(***************************************************************************)
(* The counters tell the truth.                                            *)
(***************************************************************************)

\* The table only grows; a share leaves the WAL only when it is in the table.
LEMMA TruthStep ==
  TypeOK /\ Flushed /\ CountersTellTruth /\ [Next]_vars => CountersTellTruth'
<1> SUFFICES ASSUME TypeOK, Flushed, CountersTellTruth, [Next]_vars PROVE CountersTellTruth'
  OBVIOUS
<1> USE DEF callVars, loopVars, walVars, countVars, CountersTellTruth
<1>1. ASSUME NEW s \in Shares, Enqueue(s) \/ Receive(s) PROVE CountersTellTruth'
  BY <1>1 DEF Enqueue, Receive
<1>2. ASSUME NEW s \in Shares, DivertShare(s) \/ DivertOverflow(s) PROVE CountersTellTruth'
  <2>1. UNCHANGED <<db, written>> /\ Divert(s)
    BY <1>2 DEF DivertShare, DivertOverflow
  <2>2. \/ diverted' = diverted \cup {s} /\ wal' = wal \cup {s}
        \/ diverted' = diverted /\ wal' \in {wal, wal \cup {s}}
    BY <2>1 DEF Divert
  <2> QED BY <2>1, <2>2
<1>3. CASE FlushSucceeds
  BY <1>3 DEF FlushSucceeds, InsertSucceeds
<1>4. CASE FlushFails
  BY <1>4 DEF FlushFails, InsertFails
<1>5. CASE FinalFlush
  BY <1>5 DEF FinalFlush, InsertSucceeds, InsertFails
<1>6. CASE DrainInsert
  <2>1. UNCHANGED <<wal, written, diverted>>
    BY <1>6 DEF DrainInsert
  <2>2. db \subseteq db'
    BY <1>6 DEF DrainInsert, InsertSucceeds, InsertFails
  <2> QED BY <2>1, <2>2
<1>7. CASE DrainRewrite
  BY <1>7 DEF DrainRewrite, Flushed
<1>8. CASE Crash
  <2>1. db \subseteq db' /\ UNCHANGED <<written, diverted>>
    BY <1>8 DEF Crash
  <2>2. wal' \in {wal, wal \ drained}
    BY <1>8 DEF Crash
  <2> QED BY <2>1, <2>2 DEF Flushed
<1>9. CASE Tick \/ StopLoop \/ DrainStart \/ Close \/ FinalDrain \/ Restart
  BY <1>9 DEF Tick, StopLoop, DrainStart, Close, FinalDrain, Restart
<1>10. CASE UNCHANGED vars
  BY <1>10 DEF vars
<1> QED BY <1>1, <1>2, <1>3, <1>4, <1>5, <1>6, <1>7, <1>8, <1>9, <1>10
        DEF Next, LoopStep, DrainStep

----------------------------------------------------------------------------
(***************************************************************************)
(* The theorems.                                                           *)
(***************************************************************************)
LEMMA Inductive == Spec => []IInv
<1>1. Init => IInv
  <2> SUFFICES ASSUME Init PROVE IInv
    OBVIOUS
  <2> USE DEF Init
  <2>1. TypeOK
    <3>1. stops \in 0..MaxStops /\ faults \in 0..MaxFaults
      BY ShareWriterAssumption
    <3>2. Memory \cup wal \cup db \cup written \cup diverted \cup dropped \cup cut = {}
      BY DEF Memory
    <3> QED BY <3>1, <3>2 DEF TypeOK, Phases
  <2>2. Flushed /\ CountersTellTruth
    BY DEF Flushed, CountersTellTruth
  <2>3. AllOnce
    BY DEF AllOnce, Once, Memory
  <2> QED BY <2>1, <2>2, <2>3 DEF IInv
<1>2. IInv /\ [Next]_vars => IInv'
  BY TypeStep, OnceStep, TruthStep DEF IInv
<1> QED BY <1>1, <1>2, PTL DEF Spec

\* What the buffers, the WAL, the table and the counters hold are accepted shares,
\* and the flusher's place says which of its buffers are in use.
THEOREM TypeCorrect == Spec => []TypeOK
<1>1. IInv => TypeOK
  BY DEF IInv
<1> QED BY <1>1, Inductive, PTL

\* Every accepted share is in one buffer or counted by one counter, and in one only,
\* through flushes that fail, overflows, crashes and shutdowns.
THEOREM CountedOnceCorrect == Spec => []CountedOnce
<1>1. IInv => CountedOnce
  BY OnceIsCountedOnce DEF IInv
<1> QED BY <1>1, Inductive, PTL

\* A share counted as written is in the table; one counted as diverted is in the WAL
\* or in the table, whatever drain, rewrite or crash has come since.
THEOREM CountersCorrect == Spec => []CountersTellTruth
<1>1. IInv => CountersTellTruth
  BY DEF IInv
<1> QED BY <1>1, Inductive, PTL
=============================================================================
