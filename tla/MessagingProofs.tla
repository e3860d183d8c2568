-------------------------- MODULE MessagingProofs --------------------------
(***************************************************************************)
(* What is proved of Messaging, for any number of shares and blocks, any   *)
(* size of the spool, and any number of failures, crashes and stops of     *)
(* both sides: its types, that no outage loses an event, and that a row    *)
(* is repeated only after a failure.                                       *)
(***************************************************************************)
EXTENDS Messaging, Integers, TLAPS

----------------------------------------------------------------------------
Message(e, sunk) == [event |-> e, sunk |-> sunk]

\* A message that is being handled is unacknowledged, and only a drain that is at
\* work has records it has handed on.
Tokens ==
  /\ hand # NoMessage => stream[hand.event] > 0
  /\ drain = "idle" => handed = {}
  /\ handed \subseteq spool

Base == TypeOK /\ Tokens

----------------------------------------------------------------------------
(***************************************************************************)
(* Types.                                                                  *)
(***************************************************************************)
LEMMA MessageFacts ==
  /\ NoMessage.event = "none" /\ NoMessage.sunk = FALSE
  /\ \A e \in Events : \A b : Message(e, b) # NoMessage
  /\ \A e, b : Message(e, b).event = e /\ Message(e, b).sunk = b
  /\ "none" \notin Events /\ \A e \in Shares : e \in Events /\ e \notin Blocks
  /\ MaxFaults \in Nat
BY MessagingAssumption DEF Message, NoMessage, Events

\* What a step of the node may do to types and tokens.
LEMMA NodeStep == Base /\ NodeNext => Base'
<1> SUFFICES ASSUME Base, NodeNext PROVE Base'
  OBVIOUS
<1> USE MessageFacts DEF masterVars, ghostVars, nodeVars, Fault
<1>a. stream \in [Events -> Nat] /\ pub \in [Events -> {"none", "sent", "stored", "failed", "done"}]
  BY DEF Base, TypeOK
<1>b. hand \in [event : Events, sunk : BOOLEAN] \cup {NoMessage}
  BY DEF Base, TypeOK
<1>g. ASSUME stream' \in [Events -> Nat], \A e \in Events : stream'[e] >= stream[e], hand' = hand
      PROVE  hand' # NoMessage => stream'[hand'.event] > 0
  BY <1>a, <1>b, <1>g DEF Base, Tokens
<1>s. ASSUME NEW e \in Events, Store(e)
      PROVE  stream' \in [Events -> Nat] /\ \A x \in Events : stream'[x] >= stream[x]
  BY <1>a, <1>s DEF Store
<1>1. ASSUME NEW e \in Events, RecordEvent(e) PROVE Base'
  <2>1. pub' \in [Events -> {"none", "sent", "stored", "failed", "done"}]
    BY <1>1, <1>a DEF RecordEvent
  <2> QED BY <1>1, <2>1 DEF RecordEvent, Base, TypeOK, Tokens
<1>2. ASSUME NEW e \in Events, StreamStores(e) PROVE Base'
  <2>1. /\ stream' \in [Events -> Nat] /\ (hand' # NoMessage => stream'[hand'.event] > 0)
        /\ pub' \in [Events -> {"none", "sent", "stored", "failed", "done"}]
    BY <1>2, <1>a, <1>g, <1>s DEF StreamStores
  <2> QED BY <1>2, <2>1 DEF StreamStores, Base, TypeOK, Tokens
<1>3. ASSUME NEW e \in Events, AckArrives(e) \/ StreamRefuses(e) PROVE Base'
  <2>1. pub' \in [Events -> {"none", "sent", "stored", "failed", "done"}]
    BY <1>3, <1>a DEF AckArrives, StreamRefuses
  <2>2. faults' \in 0..MaxFaults
    BY <1>3 DEF AckArrives, StreamRefuses, Base, TypeOK
  <2> QED BY <1>3, <2>1, <2>2 DEF AckArrives, StreamRefuses, Base, TypeOK, Tokens
<1>4. ASSUME NEW e \in Events, SpoolAppend(e) PROVE Base'
  <2>1. pub' \in [Events -> {"none", "sent", "stored", "failed", "done"}]
    BY <1>4, <1>a DEF SpoolAppend
  <2>2. /\ spool' \subseteq Events /\ spool \subseteq spool' /\ writtenOff' \subseteq Events
    BY <1>4 DEF SpoolAppend, Base, TypeOK
  <2> QED BY <1>4, <2>1, <2>2 DEF SpoolAppend, Base, TypeOK, Tokens
<1>5. ASSUME NEW e \in Events, DrainPublish(e) PROVE Base'
  <2>1. stream' \in [Events -> Nat] /\ (hand' # NoMessage => stream'[hand'.event] > 0)
    BY <1>5, <1>g, <1>s DEF DrainPublish
  <2> QED BY <1>5, <2>1 DEF DrainPublish, Base, TypeOK, Tokens
<1>6. ASSUME NEW e \in Events, DrainFails(e) PROVE Base'
  <2>1. /\ stream' \in [Events -> Nat] /\ (hand' # NoMessage => stream'[hand'.event] > 0)
    BY <1>6, <1>a, <1>g, <1>s DEF DrainFails
  <2>2. faults' \in 0..MaxFaults /\ repeated' \subseteq Events
    BY <1>6 DEF DrainFails, Base, TypeOK
  <2> QED BY <1>6, <2>1, <2>2 DEF DrainFails, Base, TypeOK, Tokens
<1>7. CASE Reconnect
  <2>1. PICK flushed \in SUBSET Events :
          /\ stream' = [e \in Events |-> stream[e] + IF e \in flushed THEN 1 ELSE 0]
          /\ repeated' = repeated \cup flushed \cup {e \in Events : pub[e] = "stored"}
    BY <1>7 DEF Reconnect
  <2>2. stream' \in [Events -> Nat] /\ \A e \in Events : stream'[e] >= stream[e]
    BY <1>a, <2>1
  <2>3. hand' # NoMessage => stream'[hand'.event] > 0
    BY <1>7, <1>g, <2>2 DEF Reconnect
  <2>4. pub' \in [Events -> {"none", "sent", "stored", "failed", "done"}]
    BY <1>7, <1>a DEF Reconnect
  <2> QED BY <1>7, <2>1, <2>2, <2>3, <2>4 DEF Reconnect, Base, TypeOK, Tokens
<1>8. CASE DrainStart \/ DrainEnd
  BY <1>8 DEF DrainStart, DrainEnd, Base, TypeOK, Tokens
<1>10. CASE Disconnect \/ NodeStops
  <2>1. faults' \in 0..MaxFaults
    BY <1>10 DEF Disconnect, NodeStops, Base, TypeOK
  <2> QED BY <1>10, <2>1 DEF Disconnect, NodeStops, Base, TypeOK, Tokens
<1>11. CASE ClientCloses \/ SpoolCloses \/ NodeStarts
  BY <1>11 DEF ClientCloses, SpoolCloses, NodeStarts, Base, TypeOK, Tokens
<1>9. CASE NodeExits \/ NodeCrashes
  <2>1. ProcessEnds /\ faults' \in 0..MaxFaults
    BY <1>9 DEF NodeExits, NodeCrashes, Base, TypeOK
  <2>2. pub' \in [Events -> {"none", "sent", "stored", "failed", "done"}]
    BY <2>1, <1>a DEF ProcessEnds
  <2> QED BY <2>1, <2>2 DEF ProcessEnds, Base, TypeOK, Tokens
<1>12. ASSUME NEW e \in Events, SpoolAppendFails(e) PROVE Base'
  <2>1. pub' \in [Events -> {"none", "sent", "stored", "failed", "done"}]
    BY <1>12, <1>a DEF SpoolAppendFails
  <2>2. /\ spool' \subseteq Events /\ spool \subseteq spool' /\ writtenOff' \subseteq Events
        /\ faults' \in 0..MaxFaults
    BY <1>12 DEF SpoolAppendFails, Base, TypeOK
  <2> QED BY <1>12, <2>1, <2>2 DEF SpoolAppendFails, Base, TypeOK, Tokens
<1>13. ASSUME NEW e \in Events, DrainSkips(e) PROVE Base'
  <2>1. /\ spool' \subseteq Events /\ handed \subseteq spool' /\ writtenOff' \subseteq Events
        /\ faults' \in 0..MaxFaults
    BY <1>13 DEF DrainSkips, Base, TypeOK, Tokens
  <2> QED BY <1>13, <2>1 DEF DrainSkips, Base, TypeOK, Tokens
<1>14. CASE RewriteFails
  <2>1. faults' \in 0..MaxFaults /\ repeated' \subseteq Events
    BY <1>14 DEF RewriteFails, Base, TypeOK
  <2> QED BY <1>14, <2>1 DEF RewriteFails, Base, TypeOK, Tokens
<1> QED BY <1>1, <1>2, <1>3, <1>4, <1>5, <1>6, <1>7, <1>8, <1>9, <1>10, <1>11, <1>12, <1>13, <1>14
        DEF NodeNext

\* A loss of the writer keeps the types.
LEMMA LosesTypes ==
  ASSUME TypeOK, NEW lost \in SUBSET Shares, Loses(lost)
  PROVE  memory' \in [Shares -> Nat] /\ writtenOff' \subseteq Events
BY DEF Loses, TypeOK, Events

LEMMA MasterStep == Base /\ MasterNext => Base'
<1> SUFFICES ASSUME Base, MasterNext PROVE Base'
  OBVIOUS
<1> USE MessageFacts DEF masterVars, ghostVars, nodeVars, Fault, Message
<1>a. stream \in [Events -> Nat] /\ memory \in [Shares -> Nat] /\ table \in [Events -> Nat]
  BY DEF Base, TypeOK
<1>b. hand \in [event : Events, sunk : BOOLEAN] \cup {NoMessage}
  BY DEF Base, TypeOK
<1>1. ASSUME NEW e \in Events, Deliver(e) PROVE Base'
  BY <1>1 DEF Deliver, Base, TypeOK, Tokens
<1>2. ASSUME NEW e \in Events, Ack(e) PROVE Base'
  <2>1. stream[e] > 0 /\ hand' = NoMessage /\ stream' = [stream EXCEPT ![e] = @ - 1]
    BY <1>2 DEF Ack, Base, Tokens
  <2>2. stream' \in [Events -> Nat]
    BY <1>a, <2>1
  <2> QED BY <1>2, <2>1, <2>2 DEF Ack, Base, TypeOK, Tokens
<1>3. ASSUME NEW e \in Events, AckLost(e) PROVE Base'
  BY <1>3 DEF AckLost, Base, TypeOK, Tokens
<1>4. ASSUME NEW s \in Shares, SinkShare(s) PROVE Base'
  <2>1. /\ hand = Message(s, FALSE) /\ hand' = Message(s, TRUE)
        /\ stream' = stream /\ stream[s] > 0
    BY <1>4 DEF SinkShare, Handling, Sunk, Base, Tokens
  <2>2. memory' \in [Shares -> Nat] /\ writtenOff' \subseteq Events
    BY <1>4, <1>a DEF SinkShare, Base, TypeOK
  <2> QED BY <1>4, <2>1, <2>2 DEF SinkShare, Base, TypeOK, Tokens
<1>5. ASSUME NEW b \in Blocks, SinkBlock(b) \/ SinkBlockFails(b) PROVE Base'
  <2>1. b \in Events
    BY DEF Events
  <2>2. /\ hand = Message(b, FALSE) /\ hand' = Message(b, TRUE)
        /\ stream' = stream /\ stream[b] > 0
    BY <1>5, <2>1 DEF SinkBlock, SinkBlockFails, Handling, Sunk, Base, Tokens
  <2>3. table' \in [Events -> Nat] /\ writtenOff' \subseteq Events /\ faults' \in 0..MaxFaults
    BY <1>5, <1>a, <2>1 DEF SinkBlock, SinkBlockFails, Base, TypeOK
  <2> QED BY <1>5, <2>1, <2>2, <2>3 DEF SinkBlock, SinkBlockFails, Base, TypeOK, Tokens
<1>6. ASSUME NEW s \in Shares, WriterInserts(s) PROVE Base'
  <2>1. memory' \in [Shares -> Nat] /\ table' \in [Events -> Nat]
    BY <1>6, <1>a DEF WriterInserts
  <2> QED BY <1>6, <2>1 DEF WriterInserts, Base, TypeOK, Tokens
<1>7. CASE WriterCloses
  <2>1. memory' \in [Shares -> Nat] /\ table' \in [Events -> Nat]
    BY <1>7, <1>a DEF WriterCloses
  <2> QED BY <1>7, <2>1 DEF WriterCloses, Base, TypeOK, Tokens
<1>8. CASE MasterExits \/ MasterCrashes
  <2>1. MasterEnds /\ faults' \in 0..MaxFaults
    BY <1>8 DEF MasterExits, MasterCrashes, Base, TypeOK
  <2>2. memory' \in [Shares -> Nat] /\ writtenOff' \subseteq Events
    BY <1>8, LosesTypes DEF MasterExits, MasterCrashes, Base, TypeOK
  <2>3. repeated' \subseteq Events
    BY <2>1 DEF MasterEnds, Base, TypeOK
  <2> QED BY <2>1, <2>2, <2>3 DEF MasterEnds, Base, TypeOK, Tokens
<1>9. CASE MasterStops \/ MasterStarts
  BY <1>9 DEF MasterStops, MasterStarts, Base, TypeOK, Tokens
<1>10. ASSUME NEW e \in Events, Expire(e) PROVE Base'
  <2>1. /\ stream' = [stream EXCEPT ![e] = @ - 1] /\ stream[e] > 0
        /\ hand.event = e => stream[e] > 1
    BY <1>10, <1>a DEF Expire
  <2>2. stream' \in [Events -> Nat]
    BY <1>a, <2>1
  <2>3. hand # NoMessage => stream'[hand.event] > 0
    <3>1. hand # NoMessage => hand.event \in Events /\ stream[hand.event] > 0
      BY <1>b DEF Base, Tokens
    <3> QED BY <1>a, <2>1, <3>1
  <2>4. faults' \in 0..MaxFaults /\ writtenOff' \subseteq Events
    BY <1>10 DEF Expire, Base, TypeOK
  <2> QED BY <1>10, <2>2, <2>3, <2>4 DEF Expire, Base, TypeOK, Tokens
<1>11. ASSUME NEW s \in Shares, SinkShareDrops(s) PROVE Base'
  <2>1. /\ hand = Message(s, FALSE) /\ hand' = Message(s, TRUE)
        /\ stream' = stream /\ stream[s] > 0
    BY <1>11 DEF SinkShareDrops, Handling, Sunk, Base, Tokens
  <2>2. writtenOff' \subseteq Events /\ faults' \in 0..MaxFaults
    BY <1>11 DEF SinkShareDrops, Base, TypeOK
  <2> QED BY <1>11, <2>1, <2>2 DEF SinkShareDrops, Base, TypeOK, Tokens
<1>12. ASSUME NEW s \in Shares, WriterDrops(s) PROVE Base'
  <2>1. memory' \in [Shares -> Nat]
    BY <1>12, <1>a DEF WriterDrops
  <2>2. writtenOff' \subseteq Events /\ faults' \in 0..MaxFaults
    BY <1>12 DEF WriterDrops, Base, TypeOK
  <2> QED BY <1>12, <2>1, <2>2 DEF WriterDrops, Base, TypeOK, Tokens
<1>13. CASE FinalFlushFails
  <2>1. memory' \in [Shares -> Nat] /\ writtenOff' \subseteq Events
    BY <1>13, LosesTypes DEF FinalFlushFails, Base
  <2>2. faults' \in 0..MaxFaults
    BY <1>13 DEF FinalFlushFails, Base, TypeOK
  <2> QED BY <1>13, <2>1, <2>2 DEF FinalFlushFails, Base, TypeOK, Tokens
<1> QED BY <1>1, <1>2, <1>3, <1>4, <1>5, <1>6, <1>7, <1>8, <1>9, <1>10, <1>11, <1>12, <1>13
        DEF MasterNext

LEMMA BaseStep == Base /\ [Next]_vars => Base'
<1>1. Base /\ UNCHANGED vars => Base'
  BY DEF vars, nodeVars, masterVars, ghostVars, Base, TypeOK, Tokens
<1> QED BY <1>1, NodeStep, MasterStep DEF Next

----------------------------------------------------------------------------
(***************************************************************************)
(* Outages lose nothing.                                                   *)
(***************************************************************************)
Landed(x) == InMemory(x) \/ table[x] > 0 \/ x \in writtenOff
Downstream(x) == stream[x] > 0 \/ Landed(x)

\* An event that was sunk has landed; one that the stream has taken, from the
\* client or from a drain, is downstream or still in the spool.
Kept(x) ==
  /\ hand = Message(x, TRUE) => Landed(x)
  /\ x \in handed => Downstream(x)
  /\ pub[x] \in {"stored", "done"} => x \in spool \/ Downstream(x)

AllKept == \A x \in Events : Kept(x)

\* What has landed stays: a record leaves the memory for the table, or is written
\* off with it.
LEMMA LandedStep ==
  ASSUME Base, [Next]_vars, NEW x \in Events, Landed(x)
  PROVE  Landed(x)'
<1> USE DEF masterVars, ghostVars, nodeVars
<1>a. memory \in [Shares -> Nat] /\ table \in [Events -> Nat] /\ (x \in Shares => memory[x] \in Nat)
  BY DEF Base, TypeOK
<1>f. ASSUME UNCHANGED <<memory, table>>, writtenOff \subseteq writtenOff' PROVE Landed(x)'
  BY <1>f DEF Landed, InMemory
<1>1. CASE NodeNext
  <2>1. UNCHANGED <<memory, table>>
    BY <1>1 DEF NodeNext, RecordEvent, StreamStores, AckArrives, StreamRefuses, SpoolAppend,
                DrainPublish, DrainFails, Disconnect, Reconnect, DrainStart, DrainEnd, NodeStops,
                ClientCloses, SpoolCloses, NodeExits, NodeCrashes, ProcessEnds, NodeStarts,
                SpoolAppendFails, DrainSkips, RewriteFails
  <2>2. writtenOff \subseteq writtenOff'
    BY <1>1 DEF NodeNext, RecordEvent, StreamStores, AckArrives, StreamRefuses, SpoolAppend,
                DrainPublish, DrainFails, Disconnect, Reconnect, DrainStart, DrainEnd, NodeStops,
                ClientCloses, SpoolCloses, NodeExits, NodeCrashes, ProcessEnds, NodeStarts,
                SpoolAppendFails, DrainSkips, RewriteFails
  <2> QED BY <2>1, <2>2, <1>f
<1>2. ASSUME NEW e \in Events, Deliver(e) \/ Ack(e) \/ AckLost(e) PROVE Landed(x)'
  BY <1>2, <1>f DEF Deliver, Ack, AckLost
<1>3. ASSUME NEW s \in Shares, SinkShare(s) PROVE Landed(x)'
  <2>1. CASE master = "flushed"
    BY <1>3, <1>f, <2>1 DEF SinkShare
  <2>2. CASE master # "flushed"
    <3>1. /\ memory' = [memory EXCEPT ![s] = @ + 1] /\ UNCHANGED <<table, writtenOff>>
      BY <1>3, <2>2 DEF SinkShare
    <3>2. x \in Shares => memory'[x] >= memory[x]
      BY <1>a, <3>1
    <3> QED BY <1>a, <3>1, <3>2 DEF Landed, InMemory
  <2> QED BY <2>1, <2>2
<1>4. ASSUME NEW s \in Shares, WriterInserts(s) PROVE Landed(x)'
  <2>1. /\ memory' = [memory EXCEPT ![s] = @ - 1] /\ table' = [table EXCEPT ![s] = @ + 1]
        /\ writtenOff' = writtenOff /\ s \in Events
    BY <1>4, MessageFacts DEF WriterInserts
  <2>2. IF x = s THEN table'[x] = table[x] + 1
                 ELSE table'[x] = table[x] /\ (x \in Shares => memory'[x] = memory[x])
    BY <1>a, <2>1
  <2> QED BY <1>a, <2>1, <2>2 DEF Landed, InMemory
<1>5. ASSUME NEW b \in Blocks, SinkBlock(b) \/ SinkBlockFails(b) PROVE Landed(x)'
  <2>1. memory' = memory /\ writtenOff \subseteq writtenOff'
        /\ (table' = table \/ table' = [table EXCEPT ![b] = 1])
    BY <1>5 DEF SinkBlock, SinkBlockFails
  <2>2. table'[x] >= table[x] \/ table'[x] = 1
    BY <1>a, <2>1
  <2> QED BY <1>a, <2>1, <2>2 DEF Landed, InMemory
<1>6. CASE WriterCloses
  <2>1. table'[x] = table[x] + (IF x \in Shares THEN memory[x] ELSE 0) /\ writtenOff' = writtenOff
    BY <1>6 DEF WriterCloses
  <2> QED BY <1>a, <2>1 DEF Landed, InMemory
\* What the writer loses is written off.
<1>l. ASSUME table' = table, NEW lost \in SUBSET Shares, Loses(lost) PROVE Landed(x)'
  <2>1. x \in Shares => memory'[x] = memory[x] \/ (memory[x] > 0 => x \in writtenOff')
    BY <1>a, <1>l DEF Loses
  <2>2. writtenOff \subseteq writtenOff'
    BY <1>l DEF Loses
  <2> QED BY <1>l, <2>1, <2>2 DEF Landed, InMemory
<1>7. CASE MasterExits \/ MasterCrashes
  <2>1. CASE MasterExits
    BY <1>f, <2>1 DEF MasterExits, MasterEnds
  <2>2. CASE MasterCrashes
    BY <1>l, <2>2 DEF MasterCrashes, MasterEnds
  <2> QED BY <1>7, <2>1, <2>2
<1>8. CASE MasterStops \/ MasterStarts \/ UNCHANGED vars
  BY <1>8, <1>f DEF MasterStops, MasterStarts, vars
<1>9. CASE FinalFlushFails
  BY <1>l, <1>9 DEF FinalFlushFails
<1>10. ASSUME NEW e \in Events, Expire(e) PROVE Landed(x)'
  BY <1>10, <1>f DEF Expire
<1>11. ASSUME NEW s \in Shares, SinkShareDrops(s) PROVE Landed(x)'
  BY <1>11, <1>f DEF SinkShareDrops
<1>12. ASSUME NEW s \in Shares, WriterDrops(s) PROVE Landed(x)'
  <2>1. /\ memory' = [memory EXCEPT ![s] = @ - 1] /\ table' = table
        /\ writtenOff' = writtenOff \cup {s}
    BY <1>12 DEF WriterDrops
  <2>2. x # s => (x \in Shares => memory'[x] = memory[x])
    BY <1>a, <2>1
  <2> QED BY <2>1, <2>2 DEF Landed, InMemory
<1> QED BY <1>1, <1>2, <1>3, <1>4, <1>5, <1>6, <1>7, <1>8, <1>9, <1>10, <1>11, <1>12
        DEF Next, MasterNext

\* A message leaves the stream when its event has landed, or is written off with it.
LEMMA DownstreamStep ==
  ASSUME Base, [Next]_vars, NEW x \in Events, Kept(x), Downstream(x)
  PROVE  Downstream(x)'
<1> USE DEF masterVars, ghostVars, nodeVars
<1>a. stream \in [Events -> Nat]
  BY DEF Base, TypeOK
<1>1. CASE Landed(x)
  BY <1>1, LandedStep DEF Downstream
<1> SUFFICES ASSUME stream[x] > 0, ~Landed(x), stream'[x] = 0 PROVE Landed(x)'
  BY <1>1, <1>a, BaseStep DEF Downstream, Base, TypeOK
<1>2. ASSUME stream' = stream PROVE FALSE
  BY <1>a, <1>2
<1>3. ASSUME NEW e \in Events, Store(e) PROVE FALSE
  BY <1>a, <1>3 DEF Store
<1>4. CASE NodeNext
  <2>1. CASE Reconnect
    <3>1. PICK flushed \in SUBSET Events :
            stream' = [e \in Events |-> stream[e] + IF e \in flushed THEN 1 ELSE 0]
      BY <2>1 DEF Reconnect
    <3> QED BY <1>a, <3>1
  <2> QED
    BY <1>2, <1>3, <1>4, <2>1
    DEF NodeNext, RecordEvent, StreamStores, AckArrives, StreamRefuses, SpoolAppend,
        SpoolAppendFails, DrainPublish, DrainFails, DrainSkips, Disconnect, DrainStart, DrainEnd,
        RewriteFails, NodeStops, ClientCloses, SpoolCloses, NodeExits, NodeCrashes, ProcessEnds,
        NodeStarts
<1>5. ASSUME NEW e \in Events, Ack(e) PROVE Landed(x)'
  <2>1. hand = Message(e, TRUE) /\ stream' = [stream EXCEPT ![e] = @ - 1]
    BY <1>5 DEF Ack, Message
  <2>2. e = x
    BY <1>a, <2>1
  <2> QED BY <2>1, <2>2 DEF Kept
<1>6. ASSUME NEW e \in Events, Expire(e) PROVE Landed(x)'
  <2>1. /\ stream' = [stream EXCEPT ![e] = @ - 1]
        /\ writtenOff' = writtenOff \cup
             {y \in {e} : stream[y] = 1 /\ ~InMemory(y) /\ table[y] = 0}
    BY <1>6 DEF Expire
  <2>2. e = x /\ stream[x] = 1
    BY <1>a, <2>1
  <2>3. ~InMemory(x) /\ ~(table[x] > 0) /\ table[x] \in Nat
    BY DEF Landed, Base, TypeOK
  <2>4. x \in writtenOff'
    BY <2>1, <2>2, <2>3
  <2> QED BY <2>4 DEF Landed
<1>7. CASE MasterNext /\ ~(\E e \in Events : Ack(e) \/ Expire(e))
  BY <1>2, <1>7 DEF MasterNext, Deliver, AckLost, SinkShare, SinkShareDrops, WriterInserts,
                    WriterDrops, SinkBlock, SinkBlockFails, MasterStops, WriterCloses,
                    FinalFlushFails, MasterExits, MasterCrashes, MasterEnds, MasterStarts
<1> QED BY <1>2, <1>4, <1>5, <1>6, <1>7 DEF Next, vars

\* An event that leaves the client for good is downstream, in the spool or written
\* off, one that leaves the spool is downstream, and one is sunk when it lands.
LEMMA KeptStep == Base /\ AllKept /\ [Next]_vars => AllKept'
<1> SUFFICES ASSUME Base, AllKept, [Next]_vars, NEW x \in Events PROVE Kept(x)'
  BY DEF AllKept
<1>a. Kept(x)
  BY DEF AllKept
<1>b. Landed(x) => Landed(x)'
  BY LandedStep
<1>c. Downstream(x) => Downstream(x)'
  BY <1>a, DownstreamStep
<1> USE MessageFacts DEF masterVars, ghostVars, nodeVars
<1>d. /\ stream \in [Events -> Nat]
      /\ pub \in [Events -> {"none", "sent", "stored", "failed", "done"}]
      /\ memory \in [Shares -> Nat] /\ table \in [Events -> Nat] /\ handed \subseteq spool
  BY DEF Base, TypeOK, Tokens
\* Steps that sink nothing,
<1>e. ASSUME hand' = hand \/ hand'.sunk = FALSE PROVE hand' = Message(x, TRUE) => Landed(x)'
  BY <1>a, <1>b, <1>e DEF Kept
\* and those that touch neither the client nor the spool.
<1>f. ASSUME UNCHANGED <<pub, spool, handed>>, hand' = Message(x, TRUE) => Landed(x)'
      PROVE  Kept(x)'
  BY <1>a, <1>c, <1>f DEF Kept
<1>1. ASSUME NEW e \in Events, RecordEvent(e) \/ StreamRefuses(e) PROVE Kept(x)'
  <2>1. /\ UNCHANGED <<hand, spool, handed>>
        /\ \E how \in {"sent", "failed"} : pub' = [pub EXCEPT ![e] = how]
    BY <1>1 DEF RecordEvent, StreamRefuses
  <2>2. pub'[x] \in {"stored", "done"} => pub'[x] = pub[x]
    BY <1>d, <2>1
  <2> QED BY <1>a, <1>c, <1>e, <2>1, <2>2 DEF Kept
<1>2. ASSUME NEW e \in Events, StreamStores(e) PROVE Kept(x)'
  <2>1. /\ UNCHANGED <<hand, spool, handed>> /\ pub' = [pub EXCEPT ![e] = "stored"]
        /\ stream' = [stream EXCEPT ![e] = @ + 1]
    BY <1>2 DEF StreamStores, Store
  <2>2. CASE x = e
    <3>1. stream'[x] > 0
      BY <1>d, <2>1, <2>2
    <3> QED BY <1>e, <2>1, <3>1 DEF Kept, Downstream
  <2>3. CASE x # e
    <3>1. pub'[x] = pub[x]
      BY <1>d, <2>1, <2>3
    <3> QED BY <1>a, <1>c, <1>e, <2>1, <3>1 DEF Kept
  <2> QED BY <2>2, <2>3
<1>3. ASSUME NEW e \in Events, AckArrives(e) PROVE Kept(x)'
  <2>1. /\ UNCHANGED <<hand, spool, handed>> /\ pub[e] = "stored"
        /\ pub' = [pub EXCEPT ![e] = "done"]
    BY <1>3 DEF AckArrives
  <2>2. pub'[x] \in {"stored", "done"} => pub[x] \in {"stored", "done"}
    BY <1>d, <2>1
  <2> QED BY <1>a, <1>c, <1>e, <2>1, <2>2 DEF Kept
<1>4. ASSUME NEW e \in Events, SpoolAppend(e) PROVE Kept(x)'
  <2>1. /\ UNCHANGED <<hand, handed>> /\ spool \subseteq spool'
        /\ pub' = [pub EXCEPT ![e] = "done"] /\ (e \in spool' \/ e \in writtenOff')
    BY <1>4 DEF SpoolAppend
  <2>2. CASE x = e
    BY <1>a, <1>c, <1>e, <2>1, <2>2 DEF Kept, Downstream, Landed
  <2>3. CASE x # e
    <3>1. pub'[x] = pub[x]
      BY <1>d, <2>1, <2>3
    <3> QED BY <1>a, <1>c, <1>e, <2>1, <3>1 DEF Kept
  <2> QED BY <2>2, <2>3
<1>5. ASSUME NEW e \in Events, DrainPublish(e) PROVE Kept(x)'
  <2>1. /\ UNCHANGED <<hand, spool, pub>> /\ handed' = handed \cup {e}
        /\ stream' = [stream EXCEPT ![e] = @ + 1]
    BY <1>5 DEF DrainPublish, Store
  <2>2. x = e => stream'[x] > 0
    BY <1>d, <2>1
  <2> QED BY <1>a, <1>c, <1>e, <2>1, <2>2 DEF Kept, Downstream
<1>6. CASE DrainEnd
  <2>1. UNCHANGED <<hand, pub>> /\ handed' = {} /\ spool' = spool \ handed
    BY <1>6 DEF DrainEnd
  <2> QED BY <1>a, <1>c, <1>e, <2>1 DEF Kept
<1>7. CASE Reconnect
  <2>1. UNCHANGED <<hand, spool, handed>>
    BY <1>7 DEF Reconnect
  <2>2. pub'[x] \in {"stored", "done"} => pub'[x] = pub[x]
    BY <1>7, <1>d DEF Reconnect, Pending
  <2> QED BY <1>a, <1>c, <1>e, <2>1, <2>2 DEF Kept
<1>8. CASE NodeExits \/ NodeCrashes
  <2>1. /\ UNCHANGED <<hand, spool>> /\ handed' = {}
        /\ pub' = [e \in Events |-> IF pub[e] = "none" THEN "none" ELSE "done"]
        /\ writtenOff' = writtenOff \cup {e \in Events : pub[e] \in {"sent", "failed"}}
    BY <1>8 DEF NodeExits, NodeCrashes, ProcessEnds
  <2>2. pub'[x] \in {"stored", "done"} => x \in writtenOff' \/ pub[x] \in {"stored", "done"}
    BY <1>d, <2>1
  <2> QED BY <1>a, <1>c, <1>e, <2>1, <2>2 DEF Kept, Downstream, Landed
<1>9. ASSUME NEW e \in Events, DrainFails(e) \/ Deliver(e) \/ Ack(e) \/ AckLost(e)
      PROVE  Kept(x)'
  <2>1. UNCHANGED <<pub, spool, handed>>
    BY <1>9 DEF DrainFails, Deliver, Ack, AckLost
  <2>2. hand' = hand \/ hand'.sunk = FALSE
    BY <1>9 DEF DrainFails, Deliver, Ack, AckLost
  <2> QED BY <1>e, <1>f, <2>1, <2>2
<1>10. ASSUME NEW s \in Shares, SinkShare(s) PROVE Kept(x)'
  <2>1. UNCHANGED <<pub, spool, handed>> /\ hand' = Message(s, TRUE)
    BY <1>10 DEF SinkShare, Sunk, Message
  <2>2. s \in writtenOff' \/ memory' = [memory EXCEPT ![s] = @ + 1]
    BY <1>10 DEF SinkShare
  <2>3. Landed(s)'
    BY <1>d, <2>2 DEF Landed, InMemory
  <2>4. Message(x, TRUE).event = x /\ Message(s, TRUE).event = s
    OBVIOUS
  <2>5. hand' = Message(x, TRUE) => x = s
    BY <2>1, <2>4
  <2> QED BY <1>f, <2>1, <2>3, <2>5
<1>11. ASSUME NEW b \in Blocks, SinkBlock(b) \/ SinkBlockFails(b) PROVE Kept(x)'
  <2>1. UNCHANGED <<pub, spool, handed>> /\ hand' = Message(b, TRUE) /\ b \in Events
    BY <1>11 DEF SinkBlock, SinkBlockFails, Sunk, Message, Events
  <2>2. b \in writtenOff' \/ table' = [table EXCEPT ![b] = 1]
    BY <1>11 DEF SinkBlock, SinkBlockFails
  <2>3. Landed(b)'
    BY <1>d, <2>1, <2>2 DEF Landed
  <2>4. Message(x, TRUE).event = x /\ Message(b, TRUE).event = b
    OBVIOUS
  <2>5. hand' = Message(x, TRUE) => x = b
    BY <2>1, <2>4
  <2> QED BY <1>f, <2>1, <2>3, <2>5
<1>12. CASE MasterExits \/ MasterCrashes
  <2>1. UNCHANGED <<pub, spool, handed>> /\ hand' = NoMessage
    BY <1>12 DEF MasterExits, MasterCrashes, MasterEnds
  <2> QED BY <1>f, <2>1
<1>13. CASE \/ Disconnect \/ DrainStart \/ NodeStops \/ ClientCloses \/ SpoolCloses \/ NodeStarts
            \/ MasterStops \/ WriterCloses \/ FinalFlushFails \/ MasterStarts \/ UNCHANGED vars
  <2>1. UNCHANGED <<pub, spool, handed, hand>>
    BY <1>13 DEF Disconnect, DrainStart, NodeStops, ClientCloses, SpoolCloses, NodeStarts,
                 MasterStops, WriterCloses, FinalFlushFails, MasterStarts, vars
  <2> QED BY <1>e, <1>f, <2>1
<1>14. ASSUME NEW s \in Shares, WriterInserts(s) \/ WriterDrops(s) PROVE Kept(x)'
  <2>1. UNCHANGED <<pub, spool, handed, hand>>
    BY <1>14 DEF WriterInserts, WriterDrops
  <2> QED BY <1>e, <1>f, <2>1
<1>15. ASSUME NEW s \in Shares, SinkShareDrops(s) PROVE Kept(x)'
  <2>1. UNCHANGED <<pub, spool, handed>> /\ hand' = Message(s, TRUE) /\ s \in writtenOff'
    BY <1>15 DEF SinkShareDrops, Sunk, Message
  <2>2. Message(x, TRUE).event = x /\ Message(s, TRUE).event = s
    OBVIOUS
  <2>3. hand' = Message(x, TRUE) => x = s
    BY <2>1, <2>2
  <2> QED BY <1>f, <2>1, <2>3 DEF Landed
<1>16. ASSUME NEW e \in Events, Expire(e) PROVE Kept(x)'
  <2>1. UNCHANGED <<pub, spool, handed, hand>>
    BY <1>16 DEF Expire
  <2> QED BY <1>e, <1>f, <2>1
<1>17. ASSUME NEW e \in Events, SpoolAppendFails(e) PROVE Kept(x)'
  <2>1. /\ UNCHANGED <<hand, handed>> /\ spool \subseteq spool'
        /\ pub' = [pub EXCEPT ![e] = "done"] /\ e \in writtenOff'
    BY <1>17 DEF SpoolAppendFails
  <2>2. CASE x = e
    BY <1>a, <1>c, <1>e, <2>1, <2>2 DEF Kept, Downstream, Landed
  <2>3. CASE x # e
    <3>1. pub'[x] = pub[x]
      BY <1>d, <2>1, <2>3
    <3> QED BY <1>a, <1>c, <1>e, <2>1, <3>1 DEF Kept
  <2> QED BY <2>2, <2>3
<1>18. ASSUME NEW e \in Events, DrainSkips(e) PROVE Kept(x)'
  <2>1. /\ UNCHANGED <<hand, handed, pub>> /\ spool' = spool \ {e} /\ e \in writtenOff'
    BY <1>18 DEF DrainSkips
  <2>2. x = e => Downstream(x)'
    BY <2>1 DEF Downstream, Landed
  <2> QED BY <1>a, <1>c, <1>e, <2>1, <2>2 DEF Kept
<1>19. CASE RewriteFails
  <2>1. UNCHANGED <<hand, pub, spool>> /\ handed' = {}
    BY <1>19 DEF RewriteFails
  <2> QED BY <1>a, <1>c, <1>e, <2>1 DEF Kept
<1> QED BY <1>1, <1>2, <1>3, <1>4, <1>5, <1>6, <1>7, <1>8, <1>9, <1>10, <1>11, <1>12, <1>13, <1>14,
           <1>15, <1>16, <1>17, <1>18, <1>19
        DEF Next, NodeNext, MasterNext

----------------------------------------------------------------------------
(***************************************************************************)
(* A row is repeated only after a failure.                                 *)
(***************************************************************************)
\* Where a share may be and still become a row: with the client, in the spool,
\* in the stream unless it is sunk and its acknowledgement due, in the writer's
\* memory, in the table.
Sending(x) == IF pub[x] \in {"sent", "failed"} THEN 1 ELSE 0
Spooled(x) == IF x \in spool \ handed THEN 1 ELSE 0
Taken(x) == IF hand = Message(x, TRUE) THEN 1 ELSE 0
Copies(x) == Sending(x) + Spooled(x) + stream[x] + memory[x] + table[x] - Taken(x)

Single(x) == x \in repeated \/ Copies(x) <= IF pub[x] = "none" THEN 0 ELSE 1

AllSingle == \A x \in Shares : Single(x)

\* Steps move the copy of a share; those that make a second one are failures, and
\* mark it.
LEMMA SingleStep == Base /\ AllSingle /\ [Next]_vars => AllSingle'
<1> SUFFICES ASSUME Base, AllSingle, [Next]_vars, NEW x \in Shares PROVE Single(x)'
  BY DEF AllSingle
<1>a. Single(x)
  BY DEF AllSingle
<1> USE MessageFacts DEF masterVars, ghostVars, nodeVars
<1>d. /\ stream \in [Events -> Nat] /\ memory \in [Shares -> Nat] /\ table \in [Events -> Nat]
      /\ pub \in [Events -> {"none", "sent", "stored", "failed", "done"}]
      /\ x \in Events /\ stream[x] \in Nat /\ memory[x] \in Nat /\ table[x] \in Nat
  BY DEF Base, TypeOK
<1>p. /\ Sending(x) \in {0, 1} /\ Spooled(x) \in {0, 1} /\ Taken(x) \in {0, 1}
      /\ Sending(x)' \in {0, 1} /\ Spooled(x)' \in {0, 1} /\ Taken(x)' \in {0, 1}
  BY DEF Sending, Spooled, Taken
<1>q. stream'[x] \in Nat /\ memory'[x] \in Nat /\ table'[x] \in Nat
  BY <1>d, BaseStep DEF Base, TypeOK
<1>u. Copies(x) \in Int /\ Copies(x)' \in Int
  BY <1>d, <1>p, <1>q DEF Copies
<1>h. ASSUME repeated \subseteq repeated', pub'[x] = "none" => pub[x] = "none",
             x \notin repeated' => Copies(x)' <= Copies(x)
      PROVE  Single(x)'
  BY <1>a, <1>u, <1>h DEF Single
\* Steps that touch nothing a copy depends on but the ghosts.
<1>f. ASSUME repeated \subseteq repeated', pub'[x] = pub[x],
             x \in spool' \ handed' <=> x \in spool \ handed,
             stream'[x] = stream[x], memory'[x] = memory[x], table'[x] = table[x],
             hand' = Message(x, TRUE) <=> hand = Message(x, TRUE)
      PROVE  Single(x)'
  <2>1. Sending(x)' = Sending(x) /\ Spooled(x)' = Spooled(x) /\ Taken(x)' = Taken(x)
    BY <1>f DEF Sending, Spooled, Taken
  <2>2. Copies(x)' = Copies(x)
    BY <1>d, <1>f, <1>p, <2>1 DEF Copies
  <2> QED BY <1>f, <1>h, <1>u, <2>2
<1>1. ASSUME NEW e \in Events, RecordEvent(e) PROVE Single(x)'
  <2>1. /\ UNCHANGED <<hand, spool, handed, stream, memory, table, repeated>> /\ pub[e] = "none"
        /\ \E how \in {"sent", "failed"} : pub' = [pub EXCEPT ![e] = how]
    BY <1>1 DEF RecordEvent
  <2>2. CASE x = e
    <3>1. pub[x] = "none" /\ pub'[x] \in {"sent", "failed"}
      BY <1>d, <2>1, <2>2
    <3>2. Copies(x)' = Copies(x) + 1
      <4>1. Sending(x)' = Sending(x) + 1 /\ Spooled(x)' = Spooled(x) /\ Taken(x)' = Taken(x)
        BY <1>d, <2>1, <3>1 DEF Sending, Spooled, Taken
      <4> QED BY <1>d, <1>p, <1>q, <2>1, <3>1, <4>1 DEF Copies
    <3> QED BY <1>a, <1>u, <2>1, <3>1, <3>2 DEF Single
  <2>3. CASE x # e
    <3>1. pub'[x] = pub[x]
      BY <1>d, <2>1, <2>3
    <3> QED BY <1>f, <2>1, <3>1
  <2> QED BY <2>2, <2>3
<1>2. ASSUME NEW e \in Events, StreamStores(e) PROVE Single(x)'
  <2>1. /\ UNCHANGED <<hand, spool, handed, memory, table, repeated>> /\ pub[e] = "sent"
        /\ pub' = [pub EXCEPT ![e] = "stored"] /\ stream' = [stream EXCEPT ![e] = @ + 1]
    BY <1>2 DEF StreamStores, Store
  <2>2. IF x = e THEN pub[x] = "sent" /\ pub'[x] = "stored" /\ stream'[x] = stream[x] + 1
                 ELSE pub'[x] = pub[x] /\ stream'[x] = stream[x]
    BY <1>d, <2>1
  <2>3. Copies(x)' = Copies(x)
    <3>1. /\ (Sending(x)' = Sending(x) - IF x = e THEN 1 ELSE 0)
          /\ Spooled(x)' = Spooled(x)
          /\ Taken(x)' = Taken(x)
      BY <1>d, <2>1, <2>2 DEF Sending, Spooled, Taken
    <3> QED BY <1>d, <1>p, <1>q, <2>1, <2>2, <3>1 DEF Copies
  <2> QED BY <1>h, <1>u, <2>1, <2>2, <2>3
<1>3. ASSUME NEW e \in Events, AckArrives(e) \/ StreamRefuses(e) PROVE Single(x)'
  <2>1. /\ UNCHANGED <<hand, spool, handed, stream, memory, table, repeated>>
        /\ \/ pub[e] = "stored" /\ pub' = [pub EXCEPT ![e] = "done"]
           \/ pub[e] = "sent" /\ pub' = [pub EXCEPT ![e] = "failed"]
    BY <1>3 DEF AckArrives, StreamRefuses
  <2>2. \/ pub'[x] = pub[x] \/ (pub[x] = "stored" /\ pub'[x] = "done")
        \/ (pub[x] = "sent" /\ pub'[x] = "failed")
    BY <1>d, <2>1
  <2>3. Copies(x)' = Copies(x)
    <3>1. Sending(x)' = Sending(x) /\ Spooled(x)' = Spooled(x) /\ Taken(x)' = Taken(x)
      BY <1>d, <2>1, <2>2 DEF Sending, Spooled, Taken
    <3> QED BY <1>d, <1>p, <1>q, <2>1, <2>2, <3>1 DEF Copies
  <2> QED BY <1>h, <1>u, <2>1, <2>2, <2>3
<1>4. ASSUME NEW e \in Events, SpoolAppend(e) PROVE Single(x)'
  <2>1. /\ UNCHANGED <<hand, handed, stream, memory, table, repeated>> /\ pub[e] = "failed"
        /\ pub' = [pub EXCEPT ![e] = "done"] /\ (spool' = spool \/ spool' = spool \cup {e})
    BY <1>4 DEF SpoolAppend
  <2>2. IF x = e THEN pub[x] = "failed" /\ pub'[x] = "done"
                 ELSE pub'[x] = pub[x] /\ (x \in spool' <=> x \in spool)
    BY <1>d, <2>1
  <2>3. Copies(x)' <= Copies(x)
    <3>1. Sending(x)' + Spooled(x)' <= Sending(x) + Spooled(x) /\ Taken(x)' = Taken(x)
      BY <1>d, <2>1, <2>2 DEF Sending, Spooled, Taken
    <3> QED BY <1>d, <1>p, <1>q, <2>1, <2>2, <3>1 DEF Copies
  <2> QED BY <1>h, <2>1, <2>2, <2>3
<1>5. ASSUME NEW e \in Events, DrainPublish(e) PROVE Single(x)'
  <2>1. /\ UNCHANGED <<hand, spool, pub, memory, table, repeated>> /\ handed' = handed \cup {e}
        /\ e \in spool \ handed /\ stream' = [stream EXCEPT ![e] = @ + 1]
    BY <1>5 DEF DrainPublish, Store
  <2>2. stream'[x] = stream[x] + IF x = e THEN 1 ELSE 0
    BY <1>d, <2>1
  <2>3. Copies(x)' = Copies(x)
    <3>1. /\ Sending(x)' = Sending(x)
          /\ (Spooled(x)' = Spooled(x) - IF x = e THEN 1 ELSE 0)
          /\ Taken(x)' = Taken(x)
      BY <1>d, <2>1, <2>2 DEF Sending, Spooled, Taken
    <3> QED BY <1>d, <1>p, <1>q, <2>1, <2>2, <3>1 DEF Copies
  <2> QED BY <1>h, <1>u, <2>1, <2>3
<1>6. ASSUME NEW e \in Events, DrainFails(e) PROVE Single(x)'
  <2>1. UNCHANGED <<hand, spool, handed, pub, memory, table>> /\ repeated \subseteq repeated'
    BY <1>6 DEF DrainFails
  <2>2. x \in repeated' \/ stream'[x] = stream[x]
    BY <1>d, <1>6 DEF DrainFails, Store
  <2> QED BY <1>f, <2>1, <2>2 DEF Single
<1>7. CASE Reconnect
  <2>1. UNCHANGED <<hand, spool, handed, memory, table>>
    BY <1>7 DEF Reconnect
  <2>2. pub' = [e \in Events |-> IF e \in Pending THEN "failed" ELSE pub[e]]
    BY <1>7 DEF Reconnect
  <2>3. PICK flushed \in SUBSET Events :
          /\ stream' = [e \in Events |-> stream[e] + IF e \in flushed THEN 1 ELSE 0]
          /\ repeated' = repeated \cup flushed \cup {e \in Events : pub[e] = "stored"}
    BY <1>7 DEF Reconnect
  <2>4. CASE x \in repeated'
    BY <2>4 DEF Single
  <2>5. CASE x \notin repeated'
    <3>1. stream'[x] = stream[x] /\ pub[x] # "stored"
      BY <1>d, <2>3, <2>5
    <3>2. pub'[x] = pub[x] \/ (pub[x] = "sent" /\ pub'[x] = "failed")
      BY <1>d, <2>2, <3>1 DEF Pending
    <3>3. Copies(x)' = Copies(x)
      <4>1. Sending(x)' = Sending(x) /\ Spooled(x)' = Spooled(x) /\ Taken(x)' = Taken(x)
        BY <1>d, <2>1, <3>1, <3>2 DEF Sending, Spooled, Taken
      <4> QED BY <1>d, <1>p, <1>q, <2>1, <3>1, <3>2, <4>1 DEF Copies
    <3> QED BY <1>h, <1>u, <2>3, <3>2, <3>3
  <2> QED BY <2>4, <2>5
<1>8. CASE DrainEnd
  <2>1. UNCHANGED <<hand, pub, stream, memory, table, repeated>>
        /\ handed' = {} /\ spool' = spool \ handed
    BY <1>8 DEF DrainEnd
  <2> QED BY <1>f, <2>1
<1>9. CASE NodeExits \/ NodeCrashes
  <2>1. /\ UNCHANGED <<hand, spool, stream, memory, table>> /\ handed' = {}
        /\ pub' = [e \in Events |-> IF pub[e] = "none" THEN "none" ELSE "done"]
        /\ repeated' = repeated \cup handed
    BY <1>9 DEF NodeExits, NodeCrashes, ProcessEnds
  <2>2. /\ pub'[x] = (IF pub[x] = "none" THEN "none" ELSE "done")
        /\ x \notin repeated' => (x \in spool' \ handed' <=> x \in spool \ handed)
    BY <1>d, <2>1
  <2>3. x \notin repeated' => Copies(x)' <= Copies(x)
    <3>1. /\ Sending(x)' <= Sending(x)
          /\ (x \notin repeated' => Spooled(x)' = Spooled(x))
          /\ Taken(x)' = Taken(x)
      BY <1>d, <2>1, <2>2 DEF Sending, Spooled, Taken
    <3> QED BY <1>d, <1>p, <1>q, <2>1, <2>2, <3>1 DEF Copies
  <2> QED BY <1>h, <2>1, <2>2, <2>3
<1>10. ASSUME NEW e \in Events, Deliver(e) PROVE Single(x)'
  <2>1. /\ UNCHANGED <<pub, spool, handed, stream, memory, table, repeated>>
        /\ hand = NoMessage /\ hand' = Message(e, FALSE)
    BY <1>10 DEF Deliver, Message
  <2>2. hand # Message(x, TRUE) /\ hand' # Message(x, TRUE)
    <3>1. Message(x, TRUE).sunk = TRUE /\ Message(e, FALSE).sunk = FALSE /\ NoMessage.sunk = FALSE
      OBVIOUS
    <3> QED BY <2>1, <3>1
  <2> QED BY <1>f, <2>1, <2>2
<1>11. ASSUME NEW e \in Events, Ack(e) PROVE Single(x)'
  <2>1. /\ UNCHANGED <<pub, spool, handed, memory, table, repeated>>
        /\ hand = Message(e, TRUE) /\ hand' = NoMessage
        /\ stream' = [stream EXCEPT ![e] = @ - 1]
    BY <1>11 DEF Ack, Message
  <2>2. Message(x, TRUE).event = x /\ Message(e, TRUE).event = e /\ Message(x, TRUE) # NoMessage
    BY <1>d
  <2>3. hand' # Message(x, TRUE) /\ (hand = Message(x, TRUE) <=> x = e)
    BY <2>1, <2>2
  <2>4. Copies(x)' = Copies(x)
    <3>1. /\ Sending(x)' = Sending(x)
          /\ Spooled(x)' = Spooled(x)
          /\ Taken(x)' = 0 /\ (x = e => Taken(x) = 1) /\ (x # e => Taken(x) = 0)
      BY <2>1, <2>3 DEF Sending, Spooled, Taken
    <3>2. (x = e => stream'[x] = stream[x] - 1) /\ (x # e => stream'[x] = stream[x])
      BY <1>d, <2>1
    <3> QED BY <1>d, <1>p, <1>q, <2>1, <3>1, <3>2 DEF Copies
  <2> QED BY <1>h, <1>u, <2>1, <2>4
<1>12. ASSUME NEW e \in Events, AckLost(e) PROVE Single(x)'
  <2>1. /\ UNCHANGED <<pub, spool, handed, stream, memory, table>>
        /\ hand = Message(e, TRUE) /\ hand' = NoMessage /\ repeated' = repeated \cup {e}
    BY <1>12 DEF AckLost, Message
  <2>2. Message(x, TRUE).event = x /\ Message(e, TRUE).event = e /\ Message(x, TRUE) # NoMessage
    BY <1>d
  <2>3. x \in repeated' \/ (hand # Message(x, TRUE) /\ hand' # Message(x, TRUE))
    BY <2>1, <2>2
  <2> QED BY <1>f, <2>1, <2>3 DEF Single
<1>13. ASSUME NEW s \in Shares, SinkShare(s) PROVE Single(x)'
  <2>1. /\ UNCHANGED <<pub, spool, handed, stream, table, repeated>>
        /\ hand = Message(s, FALSE) /\ hand' = Message(s, TRUE)
        /\ memory' = memory \/ memory' = [memory EXCEPT ![s] = @ + 1]
    BY <1>13 DEF SinkShare, Handling, Sunk, Message
  <2>2. /\ Message(x, TRUE).event = x /\ Message(s, TRUE).event = s
        /\ Message(x, TRUE).sunk = TRUE /\ Message(s, FALSE).sunk = FALSE
    OBVIOUS
  <2>3. /\ hand # Message(x, TRUE) /\ (hand' = Message(x, TRUE) <=> x = s)
        /\ memory'[x] <= memory[x] + (IF x = s THEN 1 ELSE 0)
    <3>1. hand # Message(x, TRUE) /\ (hand' = Message(x, TRUE) <=> x = s)
      BY <2>1, <2>2
    <3>2. memory'[x] <= memory[x] + (IF x = s THEN 1 ELSE 0)
      BY <1>d, <2>1
    <3> QED BY <3>1, <3>2
  <2>4. Copies(x)' <= Copies(x)
    <3>1. /\ Sending(x)' = Sending(x)
          /\ Spooled(x)' = Spooled(x)
          /\ Taken(x) = 0 /\ (x = s => Taken(x)' = 1) /\ (x # s => Taken(x)' = 0)
      BY <2>1, <2>3 DEF Sending, Spooled, Taken
    <3> QED BY <1>d, <1>p, <1>q, <2>1, <2>3, <3>1 DEF Copies
  <2> QED BY <1>h, <2>1, <2>4
<1>14. ASSUME NEW b \in Blocks, SinkBlock(b) \/ SinkBlockFails(b) PROVE Single(x)'
  <2>1. /\ UNCHANGED <<pub, spool, handed, stream, memory, repeated>> /\ b # x
        /\ hand = Message(b, FALSE) /\ hand' = Message(b, TRUE)
        /\ table' = table \/ table' = [table EXCEPT ![b] = 1]
    BY <1>14 DEF SinkBlock, SinkBlockFails, Handling, Sunk, Message
  <2>2. /\ Message(x, TRUE).event = x /\ Message(b, TRUE).event = b
        /\ Message(x, TRUE).sunk = TRUE /\ Message(b, FALSE).sunk = FALSE
    OBVIOUS
  <2>3. hand # Message(x, TRUE) /\ hand' # Message(x, TRUE) /\ table'[x] = table[x]
    BY <1>d, <2>1, <2>2
  <2> QED BY <1>f, <2>1, <2>3
<1>15. ASSUME NEW s \in Shares, WriterInserts(s) PROVE Single(x)'
  <2>1. /\ UNCHANGED <<pub, spool, handed, stream, hand, repeated>> /\ s \in Events
        /\ memory' = [memory EXCEPT ![s] = @ - 1] /\ table' = [table EXCEPT ![s] = @ + 1]
    BY <1>15 DEF WriterInserts
  <2>2. memory'[x] + table'[x] = memory[x] + table[x] /\ memory'[x] \in Int /\ table'[x] \in Int
    BY <1>d, <2>1
  <2>3. Copies(x)' = Copies(x)
    <3>1. Sending(x)' = Sending(x) /\ Spooled(x)' = Spooled(x) /\ Taken(x)' = Taken(x)
      BY <1>d, <2>1, <2>2 DEF Sending, Spooled, Taken
    <3> QED BY <1>d, <1>p, <1>q, <2>1, <2>2, <3>1 DEF Copies
  <2> QED BY <1>h, <1>u, <2>1, <2>3
<1>16. CASE WriterCloses
  <2>1. /\ UNCHANGED <<pub, spool, handed, stream, hand, repeated>>
        /\ memory'[x] = 0 /\ table'[x] = table[x] + memory[x]
    BY <1>d, <1>16 DEF WriterCloses
  <2>2. Copies(x)' = Copies(x)
    <3>1. Sending(x)' = Sending(x) /\ Spooled(x)' = Spooled(x) /\ Taken(x)' = Taken(x)
      BY <1>d, <2>1 DEF Sending, Spooled, Taken
    <3> QED BY <1>d, <1>p, <1>q, <2>1, <3>1 DEF Copies
  <2> QED BY <1>h, <1>u, <2>1, <2>2
\* Steps that lose records of the writer.
<1>l. ASSUME UNCHANGED <<pub, spool, handed, stream, table>>, repeated \subseteq repeated',
             memory'[x] <= memory[x],
             (hand' = Message(x, TRUE) <=> hand = Message(x, TRUE)) \/ x \in repeated'
      PROVE  Single(x)'
  <2>1. CASE x \in repeated'
    BY <2>1 DEF Single
  <2>2. CASE x \notin repeated'
    <3>1. Sending(x)' = Sending(x) /\ Spooled(x)' = Spooled(x) /\ Taken(x)' = Taken(x)
      BY <1>l, <2>2 DEF Sending, Spooled, Taken
    <3>2. Copies(x)' <= Copies(x)
      BY <1>d, <1>l, <1>p, <1>q, <3>1 DEF Copies
    <3> QED BY <1>h, <1>l, <3>2
  <2> QED BY <2>1, <2>2
<1>m. ASSUME NEW lost \in SUBSET Shares, Loses(lost) PROVE memory'[x] <= memory[x]
  BY <1>d, <1>m DEF Loses
<1>17. CASE MasterExits \/ MasterCrashes
  <2>1. /\ UNCHANGED <<pub, spool, handed, stream, table>> /\ hand' = NoMessage
        /\ repeated \subseteq repeated'
        /\ hand = Message(x, TRUE) => x \in repeated'
    BY <1>d, <1>17 DEF MasterExits, MasterCrashes, MasterEnds, Message
  <2>2. memory'[x] <= memory[x]
    BY <1>d, <1>m, <1>17 DEF MasterExits, MasterCrashes
  <2>3. hand' # Message(x, TRUE)
    BY <1>d, <2>1
  <2> QED BY <1>l, <2>1, <2>2, <2>3
<1>19. CASE FinalFlushFails
  <2>1. memory'[x] <= memory[x]
    BY <1>19, <1>m DEF FinalFlushFails
  <2> QED BY <1>l, <1>19, <2>1 DEF FinalFlushFails
<1>20. ASSUME NEW s \in Shares, WriterDrops(s) PROVE Single(x)'
  <2>1. memory' = [memory EXCEPT ![s] = @ - 1] /\ memory[s] > 0
    BY <1>20 DEF WriterDrops
  <2>2. memory'[x] <= memory[x]
    BY <1>d, <2>1
  <2> QED BY <1>l, <1>20, <2>2 DEF WriterDrops
<1>21. ASSUME NEW s \in Shares, SinkShareDrops(s) PROVE Single(x)'
  <2>1. /\ UNCHANGED <<pub, spool, handed, stream, memory, table, repeated>>
        /\ hand = Message(s, FALSE) /\ hand' = Message(s, TRUE)
    BY <1>21 DEF SinkShareDrops, Handling, Sunk, Message
  <2>2. /\ Message(x, TRUE).sunk = TRUE /\ Message(s, FALSE).sunk = FALSE
        /\ Message(x, TRUE).event = x /\ Message(s, TRUE).event = s
    OBVIOUS
  <2>3. hand # Message(x, TRUE)
    BY <2>1, <2>2
  <2>4. Copies(x)' <= Copies(x)
    <3>1. Sending(x)' = Sending(x) /\ Spooled(x)' = Spooled(x) /\ Taken(x) = 0
      BY <2>1, <2>3 DEF Sending, Spooled, Taken
    <3> QED BY <1>d, <1>p, <1>q, <2>1, <3>1 DEF Copies
  <2> QED BY <1>h, <2>1, <2>4
<1>22. ASSUME NEW e \in Events, Expire(e) PROVE Single(x)'
  <2>1. /\ UNCHANGED <<pub, spool, handed, hand, memory, table, repeated>>
        /\ stream' = [stream EXCEPT ![e] = @ - 1]
    BY <1>22 DEF Expire
  <2>2. stream'[x] <= stream[x]
    BY <1>d, <2>1
  <2>3. Copies(x)' <= Copies(x)
    <3>1. Sending(x)' = Sending(x) /\ Spooled(x)' = Spooled(x) /\ Taken(x)' = Taken(x)
      BY <2>1 DEF Sending, Spooled, Taken
    <3> QED BY <1>d, <1>p, <1>q, <2>1, <2>2, <3>1 DEF Copies
  <2> QED BY <1>h, <2>1, <2>3
<1>23. ASSUME NEW e \in Events, SpoolAppendFails(e) PROVE Single(x)'
  <2>1. /\ UNCHANGED <<hand, handed, stream, memory, table, repeated>> /\ pub[e] = "failed"
        /\ pub' = [pub EXCEPT ![e] = "done"] /\ (spool' = spool \/ spool' = spool \cup {e})
    BY <1>23 DEF SpoolAppendFails
  <2>2. IF x = e THEN pub[x] = "failed" /\ pub'[x] = "done"
                 ELSE pub'[x] = pub[x] /\ (x \in spool' <=> x \in spool)
    BY <1>d, <2>1
  <2>3. Copies(x)' <= Copies(x)
    <3>1. Sending(x)' + Spooled(x)' <= Sending(x) + Spooled(x) /\ Taken(x)' = Taken(x)
      BY <1>d, <2>1, <2>2 DEF Sending, Spooled, Taken
    <3> QED BY <1>d, <1>p, <1>q, <2>1, <2>2, <3>1 DEF Copies
  <2> QED BY <1>h, <2>1, <2>2, <2>3
<1>24. ASSUME NEW e \in Events, DrainSkips(e) PROVE Single(x)'
  <2>1. /\ UNCHANGED <<hand, handed, pub, stream, memory, table, repeated>>
        /\ spool' = spool \ {e}
    BY <1>24 DEF DrainSkips
  <2>2. Copies(x)' <= Copies(x)
    <3>1. Sending(x)' = Sending(x) /\ Spooled(x)' <= Spooled(x) /\ Taken(x)' = Taken(x)
      BY <2>1 DEF Sending, Spooled, Taken
    <3> QED BY <1>d, <1>p, <1>q, <2>1, <3>1 DEF Copies
  <2> QED BY <1>h, <2>1, <2>2
<1>25. CASE RewriteFails
  <2>1. /\ UNCHANGED <<hand, pub, spool, stream, memory, table>>
        /\ handed' = {} /\ repeated' = repeated \cup handed
    BY <1>25 DEF RewriteFails
  <2>2. x \in repeated' \/ (x \in spool' \ handed' <=> x \in spool \ handed)
    BY <2>1
  <2> QED BY <1>f, <2>1, <2>2 DEF Single
<1>18. CASE \/ Disconnect \/ DrainStart \/ NodeStops \/ ClientCloses \/ SpoolCloses \/ NodeStarts
            \/ MasterStops \/ MasterStarts \/ UNCHANGED vars
  <2>1. UNCHANGED <<pub, spool, handed, hand, stream, memory, table, repeated>>
    BY <1>18 DEF Disconnect, DrainStart, NodeStops, ClientCloses, SpoolCloses, NodeStarts,
                 MasterStops, MasterStarts, vars
  <2> QED BY <1>f, <2>1
<1> QED BY <1>1, <1>2, <1>3, <1>4, <1>5, <1>6, <1>7, <1>8, <1>9, <1>10, <1>11, <1>12, <1>13,
           <1>14, <1>15, <1>16, <1>17, <1>18, <1>19, <1>20, <1>21, <1>22, <1>23, <1>24, <1>25
        DEF Next, NodeNext, MasterNext

----------------------------------------------------------------------------
(***************************************************************************)
(* The inductive invariant and the theorems.                               *)
(***************************************************************************)
IInv == Base /\ AllKept /\ AllSingle

LEMMA Inductive == Spec => []IInv
<1>1. Init => IInv
  <2> SUFFICES ASSUME Init PROVE IInv
    OBVIOUS
  <2>1. Base
    BY MessagingAssumption, MessageFacts DEF Init, Base, TypeOK, Tokens
  <2>2. AllKept
    BY MessageFacts DEF Init, AllKept, Kept
  <2>3. AllSingle
    <3> SUFFICES ASSUME NEW x \in Shares PROVE Single(x)
      BY DEF AllSingle
    <3>1. /\ pub[x] = "none" /\ x \notin spool /\ hand # Message(x, TRUE)
          /\ stream[x] = 0 /\ memory[x] = 0 /\ table[x] = 0
      BY MessageFacts DEF Init
    <3> QED BY <3>1 DEF Single, Copies, Sending, Spooled, Taken
  <2> QED BY <2>1, <2>2, <2>3 DEF IInv
<1>2. IInv /\ [Next]_vars => IInv'
  BY BaseStep, KeptStep, SingleStep DEF IInv
<1> QED BY <1>1, <1>2, PTL DEF Spec

\* The types of the stages an event passes, over any number of failures.
THEOREM TypeCorrect == Spec => []TypeOK
<1>1. IInv => TypeOK
  BY DEF IInv, Base
<1> QED BY <1>1, Inductive, PTL

\* An event that was recorded is on its way, in the writer or its WAL, in its table,
\* or written off by one of the losses OutagesLoseNothing lists, whatever connections
\* and acknowledgements do.
THEOREM OutagesCorrect == Spec => []OutagesLoseNothing
<1>1. IInv => OutagesLoseNothing
  <2> SUFFICES ASSUME IInv, NEW e \in Events, pub[e] # "none"
               PROVE  Underway(e) \/ InMemory(e) \/ table[e] > 0 \/ e \in writtenOff
    BY DEF OutagesLoseNothing
  <2>1. pub[e] \in {"none", "sent", "stored", "failed", "done"}
    BY DEF IInv, Base, TypeOK
  <2>2. pub[e] \in {"stored", "done"} => e \in spool \/ Downstream(e)
    BY DEF IInv, AllKept, Kept
  <2> QED BY <2>1, <2>2 DEF Underway, Downstream, Landed
<1> QED BY <1>1, Inductive, PTL

\* A share has a second row only after a failure between its storing and its
\* acknowledgement, on either side of the stream.
THEOREM RepeatsCorrect == Spec => []RepeatsAreFaults
<1>1. IInv => RepeatsAreFaults
  <2> SUFFICES ASSUME IInv, NEW s \in Shares, table[s] + memory[s] > 1, s \notin repeated
               PROVE  FALSE
    BY DEF RepeatsAreFaults
  <2>1. hand = Message(s, TRUE) => stream[s] > 0
    <3>1. Message(s, TRUE).event = s /\ (hand # NoMessage => stream[hand.event] > 0)
      BY DEF IInv, Base, Tokens, Message
    <3>2. Message(s, TRUE) # NoMessage
      BY MessageFacts
    <3> QED BY <3>1, <3>2
  <2>2. stream[s] \in Nat /\ memory[s] \in Nat /\ table[s] \in Nat
    BY MessageFacts DEF IInv, Base, TypeOK
  <2>3. /\ Sending(s) \in {0, 1} /\ Spooled(s) \in {0, 1} /\ Taken(s) \in {0, 1}
        /\ Taken(s) = 1 => stream[s] > 0
    <3>1. Sending(s) \in {0, 1} /\ Spooled(s) \in {0, 1} /\ Taken(s) \in {0, 1}
      BY DEF Sending, Spooled, Taken
    <3>2. hand # Message(s, TRUE) => Taken(s) = 0
      BY DEF Taken
    <3>3. Taken(s) = 0 \/ stream[s] > 0
      BY <2>1, <3>2, Zenon
    <3>4. Taken(s) = 1 => stream[s] > 0
      BY <3>3
    <3> QED BY <3>1, <3>4
  <2>4. Copies(s) <= 1
    <3>1. Single(s)
      BY DEF IInv, AllSingle
    <3>2. Copies(s) \in Int
      BY <2>2, <2>3 DEF Copies
    <3> QED BY <3>1, <3>2 DEF Single
  <2> QED BY <2>2, <2>3, <2>4 DEF Copies
<1> QED BY <1>1, Inductive, PTL
=============================================================================
