----------------------------- MODULE Messaging -----------------------------
(***************************************************************************)
(* Events on their way from a regional node to the tables of the master    *)
(* (internal/messaging/nats, and the recorders and sinks of stratumd): the *)
(* publisher with its asynchronous publishes and its spool, the stream     *)
(* POOLEVENTS, the durable consumer and what it hands events to.           *)
(*                                                                         *)
(* The spool is the set of its records (module Spool has the file), and    *)
(* the share writer a count of the records it holds, of which a crash or a *)
(* failure loses some: those in memory, not those in its WAL (module       *)
(* ShareWriter tells them apart).  Messages carry no id NATS would         *)
(* deduplicate by, so the stream counts the unacknowledged messages of     *)
(* each event.                                                             *)
(*                                                                         *)
(* State-change events take the same way and end in a log line; they are   *)
(* left out.                                                               *)
(***************************************************************************)
EXTENDS Naturals, FiniteSets

CONSTANTS
  Shares,        \* share events
  Blocks,        \* block events
  SpoolMax,      \* records the spool has room for
  MaxFaults      \* bound on failures, crashes and stops in one behaviour

Events == Shares \cup Blocks

ASSUME MessagingAssumption ==
  /\ Shares \cap Blocks = {} /\ "none" \notin Events
  /\ SpoolMax \in Nat /\ MaxFaults \in Nat

VARIABLES
  node,          \* the regional process, along main's order of shutdown
  link,          \* is its connection to NATS up?
  pub,           \* the asynchronous publish of each event
  spool,         \* events in the spool file
  drain,         \* what the spool drain is doing
  handed,        \* events this drain has republished
  stream,        \* unacknowledged messages of each event
  master,        \* the master process
  hand,          \* the message its consumer is handling
  memory,        \* records of each share the writer holds, its WAL included
  table,         \* rows of each event
  writtenOff,    \* events lost where the code, or its death, loses one
  repeated,      \* events a failure may have doubled
  faults

nodeVars == <<node, link, pub, spool, drain, handed>>
masterVars == <<master, hand, memory, table>>
ghostVars == <<writtenOff, repeated>>
vars == <<nodeVars, stream, masterVars, ghostVars, faults>>

NoMessage == [event |-> "none", sunk |-> FALSE]

TypeOK ==
  /\ node \in {"up", "stopping", "draining", "closed", "down"}
  /\ link \in BOOLEAN
  /\ pub \in [Events -> {"none", "sent", "stored", "failed", "done"}]
  /\ spool \subseteq Events /\ handed \subseteq Events
  /\ drain \in {"idle", "publishing", "ending"}
  /\ stream \in [Events -> Nat]
  /\ master \in {"up", "stopping", "flushed", "down"}
  /\ hand \in [event : Events, sunk : BOOLEAN] \cup {NoMessage}
  /\ memory \in [Shares -> Nat] /\ table \in [Events -> Nat]
  /\ writtenOff \subseteq Events /\ repeated \subseteq Events
  /\ faults \in 0..MaxFaults

Init ==
  /\ node = "up" /\ link = TRUE
  /\ pub = [e \in Events |-> "none"]
  /\ spool = {} /\ drain = "idle" /\ handed = {}
  /\ stream = [e \in Events |-> 0]
  /\ master = "up" /\ hand = NoMessage
  /\ memory = [s \in Shares |-> 0]
  /\ table = [e \in Events |-> 0]
  /\ writtenOff = {} /\ repeated = {}
  /\ faults = 0

Fault == faults < MaxFaults /\ faults' = faults + 1

Store(e) == stream' = [stream EXCEPT ![e] = @ + 1]

InMemory(e) == e \in Shares /\ memory[e] > 0

------------------------------------------------------------------------------
(* The regional node. *)

\* RecordShare, RecordBlock: PublishAsync takes the event the client's
\* buffer, or fails at once and the event goes to the spool.
RecordEvent(e) ==
  /\ node \in {"up", "stopping"} /\ pub[e] = "none"
  /\ \E outcome \in {"sent", "failed"} : pub' = [pub EXCEPT ![e] = outcome]
  /\ UNCHANGED <<node, link, spool, drain, handed, stream, masterVars, ghostVars, faults>>

\* NATS stores a message of the buffer, and acknowledges it.
StreamStores(e) ==
  /\ node \notin {"closed", "down"} /\ link /\ pub[e] = "sent"
  /\ pub' = [pub EXCEPT ![e] = "stored"]
  /\ Store(e)
  /\ UNCHANGED <<node, link, spool, drain, handed, masterVars, ghostVars, faults>>

AckArrives(e) ==
  /\ node \notin {"closed", "down"} /\ link /\ pub[e] = "stored"
  /\ pub' = [pub EXCEPT ![e] = "done"]
  /\ UNCHANGED <<node, link, spool, drain, handed, stream, masterVars, ghostVars, faults>>

\* The stream refuses a message: the error handler gets it.
StreamRefuses(e) ==
  /\ node \notin {"closed", "down"} /\ link /\ pub[e] = "sent"
  /\ Fault
  /\ pub' = [pub EXCEPT ![e] = "failed"]
  /\ UNCHANGED <<node, link, spool, drain, handed, stream, masterVars, ghostVars>>

Disconnect ==
  /\ link /\ Fault
  /\ link' = FALSE
  /\ UNCHANGED <<node, pub, spool, drain, handed, stream, masterVars, ghostVars>>

Pending == {e \in Events : pub[e] \in {"sent", "stored"}}

\* The client reconnects.  It flushes its buffer, of which any part is stored,
\* and reports every publish that has no acknowledgement yet as failed, those
\* the stream has as well.
Reconnect ==
  /\ ~link /\ node \in {"up", "stopping"}
  /\ link' = TRUE
  /\ \E flushed \in SUBSET {e \in Events : pub[e] = "sent"} :
       /\ stream' = [e \in Events |-> stream[e] + IF e \in flushed THEN 1 ELSE 0]
       /\ repeated' = repeated \cup flushed \cup {e \in Events : pub[e] = "stored"}
  /\ pub' = [e \in Events |-> IF e \in Pending THEN "failed" ELSE pub[e]]
  /\ UNCHANGED <<node, spool, drain, handed, masterVars, writtenOff, faults>>

\* Spool.Append of a failed publish, under the mutex a drain holds.  A full or
\* closed spool refuses, which is logged as "event lost".
SpoolAppend(e) ==
  /\ node # "down" /\ drain = "idle" /\ pub[e] = "failed"
  /\ pub' = [pub EXCEPT ![e] = "done"]
  /\ IF node # "closed" /\ Cardinality(spool) < SpoolMax
       THEN spool' = spool \cup {e} /\ UNCHANGED writtenOff
       ELSE writtenOff' = writtenOff \cup {e} /\ UNCHANGED spool
  /\ UNCHANGED <<node, link, drain, handed, stream, masterVars, repeated, faults>>

\* The write or its sync fails, which is logged as well; the record is in the
\* file or not.
SpoolAppendFails(e) ==
  /\ node \notin {"closed", "down"} /\ drain = "idle" /\ pub[e] = "failed"
  /\ Cardinality(spool) < SpoolMax /\ Fault
  /\ pub' = [pub EXCEPT ![e] = "done"]
  /\ spool' \in {spool, spool \cup {e}}
  /\ writtenOff' = writtenOff \cup {e}
  /\ UNCHANGED <<node, link, drain, handed, stream, masterVars, repeated>>

\* Mutant: the test of the connection is turned round.
DrainStartOffline ==
  /\ node \in {"up", "stopping"} /\ ~link
  /\ drain = "idle" /\ spool # {}
  /\ drain' = "publishing"
  /\ UNCHANGED <<node, link, pub, spool, handed, stream, masterVars, ghostVars, faults>>

\* drainLoop: a tick finds records in the spool and the connection up.
DrainStart ==
  /\ node \in {"up", "stopping"} /\ link
  /\ drain = "idle" /\ spool # {}
  /\ drain' = "publishing"
  /\ UNCHANGED <<node, link, pub, spool, handed, stream, masterVars, ghostVars, faults>>

\* A record is republished and its acknowledgement awaited.
DrainPublish(e) ==
  /\ node \in {"up", "stopping"} /\ link
  /\ drain = "publishing" /\ e \in spool \ handed
  /\ Store(e)
  /\ handed' = handed \cup {e}
  /\ UNCHANGED <<node, link, pub, spool, drain, masterVars, ghostVars, faults>>

\* The publish fails: no connection, a context that Close has cancelled, or the
\* five seconds are over, when the stream may have the message.
DrainFails(e) ==
  /\ node \in {"up", "stopping"}
  /\ drain = "publishing" /\ e \in spool \ handed
  /\ drain' = "ending"
  /\ \/ (~link \/ node = "stopping") /\ UNCHANGED <<stream, repeated, faults>>
     \/ Fault /\ UNCHANGED <<stream, repeated>>
     \/ Fault /\ link /\ Store(e) /\ repeated' = repeated \cup {e}
  /\ UNCHANGED <<node, link, pub, spool, handed, masterVars, writtenOff>>

\* A drain cannot read the line of a record, glued to one that a failed write or
\* a crash has torn: it skips the line and drops it with the rewrite.
DrainSkips(e) ==
  /\ node \in {"up", "stopping"}
  /\ drain = "publishing" /\ e \in spool \ handed
  /\ Fault
  /\ spool' = spool \ {e}
  /\ writtenOff' = writtenOff \cup {e}
  /\ UNCHANGED <<node, link, pub, drain, handed, stream, masterVars, repeated>>

\* Mutants: the file is emptied whatever was republished; it is left alone.
DrainEndEmpties ==
  /\ node \in {"up", "stopping"}
  /\ drain = "ending" \/ (drain = "publishing" /\ spool \subseteq handed)
  /\ spool' = {} /\ drain' = "idle" /\ handed' = {}
  /\ UNCHANGED <<node, link, pub, stream, masterVars, ghostVars, faults>>
DrainEndForgets ==
  /\ node \in {"up", "stopping"}
  /\ drain = "ending" \/ (drain = "publishing" /\ spool \subseteq handed)
  /\ drain' = "idle" /\ handed' = {}
  /\ UNCHANGED <<node, link, pub, spool, stream, masterVars, ghostVars, faults>>

\* The file is rewritten with what was not republished.
DrainEnd ==
  /\ node \in {"up", "stopping"}
  /\ drain = "ending" \/ (drain = "publishing" /\ spool \subseteq handed)
  /\ spool' = spool \ handed
  /\ drain' = "idle" /\ handed' = {}
  /\ UNCHANGED <<node, link, pub, stream, masterVars, ghostVars, faults>>

\* The rewrite fails: the file keeps what was republished.
RewriteFails ==
  /\ node \in {"up", "stopping"}
  /\ drain = "ending" \/ (drain = "publishing" /\ spool \subseteq handed)
  /\ Fault
  /\ drain' = "idle" /\ handed' = {}
  /\ repeated' = repeated \cup handed
  /\ UNCHANGED <<node, link, pub, spool, stream, masterVars, writtenOff>>

\* The signal: no miner is served any more, and main goes on with the pools.
NodeStops ==
  /\ node = "up" /\ Fault
  /\ node' = "stopping"
  /\ UNCHANGED <<link, pub, spool, drain, handed, stream, masterVars, ghostVars>>

\* Publisher.Close waits for the drain loop; Client.Close drains the connection
\* in the background, or gives it up when it is down.
ClientCloses ==
  /\ node = "stopping" /\ drain = "idle"
  /\ node' = "draining"
  /\ UNCHANGED <<link, pub, spool, drain, handed, stream, masterVars, ghostVars, faults>>

SpoolCloses ==
  /\ node = "draining"
  /\ node' = "closed"
  /\ UNCHANGED <<link, pub, spool, drain, handed, stream, masterVars, ghostVars, faults>>

\* The process is gone, with every publish that neither the stream nor the
\* spool has.
ProcessEnds ==
  /\ node' = "down" /\ drain' = "idle" /\ handed' = {}
  /\ pub' = [e \in Events |-> IF pub[e] = "none" THEN "none" ELSE "done"]
  /\ writtenOff' = writtenOff \cup {e \in Events : pub[e] \in {"sent", "failed"}}
  /\ repeated' = repeated \cup handed
  /\ UNCHANGED <<link, spool, stream, masterVars>>

NodeExits == node = "closed" /\ ProcessEnds /\ UNCHANGED faults
NodeCrashes == node # "down" /\ ProcessEnds /\ Fault

\* The supervisor starts it again; Connect retries until NATS is there.
NodeStarts ==
  /\ node = "down"
  /\ node' = "up" /\ link' = TRUE
  /\ UNCHANGED <<pub, spool, drain, handed, stream, masterVars, ghostVars, faults>>

------------------------------------------------------------------------------
(* The stream and the master. *)

\* MaxAge: NATS discards a message that is 72 hours old, handled or not.  Its event
\* is lost with the last one, unless it has landed.  (For the message in the
\* handler this is its Ack.)
Expire(e) ==
  /\ stream[e] > IF hand.event = e THEN 1 ELSE 0
  /\ Fault
  /\ stream' = [stream EXCEPT ![e] = @ - 1]
  /\ writtenOff' = writtenOff \cup
       {x \in {e} : stream[x] = 1 /\ ~InMemory(x) /\ table[x] = 0}
  /\ UNCHANGED <<nodeVars, masterVars, repeated>>

\* The durable consumer hands a message to its one handler.
Deliver(e) ==
  /\ master = "up" /\ hand = NoMessage /\ stream[e] > 0
  /\ hand' = [event |-> e, sunk |-> FALSE]
  /\ UNCHANGED <<nodeVars, stream, master, memory, table, ghostVars, faults>>

Handling(e) == master # "down" /\ hand = [event |-> e, sunk |-> FALSE]

Sunk(e) == hand' = [event |-> e, sunk |-> TRUE]

\* SinkShare: the writer takes the share under a new id.  A writer that has been
\* closed meanwhile (Stop does not wait for the handler) keeps it in a channel
\* nobody reads.
SinkShare(s) ==
  /\ Handling(s) /\ Sunk(s)
  /\ IF master = "flushed"
       THEN writtenOff' = writtenOff \cup {s} /\ UNCHANGED memory
       ELSE memory' = [memory EXCEPT ![s] = @ + 1] /\ UNCHANGED writtenOff
  /\ UNCHANGED <<nodeVars, stream, master, table, repeated, faults>>

\* Enqueue finds the queue full, and the WAL absent, full or failing: the share is
\* dropped and counted, and its message acknowledged all the same.
SinkShareDrops(s) ==
  /\ Handling(s) /\ Sunk(s) /\ Fault
  /\ writtenOff' = writtenOff \cup {s}
  /\ UNCHANGED <<nodeVars, stream, master, memory, table, repeated>>

\* SinkBlock: the row is there once, however often it is inserted.
SinkBlock(b) ==
  /\ Handling(b) /\ Sunk(b)
  /\ table' = [table EXCEPT ![b] = 1]
  /\ UNCHANGED <<nodeVars, stream, master, memory, ghostVars, faults>>

\* The insert of a block fails.  The error is logged and no more.
SinkBlockFails(b) ==
  /\ Handling(b) /\ Sunk(b) /\ Fault
  /\ writtenOff' = writtenOff \cup {b}
  /\ UNCHANGED <<nodeVars, stream, master, memory, table, repeated>>

\* Mutant: the message is acknowledged and delivered to the handler once more.
AckTwice(e) ==
  /\ hand = [event |-> e, sunk |-> TRUE]
  /\ stream' = [stream EXCEPT ![e] = @ - 1]
  /\ UNCHANGED <<nodeVars, masterVars, ghostVars, faults>>

Ack(e) ==
  /\ hand = [event |-> e, sunk |-> TRUE]
  /\ hand' = NoMessage
  /\ stream' = [stream EXCEPT ![e] = @ - 1]
  /\ UNCHANGED <<nodeVars, master, memory, table, ghostVars, faults>>

\* The acknowledgement does not arrive, or arrives after AckWait: the message
\* is delivered again.  Its error is dropped.
AckLost(e) ==
  /\ hand = [event |-> e, sunk |-> TRUE] /\ Fault
  /\ hand' = NoMessage
  /\ repeated' = repeated \cup {e}
  /\ UNCHANGED <<nodeVars, stream, master, memory, table, writtenOff>>

\* The share writer inserts a record.
WriterInserts(s) ==
  /\ master \in {"up", "stopping"} /\ memory[s] > 0
  /\ memory' = [memory EXCEPT ![s] = @ - 1]
  /\ table' = [table EXCEPT ![s] = @ + 1]
  /\ UNCHANGED <<nodeVars, stream, master, hand, ghostVars, faults>>

\* Flushes fail until the oldest retained records exceed the bound, and the WAL
\* does not take them either.
WriterDrops(s) ==
  /\ master \in {"up", "stopping"} /\ memory[s] > 0 /\ Fault
  /\ memory' = [memory EXCEPT ![s] = @ - 1]
  /\ writtenOff' = writtenOff \cup {s}
  /\ UNCHANGED <<nodeVars, stream, master, hand, table, repeated>>

\* The writer loses its records of some shares.
Loses(lost) ==
  /\ memory' = [s \in Shares |-> IF s \in lost THEN 0 ELSE memory[s]]
  /\ writtenOff' = writtenOff \cup {s \in lost : memory[s] > 0}

\* The signal, and Consumer.Stop: no further delivery.
MasterStops ==
  /\ master = "up" /\ Fault
  /\ master' = "stopping"
  /\ UNCHANGED <<nodeVars, stream, hand, memory, table, ghostVars>>

\* ShareWriter.Close: the final flush and the last drain of the WAL succeed.
WriterCloses ==
  /\ master = "stopping"
  /\ master' = "flushed"
  /\ memory' = [s \in Shares |-> 0]
  /\ table' = [e \in Events |-> table[e] + IF e \in Shares THEN memory[e] ELSE 0]
  /\ UNCHANGED <<nodeVars, stream, hand, ghostVars, faults>>

\* One of them fails.  The final flush is not tried again and its records are gone;
\* those of the WAL stay for the next start.
FinalFlushFails ==
  /\ master = "stopping" /\ Fault
  /\ master' = "flushed"
  /\ \E lost \in SUBSET Shares : Loses(lost)
  /\ UNCHANGED <<nodeVars, stream, hand, table, repeated>>

\* The process is gone.  A message that was not acknowledged is delivered again.
MasterEnds ==
  /\ master' = "down" /\ hand' = NoMessage
  /\ repeated' = repeated \cup {e \in Events : hand = [event |-> e, sunk |-> TRUE]}
  /\ UNCHANGED <<nodeVars, stream, table>>

\* After Close the writer's records are those of the WAL; a crash takes any others
\* with it.
MasterExits == master = "flushed" /\ MasterEnds /\ UNCHANGED <<memory, writtenOff, faults>>
MasterCrashes ==
  /\ master # "down" /\ MasterEnds /\ Fault
  /\ \E lost \in SUBSET Shares : Loses(lost)

\* StartConsumer binds to the durable consumer again.
MasterStarts ==
  /\ master = "down"
  /\ master' = "up"
  /\ UNCHANGED <<nodeVars, stream, hand, memory, table, ghostVars, faults>>

------------------------------------------------------------------------------
NodeNext ==
  \/ \E e \in Events :
       \/ RecordEvent(e) \/ StreamStores(e) \/ AckArrives(e) \/ StreamRefuses(e)
       \/ SpoolAppend(e) \/ SpoolAppendFails(e)
       \/ DrainPublish(e) \/ DrainFails(e) \/ DrainSkips(e)
  \/ Disconnect \/ Reconnect \/ DrainStart \/ DrainEnd \/ RewriteFails
  \/ NodeStops \/ ClientCloses \/ SpoolCloses \/ NodeExits \/ NodeCrashes \/ NodeStarts

MasterNext ==
  \/ \E e \in Events : Expire(e) \/ Deliver(e) \/ Ack(e) \/ AckLost(e)
  \/ \E s \in Shares : SinkShare(s) \/ SinkShareDrops(s) \/ WriterInserts(s) \/ WriterDrops(s)
  \/ \E b \in Blocks : SinkBlock(b) \/ SinkBlockFails(b)
  \/ MasterStops \/ WriterCloses \/ FinalFlushFails \/ MasterExits \/ MasterCrashes \/ MasterStarts

Next == NodeNext \/ MasterNext

Spec == Init /\ [][Next]_vars

\* Every goroutine goes on, connections come back, supervisors restart.
NodeFairness ==
  /\ \A e \in Events :
       /\ WF_vars(StreamStores(e)) /\ WF_vars(AckArrives(e))
       /\ WF_vars(SpoolAppend(e)) /\ WF_vars(DrainPublish(e))
       /\ WF_vars(DrainFails(e) /\ ~link)
  /\ WF_vars(Reconnect) /\ WF_vars(DrainStart) /\ WF_vars(DrainEnd)
  /\ SF_vars(ClientCloses) /\ WF_vars(SpoolCloses) /\ WF_vars(NodeExits) /\ WF_vars(NodeStarts)

MasterFairness ==
  /\ \A e \in Events : SF_vars(Deliver(e)) /\ WF_vars(Ack(e))
  /\ \A s \in Shares : WF_vars(SinkShare(s)) /\ WF_vars(WriterInserts(s))
  /\ \A b \in Blocks : WF_vars(SinkBlock(b))
  /\ WF_vars(WriterCloses) /\ WF_vars(MasterExits) /\ WF_vars(MasterStarts)

FairSpec == Spec /\ NodeFairness /\ MasterFairness

------------------------------------------------------------------------------
\* What the system knows of an event.
Underway(e) == pub[e] \in {"sent", "failed"} \/ e \in spool \/ stream[e] > 0

\* "A disk spool keeps regional nodes lossless through NATS outages": an event
\* that was recorded is on its way, in the writer or in its table, whatever the
\* connections and acknowledgements do.  It may be missing only if
\*   - a process died with it,
\*   - the spool was full or closed, its write failed, or its line was torn,
\*   - it lay in the stream for 72 hours,
\*   - the insert of a block failed,
\*   - the share writer was full with no WAL to take it, had been closed, or lost
\*     it with its final flush.
OutagesLoseNothing ==
  \A e \in Events : pub[e] # "none" =>
    Underway(e) \/ InMemory(e) \/ table[e] > 0 \/ e \in writtenOff

\* A share has a second row only if a failure came between its storing and its
\* acknowledgement: delivery is at least once, and exactly once without faults.
RepeatsAreFaults ==
  \A s \in Shares : table[s] + memory[s] > 1 => s \in repeated

\* Every recorded event ends in its table, over disconnections, restarts of both
\* sides and redeliveries, or is one of those written off.
EventuallyPersisted ==
  <>[](\A e \in Events : pub[e] # "none" => table[e] > 0 \/ e \in writtenOff)
=============================================================================
