---------------------------- MODULE ShareWriter ----------------------------
(***************************************************************************)
(* The asynchronous share writer (internal/storage/postgres/sharewriter.go *)
(* and sharewal.go): Enqueue callers, the flusher goroutine (loop), the    *)
(* WAL recovery goroutine (recoveryLoop), Close, and the shares table.     *)
(*                                                                         *)
(* No property depends on the order of shares, so every buffer is the set  *)
(* of the shares in it: "the oldest" or "the next" records are any records *)
(* of that number.  The WAL is the set of records in the spool file, whose *)
(* own failures (torn lines, a lost handle) are those of module Spool; its *)
(* mutex is held by a whole drain, that is while drain # "idle".           *)
(*                                                                         *)
(* A counter is the set of the shares it counted, over all incarnations of *)
(* the process.                                                            *)
(***************************************************************************)
EXTENDS Naturals, FiniteSetsExt

CONSTANTS
  Shares,        \* share ids, numbered in the order Enqueue is called
  QueueSize,     \* WriterOptions.QueueSize
  BatchSize,     \* WriterOptions.BatchSize
  MaxRetained,   \* maxRetainedShares
  WALSize,       \* WALMaxBytes in records; 0 when no WALPath is set
  DrainBatch,    \* walDrainBatchSize
  MayCrash,      \* may the process be killed?
  MaxFaults,     \* bound on failed calls and crashes in one behaviour
  MaxStops       \* bound on orderly shutdowns in one behaviour

ASSUME ShareWriterAssumption ==
  /\ Shares \subseteq Nat
  /\ {QueueSize, BatchSize, DrainBatch} \subseteq Nat \ {0}
  /\ {MaxRetained, WALSize, MaxFaults, MaxStops} \subseteq Nat
  /\ MayCrash \in BOOLEAN

VARIABLES
  accepted,      \* shares handed to Enqueue
  diverting,     \* shares whose Enqueue is in divert, at the WAL
  ch,            \* the queue
  batch,         \* loop's batch
  pending,       \* shares retained after failed flushes
  flushing,      \* toWrite of the database call in progress
  overflow,      \* shares retain is moving to the WAL
  loop,          \* where the flusher is
  hadRetained,   \* does the flush in progress carry retained shares?
  wal,           \* records in the WAL file
  drain,         \* where the drain of the WAL is
  drained,       \* records the drain in progress has inserted
  db,            \* ids in the shares table
  written,       \* counter: inserted by a flush
  diverted,      \* counter toWAL: appended to the WAL
  dropped,       \* counter: dropped
  cut,           \* shares in memory when the process died, or in a final
                 \* flush that failed
  phase,         \* of the process
  stops, faults  \* shutdowns and failures so far

callVars == <<accepted, diverting>>
loopVars == <<ch, batch, pending, flushing, overflow, loop, hadRetained>>
walVars == <<wal, drain, drained>>
countVars == <<written, diverted, dropped, cut>>
vars == <<callVars, loopVars, walVars, db, countVars, phase, stops, faults>>

\* "draining" is Close's last drain, "closed" the process after Close.
Phases == {"running", "closing", "draining", "closed"}

Memory == diverting \cup ch \cup batch \cup pending \cup flushing \cup overflow

TypeOK ==
  /\ accepted \subseteq Shares
  /\ Memory \cup wal \cup db \cup written \cup diverted \cup dropped \cup cut \subseteq accepted
  /\ loop \in {"select", "flush", "retain", "final", "done"}
  /\ flushing # {} => loop \in {"flush", "final"}
  /\ overflow # {} <=> loop = "retain"
  /\ hadRetained \in BOOLEAN
  /\ drain \in {"idle", "insert", "rewrite"}
  /\ drained \subseteq wal
  /\ phase \in Phases
  /\ stops \in 0..MaxStops
  /\ faults \in 0..MaxFaults

Init ==
  /\ accepted = {} /\ diverting = {}
  /\ ch = {} /\ batch = {} /\ pending = {} /\ flushing = {} /\ overflow = {}
  /\ loop = "select"
  /\ hadRetained = FALSE
  /\ wal = {} /\ drain = "idle" /\ drained = {}
  /\ db = {}
  /\ written = {} /\ diverted = {} /\ dropped = {} /\ cut = {}
  /\ phase = "running"
  /\ stops = 0 /\ faults = 0

Fault == faults < MaxFaults /\ faults' = faults + 1

NoFault == UNCHANGED faults

(***************************************************************************)
(* Database calls.  The unique index on (id, created) makes a plain COPY   *)
(* of a share the table already has fail as a whole; the idempotent insert *)
(* skips such shares.  A call of a cancelled context fails.  A call that   *)
(* fails may have committed.                                               *)
(***************************************************************************)

\* CopyShares(S, idempotent): may the table take S by this call?
Insertable(S, idempotent) == idempotent \/ S \cap db = {}

InsertSucceeds(S, idempotent) ==
  /\ Insertable(S, idempotent)
  /\ db' = db \cup S
  /\ NoFault

InsertFails(S, idempotent, cancelled) ==
  \/ ~Insertable(S, idempotent) /\ NoFault /\ UNCHANGED db
  \/ /\ Insertable(S, idempotent)
     /\ IF cancelled THEN NoFault ELSE Fault
     /\ db' \in {db, db \cup S}

(***************************************************************************)
(* Enqueue.                                                                *)
(***************************************************************************)
Enqueue(s) ==
  /\ phase = "running"
  /\ s \notin accepted
  /\ \A t \in Shares \ accepted : s <= t
  /\ accepted' = accepted \cup {s}
  /\ IF Cardinality(ch) < QueueSize
       THEN ch' = ch \cup {s} /\ UNCHANGED diverting
       ELSE diverting' = diverting \cup {s} /\ UNCHANGED ch
  /\ UNCHANGED <<batch, pending, flushing, overflow, loop, hadRetained, walVars, db,
                 countVars, phase, stops, faults>>

\* divert: one append to the WAL, under its mutex.  A full or missing WAL
\* refuses the record; a write or a sync that fails has left it in the file or
\* not.
Divert(s) ==
  /\ drain = "idle"
  /\ \/ /\ Cardinality(wal) < WALSize
        /\ wal' = wal \cup {s}
        /\ diverted' = diverted \cup {s}
        /\ NoFault
        /\ UNCHANGED dropped
     \/ /\ Cardinality(wal) >= WALSize
        /\ dropped' = dropped \cup {s}
        /\ NoFault
        /\ UNCHANGED <<wal, diverted>>
     \/ /\ Cardinality(wal) < WALSize
        /\ Fault
        /\ wal' \in {wal, wal \cup {s}}
        /\ dropped' = dropped \cup {s}
        /\ UNCHANGED diverted

DivertShare(s) ==
  /\ s \in diverting
  /\ diverting' = diverting \ {s}
  /\ Divert(s)
  /\ UNCHANGED <<accepted, loopVars, drain, drained, db, written, cut, phase, stops>>

(***************************************************************************)
(* The flusher.                                                            *)
(***************************************************************************)

\* Mutant: the retained shares are flushed and stay retained.
FlushKeepingPending(b) ==
  /\ hadRetained' = (pending # {})
  /\ flushing' = pending \cup b
  /\ batch' = {}
  /\ loop' = "flush"
  /\ UNCHANGED pending

\* Mutant: retained shares are flushed by a plain COPY like fresh ones.
FlushPlain(b) ==
  /\ hadRetained' = FALSE
  /\ flushing' = pending \cup b
  /\ pending' = {}
  /\ batch' = {}
  /\ loop' = "flush"

\* flush begins: it takes the retained shares and those of b.
Flush(b) ==
  /\ hadRetained' = (pending # {})
  /\ flushing' = pending \cup b
  /\ pending' = {}
  /\ batch' = {}
  /\ loop' = "flush"

Receive(s) ==
  /\ loop = "select"
  /\ s \in ch
  /\ ch' = ch \ {s}
  /\ IF Cardinality(batch \cup {s}) >= BatchSize
       THEN Flush(batch \cup {s})
       ELSE batch' = batch \cup {s} /\ UNCHANGED <<pending, flushing, loop, hadRetained>>
  /\ UNCHANGED <<callVars, overflow, walVars, db, countVars, phase, stops, faults>>

Tick ==
  /\ loop = "select"
  /\ batch \cup pending # {}
  /\ Flush(batch)
  /\ UNCHANGED <<callVars, ch, overflow, walVars, db, countVars, phase, stops, faults>>

FlushSucceeds ==
  /\ loop = "flush"
  /\ phase = "running"
  /\ InsertSucceeds(flushing, hadRetained)
  /\ written' = written \cup flushing
  /\ flushing' = {}
  /\ loop' = "select"
  /\ UNCHANGED <<callVars, ch, batch, pending, overflow, hadRetained, walVars,
                 diverted, dropped, cut, phase, stops>>

\* Mutant: what exceeds the bound is taken out of pending and left at that.
RetainForgetting(S) ==
  /\ \E K \in kSubset(IF Cardinality(S) < MaxRetained THEN Cardinality(S) ELSE MaxRetained, S) :
       pending' = K /\ overflow' = S \ K
  /\ loop' = "select"

\* retain keeps MaxRetained shares of S in memory; the others go to the WAL.
Retain(S) ==
  IF Cardinality(S) <= MaxRetained
    THEN pending' = S /\ loop' = "select" /\ UNCHANGED overflow
    ELSE /\ \E K \in kSubset(MaxRetained, S) : pending' = K /\ overflow' = S \ K
         /\ loop' = "retain"

FlushFails ==
  /\ loop = "flush"
  /\ InsertFails(flushing, hadRetained, phase # "running")
  /\ Retain(flushing)
  /\ flushing' = {}
  /\ UNCHANGED <<callVars, ch, batch, hadRetained, walVars, countVars, phase, stops>>

DivertOverflow(s) ==
  /\ loop = "retain"
  /\ s \in overflow
  /\ overflow' = overflow \ {s}
  /\ loop' = IF overflow = {s} THEN "select" ELSE "retain"
  /\ Divert(s)
  /\ UNCHANGED <<callVars, ch, batch, pending, flushing, hadRetained, drain, drained, db,
                 written, cut, phase, stops>>

\* loop sees its context cancelled: the final flush takes everything.
StopLoop ==
  /\ loop = "select"
  /\ phase = "closing"
  /\ flushing' = pending \cup batch \cup ch
  /\ ch' = {} /\ batch' = {} /\ pending' = {}
  /\ loop' = IF flushing' = {} THEN "done" ELSE "final"
  /\ UNCHANGED <<callVars, overflow, hadRetained, walVars, db, countVars, phase, stops, faults>>

\* The final flush is a plain COPY, whatever flushing holds, and its failure is
\* logged.
FinalFlush ==
  /\ loop = "final"
  /\ \/ /\ InsertSucceeds(flushing, FALSE)
        /\ written' = written \cup flushing
        /\ UNCHANGED cut
     \/ /\ InsertFails(flushing, FALSE, FALSE)
        /\ cut' = cut \cup flushing
        /\ UNCHANGED written
  /\ flushing' = {}
  /\ loop' = "done"
  /\ UNCHANGED <<callVars, ch, batch, pending, overflow, hadRetained, walVars,
                 diverted, dropped, phase, stops>>

(***************************************************************************)
(* The drain of the WAL, by recoveryLoop while the process runs and by     *)
(* Close at its end.                                                       *)
(***************************************************************************)
DrainStart ==
  /\ phase = "running"
  /\ drain = "idle"
  /\ wal # {}
  /\ drain' = "insert"
  /\ drained' = {}
  /\ UNCHANGED <<callVars, loopVars, wal, db, countVars, phase, stops, faults>>

\* The next batches the drain may insert.
NextBatches ==
  LET rest == wal \ drained
  IN  IF Cardinality(rest) <= DrainBatch THEN {rest} ELSE kSubset(DrainBatch, rest)

DrainInsert ==
  /\ drain = "insert"
  /\ \E B \in NextBatches :
       \/ /\ phase # "closing"
          /\ InsertSucceeds(B, TRUE)
          /\ drained' = drained \cup B
          /\ drain' = IF drained' = wal THEN "rewrite" ELSE "insert"
       \/ /\ InsertFails(B, TRUE, phase = "closing")
          /\ drain' = "rewrite"
          /\ UNCHANGED drained
  /\ UNCHANGED <<callVars, loopVars, wal, countVars, phase, stops>>

\* Mutant: the file is truncated whether or not the inserts went through.
TruncateAll ==
  /\ drain = "rewrite"
  /\ wal' = {}
  /\ NoFault
  /\ drain' = "idle"
  /\ drained' = {}
  /\ phase' = IF phase = "draining" THEN "closed" ELSE phase
  /\ UNCHANGED <<callVars, loopVars, db, countVars, stops>>

\* rewriteLocked replaces the file by what was not inserted, or fails and
\* leaves it as it is.
DrainRewrite ==
  /\ drain = "rewrite"
  /\ \/ wal' = wal \ drained /\ NoFault
     \/ Fault /\ UNCHANGED wal
  /\ drain' = "idle"
  /\ drained' = {}
  /\ phase' = IF phase = "draining" THEN "closed" ELSE phase
  /\ UNCHANGED <<callVars, loopVars, db, countVars, stops>>

(***************************************************************************)
(* The process.                                                            *)
(***************************************************************************)

\* Close cancels the goroutines' context, when no caller is left.
Close ==
  /\ phase = "running"
  /\ diverting = {}
  /\ stops < MaxStops
  /\ stops' = stops + 1
  /\ phase' = "closing"
  /\ UNCHANGED <<callVars, loopVars, walVars, db, countVars, faults>>

\* Both goroutines are gone: Close drains the WAL once more.
FinalDrain ==
  /\ phase = "closing"
  /\ loop = "done"
  /\ drain = "idle"
  /\ IF wal = {}
       THEN phase' = "closed" /\ UNCHANGED drain
       ELSE phase' = "draining" /\ drain' = "insert"
  /\ UNCHANGED <<callVars, loopVars, wal, drained, db, countVars, stops, faults>>

\* NewShareWriter on what the last process has left in the WAL.
Restart ==
  /\ phase = "closed"
  /\ phase' = "running"
  /\ loop' = "select"
  /\ UNCHANGED <<callVars, ch, batch, pending, flushing, overflow, hadRetained, walVars, db,
                 countVars, stops, faults>>

\* The process is killed and started again.  A database call in progress has
\* committed or not, a rewrite renamed its file or not.
Crash ==
  /\ MayCrash
  /\ phase # "closed"
  /\ Fault
  /\ \E C \in {{}, flushing}, B \in {{}} \cup NextBatches :
       /\ Insertable(C, loop = "flush" /\ hadRetained)
       /\ B # {} => drain = "insert"
       /\ db' = db \cup C \cup B
  /\ wal' \in {wal} \cup (IF drain = "rewrite" THEN {wal \ drained} ELSE {})
  /\ cut' = cut \cup Memory
  /\ diverting' = {} /\ ch' = {} /\ batch' = {} /\ pending' = {} /\ flushing' = {}
  /\ overflow' = {}
  /\ loop' = "select" /\ hadRetained' = FALSE
  /\ drain' = "idle" /\ drained' = {}
  /\ phase' = "running"
  /\ UNCHANGED <<accepted, written, diverted, dropped, stops>>

LoopStep ==
  \/ \E s \in Shares : Receive(s) \/ DivertOverflow(s)
  \/ Tick
  \/ FlushSucceeds
  \/ FlushFails
  \/ StopLoop
  \/ FinalFlush

DrainStep == DrainStart \/ DrainInsert \/ DrainRewrite

Next ==
  \/ \E s \in Shares : Enqueue(s) \/ DivertShare(s)
  \/ LoopStep
  \/ DrainStep
  \/ Close
  \/ FinalDrain
  \/ Restart
  \/ Crash

Spec == Init /\ [][Next]_vars

(***************************************************************************)
(* Fairness: the two goroutines run (their tickers tick and their calls    *)
(* have deadlines), a caller gets the WAL's mutex once it is free for      *)
(* good, Close goes on and the service is started again.  select picks     *)
(* among its ready cases at random, so that a cancelled context is seen    *)
(* whatever else is ready (SF).  The database answers again at some time   *)
(* because faults are bounded.                                             *)
(***************************************************************************)
Fairness ==
  /\ WF_vars(LoopStep)
  /\ SF_vars(StopLoop)
  /\ WF_vars(DrainStep)
  /\ \A s \in Shares : WF_vars(DivertShare(s))
  /\ WF_vars(FinalDrain)
  /\ WF_vars(Restart)

FairSpec == Spec /\ Fairness

(***************************************************************************)
(* Properties.                                                             *)
(***************************************************************************)

\* Where a share may be, and the counters that may have counted it.
Holders == <<diverting, ch, batch, pending, flushing, overflow, written, diverted, dropped, cut>>

\* Every accepted share is in one buffer or counted by one counter, and never
\* in two places: no path through flush, retain, divert and the drains forgets,
\* repeats or double-counts it (Stats, WALStats; "accepted shares persist",
\* README.md:25).
CountedOnce ==
  /\ accepted = UNION {Holders[i] : i \in DOMAIN Holders}
  /\ \A i, j \in DOMAIN Holders : i # j => Holders[i] \cap Holders[j] = {}

\* The counters tell the truth, also after crashes: a share counted as written
\* is in the table, one counted as diverted is in the WAL or in the table (the
\* drain removes a record only after its insert: sharewal.go, drain).
CountersTellTruth ==
  /\ written \subseteq db
  /\ diverted \subseteq wal \cup db

\* Every accepted share ends in the table, unless the WAL refused it or the
\* process took it down: no outage that ends, no insert whose reply is lost and
\* no full buffer leaves a share waiting for ever or wedges the writer.
EventuallyStored ==
  \A s \in Shares : s \in accepted ~> s \in db \cup dropped \cup cut

\* An orderly shutdown loses nothing: "append ... returns an error only when
\* even the WAL could not accept it ..., which is the sole remaining path to
\* genuine loss" (sharewal.go:36).
ShutdownKeepsShares == cut \subseteq db \cup wal
=============================================================================
