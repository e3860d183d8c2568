------------------------------- MODULE Spool -------------------------------
(***************************************************************************)
(* The disk spool (internal/spool): a file of lines with one record each,  *)
(* appended one by one, drained through a function that hands records on,  *)
(* and rewritten without those that were.  The NATS publisher and the      *)
(* share writer's WAL use it.                                              *)
(*                                                                         *)
(* Every operation holds the spool's mutex, so an Append is one step; a    *)
(* Drain is several, because the process may die in it.  Drain is          *)
(* DrainBatch with batches of one.                                         *)
(*                                                                         *)
(* A line is the sequence of what was written since the last newline: the  *)
(* JSON of a record, or a part of it when the write was cut short.  Sizes  *)
(* count one unit for such a piece and one for a newline.                  *)
(***************************************************************************)
EXTENDS Naturals, SequencesExt

CONSTANTS
  MaxRecords,    \* bound on the records appended in one behaviour
  MaxBytes,      \* size bound of the file, in units
  BatchSize,     \* DrainBatch's batchSize
  MaxFaults      \* bound on failed calls and crashes in one behaviour

ASSUME SpoolAssumption ==
  /\ MaxRecords \in Nat /\ MaxBytes \in Nat
  /\ BatchSize \in Nat \ {0} /\ MaxFaults \in Nat

VARIABLES
  file,          \* lines of the file
  cut,           \* does the last line lack its newline?
  size,          \* Spool.size
  handle,        \* is Spool.f open?
  drain,         \* where the drain is
  read,          \* records the drain has read
  committed,     \* how many of them were handed on
  next,          \* the next record to append
  acked,         \* records whose Append returned nil
  glued,         \* those written behind a line that was cut
  sent,          \* how often the function accepted each record
  faults

\* Records are numbered in the order they are appended.
Records == 1..MaxRecords

fileVars == <<file, cut, size, handle>>
drainVars == <<drain, read, committed>>
logVars == <<next, acked, glued, sent>>
vars == <<fileVars, drainVars, logVars, faults>>

Piece(r, whole) == [record |-> r, whole |-> whole]

\* A line that json.Unmarshal accepts: one record, complete, the newline or
\* the end of the file behind it.
Readable(line) == Len(line) = 1 /\ line[1].whole

\* The records of the lines that can be read, in order: the scan adds one per
\* such line and skips the others.
Parsed(lines) ==
  LET upTo[n \in 0..Len(lines)] ==
        IF n = 0 THEN <<>>
        ELSE IF Readable(lines[n]) THEN Append(upTo[n - 1], lines[n][1].record)
        ELSE upTo[n - 1]
  IN  upTo[Len(lines)]

Lines(records) == [i \in DOMAIN records |-> <<Piece(records[i], TRUE)>>]

\* The units of lines, each with its newline.
Units(lines) ==
  LET upTo[n \in 0..Len(lines)] ==
        IF n = 0 THEN 0 ELSE upTo[n - 1] + Len(lines[n]) + 1
  IN  upTo[Len(lines)]

\* What os.File.Stat says of the file.
FileSize == Units(file) - (IF cut THEN 1 ELSE 0)

\* The lines after a write of piece p.
Written(p) ==
  IF cut THEN Append(Front(file), Append(Last(file), p)) ELSE Append(file, <<p>>)

TypeOK ==
  /\ \A i \in DOMAIN file : \A j \in DOMAIN file[i] :
       file[i][j] \in [record : Records, whole : BOOLEAN]
  /\ cut \in BOOLEAN
  /\ size \in 0..MaxBytes
  /\ handle \in {"open", "closed", "down"}
  /\ drain \in {"idle", "handing", "rewriting"}
  /\ \A i \in DOMAIN read : read[i] \in Records
  /\ committed \in 0..Len(read)
  /\ next \in Nat
  /\ glued \subseteq acked /\ acked \subseteq Records
  /\ sent \in [Records -> Nat]
  /\ faults \in 0..MaxFaults

Init ==
  /\ file = <<>> /\ cut = FALSE
  /\ size = 0 /\ handle = "open"
  /\ drain = "idle" /\ read = <<>> /\ committed = 0
  /\ next = 1 /\ acked = {} /\ glued = {}
  /\ sent = [r \in Records |-> 0]
  /\ faults = 0

----------------------------------------------------------------------------
(***************************************************************************)
(* Append.                                                                 *)
(***************************************************************************)
MayAppend == drain = "idle" /\ handle # "down" /\ next \in Records
Fits == size + 2 <= MaxBytes
Fault == faults < MaxFaults /\ faults' = faults + 1

\* The bound refuses the record, or the handle was lost.
AppendRefused ==
  /\ MayAppend
  /\ ~Fits \/ handle = "closed"
  /\ next' = next + 1
  /\ UNCHANGED <<fileVars, drainVars, acked, glued, sent, faults>>

\* Mutant: the size bound is not looked at.
AppendUnbounded ==
  /\ MayAppend /\ handle = "open"
  /\ file' = Written(Piece(next, TRUE)) /\ cut' = FALSE
  /\ size' = size + 2
  /\ next' = next + 1
  /\ acked' = acked \cup {next}
  /\ glued' = IF cut THEN glued \cup {next} ELSE glued
  /\ UNCHANGED <<handle, drainVars, sent, faults>>

AppendSucceeds ==
  /\ MayAppend /\ Fits /\ handle = "open"
  /\ file' = Written(Piece(next, TRUE)) /\ cut' = FALSE
  /\ size' = size + 2
  /\ next' = next + 1
  /\ acked' = acked \cup {next}
  /\ glued' = IF cut THEN glued \cup {next} ELSE glued
  /\ UNCHANGED <<handle, drainVars, sent, faults>>

\* Nothing, a part, all but the newline, or all of the line is written; the
\* last when Sync fails.
AppendFails ==
  /\ MayAppend /\ Fits /\ handle = "open"
  /\ Fault
  /\ \/ UNCHANGED <<file, cut, size>>
     \/ /\ \E whole \in BOOLEAN : file' = Written(Piece(next, whole))
        /\ cut' = TRUE
        /\ size' = size + 1
     \/ /\ file' = Written(Piece(next, TRUE)) /\ cut' = FALSE
        /\ size' = size + 2
  /\ next' = next + 1
  /\ UNCHANGED <<handle, drainVars, acked, glued, sent>>

----------------------------------------------------------------------------
(***************************************************************************)
(* DrainBatch.                                                             *)
(***************************************************************************)
\* Mutant: a line that does not parse ends the drain with an error.
DrainWedged ==
  /\ drain = "idle" /\ handle # "down"
  /\ size # 0
  /\ \A i \in DOMAIN file : Readable(file[i])
  /\ drain' = "handing"
  /\ read' = Parsed(file)
  /\ committed' = 0
  /\ UNCHANGED <<fileVars, logVars, faults>>

\* Lines that do not parse are skipped.
DrainStart ==
  /\ drain = "idle" /\ handle # "down"
  /\ size # 0
  /\ drain' = "handing"
  /\ read' = Parsed(file)
  /\ committed' = 0
  /\ UNCHANGED <<fileVars, logVars, faults>>

NextBatch == SubSeq(read, committed + 1, Min({committed + BatchSize, Len(read)}))

Accept(batch) == sent' = [r \in Records |-> IF Contains(batch, r) THEN sent[r] + 1 ELSE sent[r]]

Hand ==
  /\ drain = "handing" /\ committed < Len(read)
  /\ Accept(NextBatch)
  /\ committed' = committed + Len(NextBatch)
  /\ UNCHANGED <<fileVars, drain, read, next, acked, glued, faults>>

\* The function returns an error; its receiver may have the batch.
HandFails ==
  /\ drain = "handing" /\ committed < Len(read)
  /\ Fault
  /\ Accept(NextBatch) \/ UNCHANGED sent
  /\ drain' = "rewriting"
  /\ UNCHANGED <<fileVars, read, committed, next, acked, glued>>

HandedOn ==
  /\ drain = "handing" /\ committed = Len(read)
  /\ drain' = "rewriting"
  /\ UNCHANGED <<fileVars, read, committed, logVars, faults>>

Rest == SubSeq(read, committed + 1, Len(read))
DrainEnds == drain' = "idle" /\ read' = <<>> /\ committed' = 0

\* Mutant: records the function has not accepted are given up.
RewriteEmpty ==
  /\ drain = "rewriting"
  /\ file' = <<>> /\ cut' = FALSE
  /\ size' = 0 /\ handle' = "open"
  /\ DrainEnds
  /\ UNCHANGED <<logVars, faults>>

\* Mutant: the first batch stays in the file.
RewriteAll ==
  /\ drain = "rewriting"
  /\ file' = Lines(read) /\ cut' = FALSE
  /\ size' = 2 * Len(read) /\ handle' = "open"
  /\ DrainEnds
  /\ UNCHANGED <<logVars, faults>>

\* Mutant: what remains is written newest first.
RewriteReversed ==
  /\ drain = "rewriting"
  /\ file' = Lines(Reverse(Rest)) /\ cut' = FALSE
  /\ size' = 2 * Len(Rest) /\ handle' = "open"
  /\ DrainEnds
  /\ UNCHANGED <<logVars, faults>>

\* rewriteLocked: a new file takes the old one's place.
Rewrite ==
  /\ drain = "rewriting"
  /\ file' = Lines(Rest) /\ cut' = FALSE
  /\ size' = 2 * Len(Rest) /\ handle' = "open"
  /\ DrainEnds
  /\ UNCHANGED <<logVars, faults>>

\* Anything up to the rename fails: the old file stays.
RewriteFails ==
  /\ drain = "rewriting"
  /\ Fault
  /\ DrainEnds
  /\ UNCHANGED <<fileVars, logVars>>

\* Mutant: the size is set before the file is reopened.
ReopenFailsSized ==
  /\ drain = "rewriting"
  /\ Fault
  /\ file' = Lines(Rest) /\ cut' = FALSE
  /\ size' = 2 * Len(Rest) /\ handle' = "closed"
  /\ DrainEnds
  /\ UNCHANGED logVars

\* The new file is there but cannot be opened: f is closed and size is old.
ReopenFails ==
  /\ drain = "rewriting"
  /\ Fault
  /\ file' = Lines(Rest) /\ cut' = FALSE
  /\ handle' = "closed"
  /\ DrainEnds
  /\ UNCHANGED <<size, logVars>>

\* The file cannot be opened for reading.
DrainFails ==
  /\ drain = "idle" /\ handle # "down"
  /\ size # 0
  /\ Fault
  /\ UNCHANGED <<fileVars, drainVars, logVars>>

----------------------------------------------------------------------------
\* The process dies, in a drain or outside; a write it cuts short is an
\* AppendFails before it.  A Close is a crash that loses nothing more.
Crash ==
  /\ handle # "down"
  /\ Fault
  /\ handle' = "down"
  /\ DrainEnds
  /\ UNCHANGED <<file, cut, size, logVars>>

Open ==
  /\ handle = "down"
  /\ handle' = "open"
  /\ size' = FileSize
  /\ UNCHANGED <<file, cut, drainVars, logVars, faults>>

DrainStep == DrainStart \/ Hand \/ HandedOn \/ Rewrite

Next ==
  \/ AppendRefused \/ AppendSucceeds \/ AppendFails
  \/ DrainStep \/ HandFails \/ RewriteFails \/ ReopenFails \/ DrainFails
  \/ Crash \/ Open

Spec == Init /\ [][Next]_vars

\* The owner drains the spool again and again (every 5 seconds in both uses)
\* and a process that died is started again.  Nobody has to append.
FairSpec == Spec /\ WF_vars(DrainStep) /\ WF_vars(Open)

----------------------------------------------------------------------------
\* A record whose Append returned nil can be read back until it was handed on
\* ("Append durably queues one record"), across failed rewrites and crashes;
\* except behind a line that was cut: there it is one line with the torn one
\* and every later drain skips it.
AckedIsKept ==
  \A r \in acked \ glued : Contains(Parsed(file), r) \/ sent[r] > 0

\* Records are handed on in the order of their appends ("Drain replays every
\* spooled record through fn in order"): none before an earlier one that can
\* still be read.
HandedInOrder ==
  \A q, r \in Records :
    q < r /\ sent[r] > 0 /\ q \in acked \ glued => sent[q] > 0

\* A record is handed on again only after a failure or a crash ("truncates
\* exactly the records from batches fn confirmed").
RepeatsAreFaults == \A r \in Records : sent[r] <= 1 + faults

\* Every readable record is handed on at last ("replayed and truncated once
\* connectivity returns").
EventuallyHanded ==
  \A r \in Records : r \in acked \ glued ~> sent[r] > 0

\* A spool that has lost its file handle gets one at a later drain, because
\* the stale size still says there is something to drain.
HandleHeals == handle = "closed" ~> handle = "open"
=============================================================================
