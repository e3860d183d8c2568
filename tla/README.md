# A TLA+ model of icminers-stratum-v1

This directory holds a verification project for the Go mining pool in `src/`:
TLA+ modules translated from the code, TLC configurations that check them on
small instances, and proofs checked by TLAPS.

## 1. The system

Three daemons share one PostgreSQL database, and optionally a NATS JetStream:

| part | code | state it keeps | operations |
| --- | --- | --- | --- |
| payout service (`payoutd`) | `internal/payouts`, `storage/postgres/payouts.go`, `cmd/payoutd` | per pool: pass in progress, batch id; tables `balances`, `balance_changes`, `payments` | `Pass`: `StuckBatches`, `BeginPayout`, `SendMany`, `MarkPaymentsSent` or `RefundBatch` |
| reward engine (`rewardd`) | `internal/rewards`, `storage/postgres/rewards.go`, `cmd/rewardd` | tables `blocks`, `shares` (read), `balances` | `confirmPass`, `rewardPass`, `CreditBlockRewards`, PPLNS/PROP/SOLO |
| share writer and WAL | `storage/postgres/sharewriter.go`, `sharewal.go` | queue, batch, retained shares, WAL file, counters | `Enqueue`, flush, retain, WAL drain, `Close` |
| disk spool | `internal/spool` | a file of JSON lines, its handle and size | `Append`, `Drain`, `DrainBatch`, rewrite, `Close` |
| pool lifecycle | `internal/pool` | per pool: state, loop context, drain timer, message | start/stop/pause/resume/drain/maintenance/disable/restart, supervised loop |
| job manager | `internal/jobs` | current job, last 8 jobs, duplicate sets | `Poll`, `CurrentNotify`, `SubmitShare`, `submitBlockAsync` |
| stratum server, sessions | `internal/stratum` | sessions, difficulties, extranonce counter, connection counts | subscribe, authorize, configure, submit, broadcast, vardiff |
| NATS messaging | `internal/messaging/nats` | stream, durable consumer, spool | publish, spool flush, consume, remote commands |
| bans, statistics | `internal/bans`, `internal/stats` | counters, bans; minute rings | record, ban, expire; record, sum |
| coin adapters | `internal/coins` | none (RPC client: request counter) | templates, share validation, block assembly, addresses |
| API, config, logging, metrics | `internal/api`, ... | none of their own | routes, admin actions |

How they interact. `stratumd` polls the coin daemon (job manager, inside the
supervised loop of the pool lifecycle), broadcasts jobs to sessions, validates
submitted shares and hands accepted ones to recorders: statistics, the share
writer, or, on a regional node, the NATS publisher whose events a master
consumes into its own share writer. `rewardd` classifies found blocks against
the chain and credits balances; `payoutd` turns balances into wallet
transactions. Between the daemons everything goes through the database, one SQL
transaction at a time; inside a daemon the goroutines share memory under
mutexes and channels.

What is hard in it, and what makes each part correct:

* **Payouts.** A pass is four database calls and one wallet call; a crash, a
  signal, a lost reply or a second process may come between any two. Correct
  means: money is conserved, no credit is paid twice, no batch is refunded that
  the wallet pays, and no batch stays open unnoticed.
* **Share writer.** Three kinds of goroutines, a bounded queue, a bounded
  retention, a bounded WAL, and inserts that fail, or commit and then fail.
  Correct means: an accepted share is in exactly one place and counted once,
  counters tell the truth, a share ends in the table, shutdown loses nothing.
* **Spool.** Torn writes, crash between insert and rewrite, lost handle.
* **Lifecycle.** Operator commands race the loop, the drain timer and one
  another; the last order of the operator should win and one loop should run.
* **Rewards.** Reorganisations, concurrent processors, exact sums of satoshis.
* **Jobs and sessions.** Eviction against duplicate detection, broadcast against
  authorize, vardiff against authorize, per-IP counting.
* **Messaging.** At-least-once delivery, acknowledgement before persistence,
  commands lost while a node is away.

`PROJECT.json` lists every component with its status and every hazard with its
line in the code and the properties that cover it.

## 2. The modules

| module | what it is |
| --- | --- |
| `PaymentLedger` | what the payout service promises: a credit is owed, held, paid by one transaction, settled; released only while unpaid |
| `Payouts` | the payout service, its database and the wallet |
| `MCPayouts`, `MCPayoutsLive` | small instances of `Payouts`: for `payouts_reply_loss`, and for `payouts` |
| `PayoutsProofs` | theorems about `Payouts`, for every value of its constants |
| `ShareWriter` | the share writer, its WAL and the shares table |
| `MCShareWriter` | a small instance of `ShareWriter` |
| `ShareWriterProofs` | theorems about `ShareWriter` |
| `Spool`, `MCSpool` | the disk spool, and the module TLC runs |
| `SpoolProofs` | theorems about `Spool`, and lemmas about the scan of a file |
| `Lifecycle`, `MCLifecycle` | one pool's state machine, commands, loop and drain timer; an instance with one operator |
| `LifecycleProofs` | theorems about `Lifecycle` |
| `RewardShares` | fee, distribution and credits of a block reward, as operators |
| `Rewards`, `MCRewards` | the reward engine over a chain that reorganises, which uses `RewardShares`; an instance |
| `RewardsProofs` | theorems about `Rewards` and `RewardShares`, and lemmas about sums |
| `Messaging`, `MCMessaging` | an event from the recorder of a regional node to the master's tables: publisher, spool, stream, consumer and share writer composed; an instance |
| `MessagingProofs` | theorems about `Messaging` |
| `Stratum`, `MCStratum` | one pool's jobs, sessions and difficulties: poller, request goroutines and vardiff interleaved; an instance |
| `StratumProofs` | theorems about `Stratum` |
| `Connections`, `MCConnections` | the connections of a stratum port: accept loop, registry, bans, notifiers, shutdown; an instance |
| `ConnectionsProofs` | theorems about `Connections` |

Operators named in a comment `Mutant:` are not part of any specification. Each
is a wrong version of the definition that follows it, kept to show that the
properties notice: with the wrong version in place TLC finds the property named
in `PROJECT.json` violated.

### Payouts

State: `credited` and `balances` stand for `balance_changes` and `balances`,
`status` and `rows` for the `payments` table, `wallet` and `txs` for what the
daemon was asked and what it has broadcast, `pc`, `batch` and `stopping` for a
process. A *credit* is one unit of block reward with a name, so a balance is the
bag of the credits it was built from and the SQL's additions and subtractions
are those of bags. That makes "the same money twice" visible, which a sum would
hide. `aged` and `surfaced` are the batches older than the grace period of
`StuckBatches` and those it has reported.

Actions follow `Processor.Pass`: `ScanStuck`, `BeginPayout` or `BeginNothing`,
`SendMany`, `SendReturns` or `SendAborted`, `MarkPaymentsSent` or `RefundBatch`,
with `DatabaseError` for each call that fails. A database transaction is one
step which commits, fails without effect, or commits with its reply lost. A
failing `StuckBatches` only starts the pass over and is a stuttering step.
`Signal` cancels the context: the calls that follow fail, the one in progress
may have had its effect. `Crash` may come anywhere. `WalletAccepts` and
`WalletRefuses` are the daemon, `Reconcile` the operator who follows the log
line of a stuck batch.

Two facts are assumptions of the model, stated where they are used: batch ids
(nanosecond timestamps) are unique, and no wallet call outlives the five minutes
of grace, because the RPC client gives up after 15 seconds.

`ReplyLoss` is the question the code leaves open: `Pass` refunds after *every*
error of `SendMany`. With `ReplyLoss = FALSE` an error means a refusal, or a
cancelled context with which the refund fails too. With `ReplyLoss = TRUE` the
15 second timeout, a reset connection, an undecodable body or an empty txid may
hide an accepted transaction, and the refund then pays twice (section 4).

### ShareWriter

State: the buffers a share goes through (`diverting`, `ch`, `batch`, `pending`,
`flushing`, `overflow`), the `wal`, the table `db`, the counters as sets of the
shares they counted, and where the flusher (`loop`), the drain (`drain`) and the
process (`phase`) are. No property depends on the order of shares, so buffers
are sets. An insert is two steps, its start and its outcome, and the other
goroutines run in between; its outcome is success, failure, or commit and error.
The unique index on `(id, created)` makes a plain COPY of a known share fail as a
whole. The WAL's mutex is held for a whole drain. `recoveryLoop` may begin one
more drain after its context is cancelled; every call of that drain fails, so it
is left out.

`Crash` kills the process anywhere, `Close` follows stratumd's order of shutdown
(callers gone first), `Restart` opens the WAL the last process has left.

### Spool

State: the file's lines, each the sequence of pieces written since the last
newline, so that a torn write, and a record glued behind it, are states of their
own (`cut`, `glued`); `size` and `handle` of the struct; the drain in progress
with what it has read and handed on. `Append` is one step per outcome: refused
(closed, full), written, cut short. A drain is `DrainStart` (scan), `Hand` or
`HandFails` per batch, and `Rewrite`, `RewriteFails` or `ReopenFails`, because
the process may die (`Crash`) between any two; the mutex keeps appends out
meanwhile. `Drain` is a `DrainBatch` with batches of one. `acked` and `sent`
record what the callers were told and what they were given. `Parsed` is the loop
over the scanner, `Units` what `Stat` reports; both are recursive functions over
the lines.

A record that is glued behind a torn one is acknowledged and never drained, as
the code warns: `AckedIsKept` and `EventuallyHanded` except exactly those.

### Lifecycle

State: `state`, `loopCtx`, `loopWG` and the drain timer of `Service`; for each
context made, whether it is cancelled and where the loop started with it is
(`loop`, `arg`); what each caller is doing (`ops`). A command is split where it
gives up `Service.mu` or waits for the loop: `StopLoop`, `WaitForLoop`,
`StartCreates`, `Activate`, `Arm`. The timer's callback has its own three steps,
because it reads the state and then sets another. The loop follows
`runSupervised` and `runOnce`: a tick, a poll in which everything else may
happen, the error state, the backoff, the retry. `Shutdown` cancels the parent
context and stops the pool. Pools share nothing but that context, so one pool is
enough.

### Rewards

State: `chain`, `stored`, and the tables `status`, `rewarded`, `paid`, `fees`
with one row or sum per block and miner; `proc` is the pass each processor is
in. Each SQL statement and each RPC of `Processor.Pass` is a step:
`UnconfirmedBlocks`, `TipHeight`, `BlockHashAt`, `UpdateBlockConfirmation`,
`ConfirmedUnrewarded`, `WorkBetween` (PROP) or one `WorkBackward` per page
(PPLNS), and the transaction `CreditBlockRewards`. The chain may reorganise and
shares may arrive between any two. A page of `WorkBackward` is any set of rows
that `ORDER BY created DESC LIMIT n` may return, so shares of equal times come
in any order. `RewardShares` computes in whole satoshis what the code computes in
float64 and truncates: the same up to a satoshi, which the remainder loop gives
out.

The chain is assumed to reorganise less deeply than `MaturityDepth` and not more
than `OrphanDepth`: that is what the two settings are for. The fee is a whole
percentage; a negative one is 0 to the code, one above 100 is 100 to both.

### Messaging

State: `node` and `master` are the two processes, along the order of their
shutdowns; `pub` is the asynchronous publish of each event, `spool` and `drain`
the file and its loop, `stream` the number of unacknowledged messages per event,
`hand` the message the consumer's one handler has, `memory` and `table` what the
share writer holds and what is stored. The spool is a set here and the writer a
memory that a crash empties, because `Spool` and `ShareWriter` have their
insides.

A publish ends in `AckArrives`, in `StreamRefuses`, or, on a reconnection, in the
spool: the NATS client flushes its buffer, of which any part is stored, and
reports everything unacknowledged as failed. `DrainPublish`, `DrainFails` and
`DrainEnd` are the drain, whose publish may time out with the message stored.
The consumer acknowledges when the sink returns (`SinkShare`, `SinkBlock`, `Ack`),
so a share is acknowledged in the writer's memory, and a block whether or not its
insert worked. Both processes stop in the order of `main`, crash anywhere and
start again. Two ghosts, `writtenOff` and `repeated`, record where the code gives
an event up and where a failure may double it.

The code gives events up in more places than its comments admit, and each is an
action or a branch of one: `SpoolAppendFails` and a spool that is full or closed,
`DrainSkips` (a torn line), `RewriteFails`, `Expire` (the stream's `MaxAge` of 72
hours), `SinkBlockFails`, `SinkShareDrops` (queue full, no WAL to take the share),
`WriterDrops` (retention full, likewise), `FinalFlushFails`, and whatever a process
dies with. `MasterExits` keeps what is in the WAL; `MasterCrashes` loses any part of
the writer's memory, because some of it may be in the WAL by then.

Left out: state-change events, which the master only logs, and remote lifecycle
commands, which end in the manager that `Lifecycle` models.

### Stratum

State: `counter`, `byID`, `dup` are the job manager's, `accepted` what it has recorded,
`invalid` the shares whose validation ended in an error, `submitting`, `blocks` and
`refused` the blocks that a `submitblock` is under way for, that the daemon has taken,
and whose `submitblock` returned an error; `targets` are the sessions a running
broadcast has still to write to; `en1`, `auth`, `diff`, `prev`,
`grace` the session's; `told` and `work` what was last written to the miner;
`hand` the request a connection's goroutine is at, `retarget` what the vardiff
loop is at. A share is its job, extranonce and the difficulty its hash meets, so
that two submissions with the same three are the same header.

A request is split where the code gives up a lock or writes: `authorize` sets the
difficulty, tells it, reads the job and writes it, in that order; `submit` looks
the job up, tests for a duplicate, validates, and accepts. A candidate goes to the
daemon in a goroutine of its own (`SubmitBlock`), whatever the session's difficulty.
The two errors behind the duplicate test are branches: `ValidationFails` leaves the
share in the duplicate set and records nothing; a `submitblock` that fails is only
logged, whether or not the daemon has taken the block. The poller (`Poll`) and
its broadcast, and the vardiff loop, come between any two of these. Eviction
(`maxRememberedJobs`) forgets a job with its duplicate set.

Assumed: the retarget interval is longer than the grace window (`grace` is over
before a second retarget), and one poller per pool, as `Lifecycle` shows. `raced`
and `mixed` mark the two cases the code leaves open: a job broadcast in the
middle of an authorize, which the older job may follow, and a difficulty
retargeted in the middle of one.

### Connections

State: `place` of each connection, the accept loop (`acceptor`), the session
registry (`sessions`, `perIP`, `maxConnPerIP`), the ban registry (`banned`,
`stats`), whom each notifier has still to write to, and the stages of `main`'s
shutdown. Requests are read lines of three kinds (request, share, malformed);
what they do is in `Stratum`. `Manager.Add` and `Remove`, `RecordShare`,
`RecordMalformed` and `Ban` take their lock once each and are a step each, so
other connections of the address come between a count and its ban. A write waits
while the miner does not read (`hung`): it has no deadline. A notifier comes to the
sessions of its copy one after the other, in any order (that of a Go map), and waits
at one that hangs (`writing`).

## 3. What the runs check

| run | instance | shows |
| --- | --- | --- |
| `payouts` | 3 credits (two below the minimum alone, one unpayable), 2 processes, 4 batches, 2 faults | `TypeOK`, `CreditsConserved`, `RefundedIsUnpaid`, the refinement `LedgerSpec`, `NothingSilentlyHeld`, `PayableIsPaid` |
| `payouts_reply_loss` | 2 credits of 2 miners, `ReplyLoss` | violation: a refunded batch is paid |
| `sharewriter` | 3 shares, queue 1, batch 2, retention 1, WAL 2, drain batch 1, 2 faults, 1 shutdown | `TypeOK`, `CountedOnce`, `CountersTellTruth`, `EventuallyStored` |
| `sharewriter_shutdown` | the same without crashes | violation: shutdown loses shares |
| `spool` | 4 records, 6 units of size, batches of 2, 3 faults | `TypeOK`, `AckedIsKept`, `HandedInOrder`, `RepeatsAreFaults`, `EventuallyHanded`, `HandleHeals` |
| `lifecycle` | one operator, 3 commands, initial states active, maintenance, paused, disabled | `TypeOK`, `LoopsObeyCommands`, `ParkedPoolsRest`, `DrainEnds`, `ErrorRecovers`, `CommandsReturn` |
| `lifecycle_resume` | a pool active at first | violation: an active pool without a loop |
| `rewards` | 2 blocks, 3 shares of which 2 have one time, one share late, pages of 1, all schemes, 2 processors, chain of 3 with reorganisations of 1, 1 fault | `TypeOK`, `BookedOnce`, `VerdictsHold`, `WindowHasNoHoles`, `MatureIsRewarded`, `StaleIsOrphaned` |
| `rewards_ties` | the same, PPLNS, 1 processor, no fault | violation: a walk drops shares of equal times |
| `messaging` | 1 share, 1 block, room for 1 record in the spool, 3 faults | `TypeOK`, `OutagesLoseNothing`, `RepeatsAreFaults`, `EventuallyPersisted` |
| `stratum` | 1 miner, 3 jobs of which 2 are remembered, 2 subscriptions, 2 shares, 2 retargets, difficulties 1 and 3, hashes of 1 and 2, network 2 | `TypeOK`, `RememberedAcceptedOnce`, `BlocksAreSubmitted`, `MinersHaveCurrentJob`, `ToldDifficultyCounts` |
| `connections` | 2 connections of one address, caps of 1 and 2, vardiff as notifier, 4 inputs, 1 fault | `TypeOK`, `RegistryIsTrue`, `ShutdownEnds` |

Bounds. Two faults are enough for the worst known sequences: a refusal whose
refund is lost, a crash after a lost commit reply, a retained share that is
already in the table at shutdown. Four batches let each of two payable credits be
refunded and paid again; no reachable state of the runs is cut off by the bound
(TLC checks for deadlock). In `ShareWriter` every buffer is small enough to
overflow with three shares. There deadlock is not checked: after the last share
and the last shutdown the writer rightly waits for ever. In `Spool` four records
fill a file of six units (three records), so the bound, a torn write, the record
glued to it and a whole one behind them meet; three faults allow a torn write, a
failed rewrite and a crash in one behaviour. In `Lifecycle` three commands make
every sequence such as drain, pause, resume; four give no new violation. The
configuration also accepts `draining` and `error` as initial states; such a pool stays
there until a command, since nothing arms the timer or ends a backoff, and
`LifecycleAssumption` leaves them out. In
`Rewards` a chain of three is long enough for a block to be orphaned, or to mature,
around a reorganisation of one, with depths of 1 and 2 at their tightest. These
three stop by their bounds, so that deadlock is not checked.

In `Messaging` one share and one block already compete for the one record the
spool has room for, so that a full spool, a drain, a redelivery and a crash meet
within three faults; events touch one another nowhere else. In `Stratum` one
miner is enough for the interleavings of its own goroutine with the poller and
the vardiff loop, because sessions share only the job manager; three jobs with
two remembered make an eviction, two subscriptions two extranonces on one
connection, and a hash of 2 is a block that a difficulty of 3 refuses as a share.
Two miners make the run too large for regular use; the theorems
of `StratumProofs` cover any number. In `Connections` two connections of one
address reach and pass the cap, and four inputs reach each threshold (2 malformed
lines per connection, 3 per address, 2 shares, half of them invalid). All three
stop by their bounds, so that deadlock is not checked.

The `lifecycle` run has a single operator because two are more than the code
promises to serve: two overlapping `RestartPool` calls start two loops, one of
which nobody can stop (`LoopsObeyCommands` and `CommandsReturn` fail with two
operators). That is listed as a hazard. `ParkedPoolsRest` is proved for any
number of operators.

Fairness. `Payouts`: every process goes on with its pass (`Run` ticks, RPC and
database calls return), the daemon executes what it was asked unless it refuses,
time passes, and a process that was told to stop is started again by whoever
stopped it (systemd restarts a crashed one). Nobody is forced to earn, to fail
or to reconcile. `ShareWriter`: both goroutines go on, callers get a mutex that
is free for good, and a cancelled context is chosen by `select` even when a tick
is ready as often (strong fairness: Go's `select` chooses at random). Faults
are bounded, that is, outages end. `Spool`: its user drains again and again, and
a killed process is started again. `Lifecycle`: calls, the timer and the loop go
on, and a loop whose context is cancelled notices it in spite of ready ticks
(strong fairness, `select` again); `ErrorRecovers` applies to pools whose loop is
to run. `Rewards`: `Run` makes pass after pass. Nothing forces blocks or shares
to come; the two liveness properties say what holds from some point on, once
chain and tables have stopped changing, which the bounds make happen.
`Messaging`: goroutines go on, connections come back, supervisors restart; strong
fairness for `ClientCloses` (a drain loop that has its context cancelled and a
tick ready chooses at random) and `Deliver` (JetStream redelivers until the
consumer is there). `Connections`: each connection's goroutine goes on (a read
ends at its deadline at the latest), notifiers write when the miner reads, and
the vardiff loop notices the end of its context in spite of ready ticks (strong
fairness). Nothing forces a miner to read: `ShutdownEnds` says so in its premise.
`Stratum` has safety properties only and no fairness.

## 4. Disagreements between code and comments

* `payouts_reply_loss`: `payouts.go:134` promises that batches "with no send
  outcome are NEVER auto-refunded (the tx may have broadcast)"; `payouts.go:176`
  refunds after every error of `SendMany`. The run: the request reaches the
  wallet, the reply is lost, the batch is refunded, the wallet broadcasts.
* `sharewriter_shutdown`: `sharewal.go:36` calls a refusing WAL "the sole
  remaining path to genuine loss"; the final flush at `sharewriter.go:290` drops
  everything in memory when its COPY fails, with room in the WAL.
* `lifecycle_resume`: `lifecycle.go:146` says that `ResumePool` "returns a
  paused/maintenance/error pool to active", and `state.go:12` that an active pool
  sends jobs. `lifecycle.go:152` only sets the state, which is legal from
  disabled too: the pool then is active without a loop that polls templates.
* `rewards_ties`: `rewards.go:45` (in `internal/rewards`) says that `WorkBackward`
  counts "until targetDiff is collected (or shares run out)". The next page is
  asked for with `created <` the time of the last share read
  (`storage/postgres/rewards.go:122`); shares of that same time that did not fit
  in the page are left out, and the walk may end short of its target.

Further differences show in the modules, without a run of their own:

* `sharewriter.go:166` says `Enqueue` never blocks; on a full queue it waits for
  the WAL's mutex, which a drain holds across inserts.
* Between the lookup of a job (`submit.go:43`) and the duplicate test the job may be
  evicted (`manager.go:108`) with its duplicate set, and a share of it be accepted a
  second time. `RememberedAcceptedOnce` therefore speaks of remembered jobs.
* `server.go:147` says that the accept loop serves "until ctx is cancelled"; it ends
  at any error that is not a timeout (`AcceptFails`).
* An oversized line counts as up to `maxMalformedPerConn` malformed ones, because
  the scanner stays at it (`ReadsMalformed`).
* Writes to miners have no deadline: one that does not read holds up the broadcast
  of its pool, the vardiff loop of all pools, and the shutdown, until it is
  closed. `ShutdownEnds` excludes it by its premise.
* `client.go:5` says that the spool keeps regional nodes lossless. Publishes in flight
  at a stop are gone, a spool can be full or refuse, the stream forgets after 72
  hours (`client.go:223`), a block whose insert fails on the master is logged and
  acknowledged (`cmd/stratumd/main.go:90`), a share may be dropped by the master's
  writer (`sharewriter.go:192`, `290`): all are in `writtenOff`.
* A share whose validation ends in an error stays in the duplicate set
  (`submit.go:65-71`), so a block among them is refused when it is sent again; a failed
  `submitblock` is not retried (`submit.go:99`). `BlocksAreSubmitted` excepts both.
* `service.go:251` says of the drain timer "Only auto-advance if we are still draining
  (operator may have acted)". The callback reads the state and sets it under two
  locks; a resume or pause between the two is overwritten with maintenance. The retry
  of a failed pool (`service.go:184`) and a poll in progress (`service.go:176`) may
  overrule a pause likewise. `ParkedPoolsRest` excepts the three by its premise `Quiet`:
  it says that nothing else moves a parked pool, not that these windows are closed.
* `state.go:14` says that a draining pool "sends no new jobs". It goes on polling
  (`service.go:218`; `RunsTemplatePolling` in the module), and `Poll` broadcasts every
  job it builds; `SendsNewJobs`, which is false of a draining pool, has no caller.
* `manager.go:140` (in `internal/jobs`) says that "a newly-(re)connected miner always
  starts fresh work". `handler.go:151` reads the current job and writes it without a
  lock; a job broadcast in between reaches the miner first, and the older one replaces
  it. `MinersHaveCurrentJob` excepts exactly this (`raced`), and `ToldDifficultyCounts` an
  authorize that a retarget fell into (`mixed`).
* With an extranonce width of 4 the node prefix is shifted out (`extranonce.go:30`).

## 5. What is proved

`PayoutsProofs`, for any sets of credits, miners and processes and any bounds:

* `TypeCorrect`: `Spec => []TypeOK`.
* `ConservationCorrect`: `Spec => []CreditsConserved`. With `TypeOK` the property
  is inductive. The argument goes per credit: a transaction moves it between
  its balance and the rows of one batch, and the `status = 'sending'` filters of
  the SQL make a repeated mark or refund a no-op.
* `RefundCorrect`: if `~ReplyLoss`, `Spec => []RefundedIsUnpaid`. It needs the
  invariant `CallInv`: whether a refund is safe depends on what the wallet has
  been asked, on which process still holds the batch and at which point, and on
  no wallet call being in progress for a batch old enough to be reported.
* `RefinementCorrect`: if `~ReplyLoss`, `Spec => LedgerSpec`. Under
  `IInv == TypeOK /\ CreditsConserved /\ CallInv` every step moves one set of
  credits between places of `PaymentLedger`, or stutters.

The assumption is `PayoutsAssumption`, which every run evaluates.

`SpoolProofs`, from `SpoolAssumption` (bounds are numbers, the batch size is not 0),
for any number of records and faults, any size bound and batch size:

* Lemmas: what `Parsed` and `Units` return for a file with one more line, for a
  rewritten file (`ParsedOfLines`), and for a file with a write behind a finished
  line (`WrittenNew`) or behind a cut one (`WrittenBehind`).
* `TypeCorrect`, `AckedCorrect`, `OrderCorrect`, `RepeatsCorrect`: `Spec => []TypeOK`,
  `[]AckedIsKept`, `[]HandedInOrder`, `[]RepeatsAreFaults`. None is inductive. `IInv` adds
  that the records found in the file ascend and were all appended (`OrderInv`),
  that a drain has read what is still in the file, has handed on what is before its
  place, and that what is behind it was handed on no more often than calls
  failed (`DrainInv`), and that nobody was promised the record of a cut line
  (`FileInv`). The size stays in its bound although a rewrite gives a whole record
  that had lost its newline a new one: `FileInv` counts that newline from the start.

`LifecycleProofs`, from `LifecycleAssumption`:

* `TypeCorrect`: `Spec => []TypeOK`, for any number of operators. `TypeInv` says that
  `loopWG` is the number of loops that are alive, so no `Done` takes it below zero,
  where Go panics, however many overlapping commands start loops.
* `ParkedCorrect`: `Spec => ParkedPoolsRest`, for any number of operators. The
  invariant `Shape` types the loops and calls; from a quiet moment on, the step
  lemma shows, only a command moves a parked pool.
* `LoopsCorrect`: with one operator, `Spec => []LoopsObeyCommands`. The property
  is not inductive: which loop may run depends on where the operator's call is.
  The invariant adds that at most one loop is alive (`OneLoop`), that `loopWG`
  counts it (`Counted`), and, per place of the call, what is already cancelled.

`RewardsProofs`, from `RewardsAssumption`, for any chain, blocks, processors and
finite sets of miners and shares:

* `VerdictsCorrect`: `Spec => []VerdictsHold`. The invariant `VerdictInv` replaces "on the
  chain" by "deeper in the chain than any reorganisation" (`Mature`, `Gone`), which
  `ChainStep` shows to be stable, and carries it through what each processor holds:
  a tip the chain has reached, a verdict that is still true, a list of mature
  blocks. That is why an old verdict written by a slow processor does no harm.
* `CreditsExact`: for any works, amount and payment mode, the credits sum to the
  amount. The floors miss less than one satoshi per contributor (`FloorsShort`), and
  as many miners as there are satoshis left have a rank below that number.
* `BookedOnceCorrect`: `Spec => []BookedOnce`. `BookInv` says that a processor
  about to credit carries a number per miner, whatever shares arrived while it
  counted, so that `CreditsExact` applies, and what each block's books say.
* `WindowCorrect`: `Spec => []WindowHasNoHoles`. `WalkInv` keeps, page by page, that
  what is due down to the last cursor is counted and nothing beyond it is.
* `TypeCorrect`: `Spec => []TypeOK`, from the three and the bounds.

Sums in the model are folds over sets. The library's induction theorems cannot be
instantiated by the provers, so the lemmas about sums (`SumRemove`, `SumUnion`,
`SumPlus`, `SumTimes`, `SumLess`) go by a smallest counterexample: the set of subsets
for which the statement fails is empty, or has a smallest member
(`SmallestSubset`, from the well-foundedness of the strict subset order).
`SpoolProofs` does the same for numbers and sequences (`OverNumbers`,
`OverSequences`): there the statement is a set that contains 0, or the empty
sequence, and is closed under the step.

`ShareWriterProofs`, from `ShareWriterAssumption`, for any shares, sizes and faults:

* `TypeCorrect`, `CountedOnceCorrect`, `CountersCorrect`: `Spec => []TypeOK`,
  `[]CountedOnce`, `[]CountersTellTruth`. `CountedOnce` counts the shares per place,
  which is not inductive as it stands: the invariant `AllOnce` says for each share
  that its places exclude one another, and `Flushed` where the flusher and the last
  drain leave the buffers empty.

`StratumProofs`, from `StratumAssumption`, for any miners, jobs and difficulties:
all five invariants of the run.

* `AcceptedOnceCorrect` needs that the remembered jobs are the last ones
  (`LastOnes`), so that a new job was never accepted for, and that an accepted
  share of a remembered job is in its duplicate set (`AcceptedAreDup`).
* `SubmittedCorrect`: `Spec => []BlocksAreSubmitted`. A block in a duplicate set has been
  recorded or its validation erred, and a recorded one is with the daemon, on its
  way, or its `submitblock` erred: the job may be evicted, and the property stays.
* `CurrentJobCorrect`: the invariant `JobsInv` adds what an authorize in the middle
  has read: the current job, or a broadcast is still to come or came since.
* `DifficultyCorrect`: `DiffInv` follows a difficulty through being stored, told and
  used, for the two writers, authorize and the retarget.

`MessagingProofs`, from `MessagingAssumption`, for any events and faults:

* `TypeCorrect`, with `Tokens`: a message being handled is unacknowledged.
* `OutagesCorrect`: `Spec => []OutagesLoseNothing`. The invariant `AllKept` names
  the two handovers: an event that the stream has taken is downstream or still in
  the spool, and a message that may be acknowledged has landed, where landed and
  downstream count what is written off. `LandedStep` and
  `DownstreamStep` show that both are stable.
* `RepeatsCorrect`: `Spec => []RepeatsAreFaults`. The invariant counts the copies of a
  share that may still become a row (`Copies`): steps move a copy, and only those
  that mark the share as `repeated` make another.

`ConnectionsProofs`, from `ConnectionsAssumption`, for any connections, addresses,
notifiers and thresholds:

* `TypeCorrect`: includes how far a counter may pass its threshold before the ban
  forgets it, by one per connection of the address (`ThresholdsHold`: those that
  have counted and wait for the ban).
* `RegistryCorrect`: `Spec => []RegistryIsTrue`, from which connections are between
  `Add` and `Remove` (`SessionsAreTrue`) and the cardinalities per address.

Every safety property that a passing run checks is so proved for every value of
the constants, except where a theorem names a restriction: one operator for
`LoopsObeyCommands`, no `ReplyLoss` for `RefundedIsUnpaid` and `LedgerSpec`, because
the properties fail without it (sections 3 and 4).

Only model-checked: the liveness properties, because TLAPS has no ENABLED:
`NothingSilentlyHeld`, `PayableIsPaid`, `EventuallyStored`, `DrainEnds`, `ErrorRecovers`,
`CommandsReturn`, `EventuallyHanded`, `HandleHeals`, `MatureIsRewarded`,
`StaleIsOrphaned`, `EventuallyPersisted`, `ShutdownEnds`. They rest on the fairness of
section 3.

## 6. Where it could go on

* Two operators in `Lifecycle`: the properties fail today (section 3), and a
  specification of what overlapping commands should mean would have to come first.
* An abstract queue that `Spool` implements, with the proof by the invariant
  that `SpoolProofs` has; and one of the table of shares for `ShareWriter`.
* The order of `Messaging`'s remote commands against the lifecycle manager.
* `Messaging` with `Spool` and `ShareWriter` substituted for its abstract spool and
  memory, as a refinement.

## 7. What is not modelled

* Live statistics (`internal/stats`): counters under one lock, summed over a ring of
  minutes; nothing else in the program reads them back.
* The HTTP API: stateless readers, and admin routes that hand each command to the
  lifecycle manager.
* Queries and migrations: read-only; the constraints the code relies on (unique
  share id, block key, the `sending` filter) are in the modules that use them.
* Configuration, logging, metrics: no state that changes after start.
* Coin adapters: header hashing, proof of work, script, coinbase and address bytes are
  functions over byte strings, out of a model checker's reach. The order of the
  checks of `ValidateShare` and its outcome are in `Stratum`; the outcomes of the RPC
  client are in `Payouts`.
* `mining.configure`, agent strings, texts of errors; the wrap of the 32-bit
  extranonce counter; the cap on tracked addresses of the ban registry;
  `RecordFailedAuth`, which has no caller.
* Go below the level of locks, channels and contexts, and SQL below that of
  statements and transactions.

`PROJECT.json` gives the reason per component.
