------------------------------ MODULE Stratum ------------------------------
(***************************************************************************)
(* The mining side of one pool (internal/jobs, and the handler, sessions   *)
(* and vardiff loop of internal/stratum): a poller that replaces the job   *)
(* and broadcasts it, a goroutine per connection that serves one request   *)
(* at a time, and a loop that retargets difficulties, all writing to the   *)
(* same miners.                                                            *)
(*                                                                         *)
(* A job is its number, a share the job, the extranonce1 and the           *)
(* difficulty its hash meets: two submissions with the same three are the  *)
(* same header.  Whether the pool's state lets a request through is a      *)
(* choice (module Lifecycle has the states); a connection carries one      *)
(* request at a time.                                                      *)
(***************************************************************************)
EXTENDS Naturals, FiniteSets

CONSTANTS
  Sessions,
  Qualities,     \* the difficulties hashes meet
  Diffs,         \* the difficulties sessions may have
  StartDiff,     \* of the port
  NetworkDiff,
  MaxRemembered, \* maxRememberedJobs
  MaxJobs, MaxSubs, MaxSends, MaxRetargets  \* bounds on a behaviour

ASSUME StratumAssumption ==
  /\ Qualities \subseteq Nat /\ Diffs \subseteq Nat \ {0}
  /\ StartDiff \in Diffs /\ NetworkDiff \in Nat
  /\ MaxRemembered \in Nat \ {0}
  /\ MaxJobs \in Nat /\ MaxSubs \in Nat /\ MaxSends \in Nat /\ MaxRetargets \in Nat

VARIABLES
  counter,       \* jobs built so far; the last one is current
  byID,          \* the jobs remembered
  dup,           \* the shares in the per-job duplicate sets
  targets,       \* sessions the running broadcast has still to write to
  accepted,      \* how often each share was accepted
  invalid,       \* shares whose validation ended in an error
  submitting,    \* blocks whose submitblock is under way
  blocks,        \* blocks the daemon has taken
  refused,       \* blocks whose submitblock ended in an error
  alloc,         \* extranonce1 values given out
  en1, auth,     \* extranonce1 (0 until subscribed); is a worker authorized?
  diff, prev,    \* difficulty and previous difficulty (0 for none)
  grace,         \* is the last change within diffGraceWindow?
  told, work,    \* last difficulty and job written to the miner (0 for none)
  hand,          \* the request of each connection
  retarget,      \* what the vardiff loop is doing
  raced, mixed,  \* ghosts: did a notification fall into an authorize?
  sends, retargets

blockVars == <<submitting, blocks, refused>>
jobVars == <<counter, byID, dup, targets, accepted, invalid, blockVars>>
diffVars == <<diff, prev, grace, told, mixed>>
idVars == <<alloc, en1, auth>>
workVars == <<work, raced>>
bounds == <<sends, retargets>>
vars == <<jobVars, diffVars, idVars, workVars, hand, retarget, bounds>>

Shares == [job : 1..MaxJobs, en1 : 1..MaxSubs, q : Qualities]

Idle == [step |-> "idle"]
Requests ==
  {Idle}
  \cup [step : {"diffRead", "diffSet"}, diff : Diffs]
  \cup [step : {"jobRead"}, job : 0..MaxJobs]
  \cup [step : {"sent"}, share : Shares, met : BOOLEAN]
  \cup [step : {"found"}, share : Shares, met : BOOLEAN, diff : Diffs]

NoRetarget == [step |-> "idle"]
Retargets ==
  {NoRetarget} \cup [step : {"computed", "stored"}, session : Sessions, diff : Diffs]

TypeOK ==
  /\ counter \in 0..MaxJobs
  /\ byID \subseteq 1..counter /\ Cardinality(byID) <= MaxRemembered
  /\ dup \subseteq Shares /\ invalid \subseteq Shares
  /\ submitting \subseteq Shares /\ blocks \subseteq Shares /\ refused \subseteq Shares
  /\ targets \subseteq Sessions
  /\ accepted \in [Shares -> Nat]
  /\ alloc \in 0..MaxSubs /\ en1 \in [Sessions -> 0..MaxSubs]
  /\ auth \in [Sessions -> BOOLEAN]
  /\ diff \in [Sessions -> Diffs] /\ prev \in [Sessions -> Diffs \cup {0}]
  /\ told \in [Sessions -> Diffs \cup {0}] /\ grace \in [Sessions -> BOOLEAN]
  /\ work \in [Sessions -> 0..MaxJobs]
  /\ hand \in [Sessions -> Requests] /\ retarget \in Retargets
  /\ raced \in [Sessions -> BOOLEAN] /\ mixed \in [Sessions -> BOOLEAN]
  /\ sends \in 0..MaxSends /\ retargets \in 0..MaxRetargets

Init ==
  /\ counter = 0 /\ byID = {} /\ dup = {} /\ targets = {}
  /\ accepted = [x \in Shares |-> 0] /\ invalid = {}
  /\ submitting = {} /\ blocks = {} /\ refused = {}
  /\ alloc = 0
  /\ en1 = [s \in Sessions |-> 0] /\ auth = [s \in Sessions |-> FALSE]
  /\ diff = [s \in Sessions |-> StartDiff] /\ prev = [s \in Sessions |-> 0]
  /\ grace = [s \in Sessions |-> FALSE]
  /\ told = [s \in Sessions |-> 0] /\ work = [s \in Sessions |-> 0]
  /\ hand = [s \in Sessions |-> Idle] /\ retarget = NoRetarget
  /\ raced = [s \in Sessions |-> FALSE] /\ mixed = [s \in Sessions |-> FALSE]
  /\ sends = 0 /\ retargets = 0

------------------------------------------------------------------------------
(* The poller. *)

\* Mutants: one job more is remembered; all duplicate sets but the new go.
PollRemembersMore ==
  /\ targets = {} /\ counter < MaxJobs
  /\ counter' = counter + 1
  /\ byID' = {j \in byID \cup {counter'} : j + MaxRemembered + 1 > counter'}
  /\ dup' = {x \in dup : x.job \notin byID \ byID'}
  /\ targets' = Sessions
  /\ UNCHANGED <<accepted, invalid, blockVars, diffVars, idVars, workVars, hand, retarget, bounds>>
PollForgetsShares ==
  /\ targets = {} /\ counter < MaxJobs
  /\ counter' = counter + 1
  /\ byID' = {j \in byID \cup {counter'} : j + MaxRemembered > counter'}
  /\ dup' = {x \in dup : x.job = counter'}
  /\ targets' = Sessions
  /\ UNCHANGED <<accepted, invalid, blockVars, diffVars, idVars, workVars, hand, retarget, bounds>>

\* Manager.Poll sees a new template: the job gets the next number, the oldest
\* beyond maxRememberedJobs goes with its duplicate set, and the broadcast
\* begins.  Polls of a pool follow one another.
Poll ==
  /\ targets = {} /\ counter < MaxJobs
  /\ counter' = counter + 1
  /\ byID' = {j \in byID \cup {counter'} : j + MaxRemembered > counter'}
  /\ dup' = {x \in dup : x.job \notin byID \ byID'}
  /\ targets' = Sessions
  /\ UNCHANGED <<accepted, invalid, blockVars, diffVars, idVars, workVars, hand, retarget, bounds>>

\* BroadcastNotify comes to the next session and, if it is subscribed, writes.
Broadcast(s) ==
  /\ s \in targets
  /\ targets' = targets \ {s}
  /\ IF en1[s] > 0
       THEN /\ work' = [work EXCEPT ![s] = counter]
            /\ raced' = [raced EXCEPT ![s] = (hand[s].step = "jobRead")]
       ELSE UNCHANGED workVars
  /\ UNCHANGED <<counter, byID, dup, accepted, invalid, blockVars, diffVars, idVars, hand,
                 retarget, bounds>>

------------------------------------------------------------------------------
(* A connection. *)

Becomes(s, request) == hand' = [hand EXCEPT ![s] = request]

\* handleSubscribe, the first time and again: the next extranonce1.
Subscribe(s) ==
  /\ hand[s] = Idle /\ alloc < MaxSubs
  /\ alloc' = alloc + 1
  /\ en1' = [en1 EXCEPT ![s] = alloc']
  /\ UNCHANGED <<jobVars, diffVars, auth, workVars, hand, retarget, bounds>>

\* handleAuthorize lets the worker in and reads the difficulty.
Authorize(s) ==
  /\ hand[s] = Idle /\ en1[s] > 0
  /\ auth' = [auth EXCEPT ![s] = TRUE]
  /\ Becomes(s, [step |-> "diffRead", diff |-> diff[s]])
  /\ UNCHANGED <<jobVars, diffVars, alloc, en1, workVars, retarget, bounds>>

\* sendSetDifficulty stores what was read,
AuthorizeStores(s) ==
  /\ hand[s].step = "diffRead"
  /\ diff' = [diff EXCEPT ![s] = hand[s].diff]
  /\ Becomes(s, [step |-> "diffSet", diff |-> hand[s].diff])
  /\ UNCHANGED <<jobVars, prev, grace, told, mixed, idVars, workVars, retarget, bounds>>

\* and writes it; then the current job is read
AuthorizeTells(s) ==
  /\ hand[s].step = "diffSet"
  /\ told' = [told EXCEPT ![s] = hand[s].diff]
  /\ Becomes(s, [step |-> "jobRead", job |-> counter])
  /\ UNCHANGED <<jobVars, diff, prev, grace, mixed, idVars, workVars, retarget, bounds>>

\* Mutant: the job is left to the next broadcast.
AuthorizeLeavesJob(s) ==
  /\ hand[s].step = "jobRead"
  /\ Becomes(s, Idle)
  /\ UNCHANGED <<jobVars, diffVars, idVars, workVars, retarget, bounds>>

\* and, if there is one, written.
AuthorizeNotifies(s) ==
  /\ hand[s].step = "jobRead"
  /\ IF hand[s].job > 0
       THEN work' = [work EXCEPT ![s] = hand[s].job]
       ELSE UNCHANGED work
  /\ Becomes(s, Idle)
  /\ UNCHANGED <<jobVars, diffVars, idVars, raced, retarget, bounds>>

\* A miner sends a share of any job it may have, perhaps again.  A miner that
\* follows the protocol sends those that meet the difficulty it was told.
MinerSends(s) ==
  /\ hand[s] = Idle /\ auth[s] /\ sends < MaxSends
  /\ sends' = sends + 1
  /\ \E j \in 1..counter, q \in Qualities :
       Becomes(s, [step |-> "sent", share |-> [job |-> j, en1 |-> en1[s], q |-> q],
                   met |-> told[s] <= q])
  /\ UNCHANGED <<jobVars, diffVars, idVars, workVars, retarget, retargets>>

\* Mutant: no grace.
CurrentDifficulty(s) == diff[s]

\* EffectiveDifficulty: after a raise the previous one, within the window.
EffectiveDifficulty(s) ==
  IF prev[s] > 0 /\ prev[s] < diff[s] /\ grace[s] THEN prev[s] ELSE diff[s]

\* handleSubmit and SubmitShare: the difficulty is read, the job looked up.
SubmitFinds(s) ==
  /\ hand[s].step = "sent" /\ hand[s].share.job \in byID
  /\ Becomes(s, [step |-> "found", share |-> hand[s].share, met |-> hand[s].met,
                 diff |-> EffectiveDifficulty(s)])
  /\ UNCHANGED <<jobVars, diffVars, idVars, workVars, retarget, bounds>>

\* The pool does not take shares in its state, or the job is not remembered.
SubmitRefused(s) ==
  /\ hand[s].step = "sent"
  /\ Becomes(s, Idle)
  /\ UNCHANGED <<jobVars, diffVars, idVars, workVars, retarget, bounds>>

IsBlock(x) == x.q >= NetworkDiff

\* Mutant: a share below the worker's difficulty is answered before the block.
JudgeLowFirst(x, d) ==
  /\ accepted' = [accepted EXCEPT ![x] = @ + IF x.q >= d THEN 1 ELSE 0]
  /\ submitting' = IF IsBlock(x) /\ x.q >= d THEN submitting \cup {x} ELSE submitting
  /\ UNCHANGED invalid

\* ValidateShare on the job that was found: a block goes to the daemon in a
\* goroutine of its own, whatever the worker's difficulty; a block or a share
\* that meets it is recorded.
Judge(x, d) ==
  /\ accepted' = [accepted EXCEPT ![x] = @ + IF x.q >= d \/ IsBlock(x) THEN 1 ELSE 0]
  /\ submitting' = IF IsBlock(x) THEN submitting \cup {x} ELSE submitting
  /\ UNCHANGED invalid

\* Its errors: a field out of bounds, a hash that cannot be computed, a block that
\* cannot be assembled.
ValidationFails(x) ==
  /\ invalid' = invalid \cup {x}
  /\ UNCHANGED <<accepted, submitting>>

\* The duplicate test, under a lock taken anew, and what follows.  A share stays in
\* the duplicate set even if its validation fails.
SubmitJudges(s) ==
  /\ hand[s].step = "found"
  /\ LET x == hand[s].share IN
       IF x \in dup
         THEN UNCHANGED <<dup, accepted, invalid, submitting>>
         ELSE dup' = dup \cup {x} /\ (Judge(x, hand[s].diff) \/ ValidationFails(x))
  /\ Becomes(s, Idle)
  /\ UNCHANGED <<counter, byID, targets, blocks, refused, diffVars, idVars, workVars, retarget,
                 bounds>>

\* submitblock returns.  An error is logged, and the block not submitted again; the
\* daemon may have taken it all the same.
SubmitBlock(x) ==
  /\ x \in submitting
  /\ submitting' = submitting \ {x}
  /\ \/ blocks' = blocks \cup {x} /\ UNCHANGED refused
     \/ blocks' \in {blocks, blocks \cup {x}} /\ refused' = refused \cup {x}
  /\ UNCHANGED <<counter, byID, dup, targets, accepted, invalid, diffVars, idVars, workVars, hand,
                 retarget, bounds>>

Retargeting(s) == retarget # NoRetarget /\ retarget.session = s

\* The connection ends at any point, and the miner opens another.  What is still
\* written to the old one is lost, and a share that was found is judged first.
Reconnect(s) ==
  /\ en1[s] > 0 /\ alloc < MaxSubs /\ hand[s].step # "found"
  /\ en1' = [en1 EXCEPT ![s] = 0] /\ auth' = [auth EXCEPT ![s] = FALSE]
  /\ diff' = [diff EXCEPT ![s] = StartDiff] /\ prev' = [prev EXCEPT ![s] = 0]
  /\ grace' = [grace EXCEPT ![s] = FALSE]
  /\ told' = [told EXCEPT ![s] = 0] /\ work' = [work EXCEPT ![s] = 0]
  /\ raced' = [raced EXCEPT ![s] = FALSE] /\ mixed' = [mixed EXCEPT ![s] = FALSE]
  /\ targets' = targets \ {s}
  /\ retarget' = IF Retargeting(s) THEN NoRetarget ELSE retarget
  /\ Becomes(s, Idle)
  /\ UNCHANGED <<counter, byID, dup, accepted, invalid, blockVars, alloc, bounds>>

------------------------------------------------------------------------------
(* The vardiff loop. *)

Authorizing(s) == hand[s].step \in {"diffRead", "diffSet"}

\* Controller.Retarget computes another difficulty from the one it reads.  The
\* retarget interval is longer than the grace window.
RetargetComputes(s) ==
  /\ retarget = NoRetarget /\ ~grace[s] /\ retargets < MaxRetargets
  /\ retargets' = retargets + 1
  /\ \E d \in Diffs \ {diff[s]} :
       retarget' = [step |-> "computed", session |-> s, diff |-> d]
  /\ UNCHANGED <<jobVars, diffVars, idVars, workVars, hand, sends>>

\* UpdateDifficulty.
RetargetStores(s) ==
  /\ Retargeting(s) /\ retarget.step = "computed"
  /\ prev' = [prev EXCEPT ![s] = diff[s]]
  /\ diff' = [diff EXCEPT ![s] = retarget.diff]
  /\ grace' = [grace EXCEPT ![s] = TRUE]
  /\ mixed' = [mixed EXCEPT ![s] = @ \/ Authorizing(s)]
  /\ retarget' = [step |-> "stored", session |-> s, diff |-> retarget.diff]
  /\ UNCHANGED <<jobVars, told, idVars, workVars, hand, bounds>>

RetargetTells(s) ==
  /\ Retargeting(s) /\ retarget.step = "stored"
  /\ told' = [told EXCEPT ![s] = retarget.diff]
  /\ retarget' = NoRetarget
  /\ UNCHANGED <<jobVars, diff, prev, grace, mixed, idVars, workVars, hand, bounds>>

\* diffGraceWindow is over.  By then the miner has the new difficulty and its
\* earlier shares have arrived.
GraceEnds(s) ==
  /\ grace[s] /\ hand[s].step # "sent" /\ ~Retargeting(s)
  /\ grace' = [grace EXCEPT ![s] = FALSE]
  /\ UNCHANGED <<jobVars, diff, prev, told, mixed, idVars, workVars, hand, retarget, bounds>>

------------------------------------------------------------------------------
Connection(s) ==
  \/ Subscribe(s) \/ Reconnect(s)
  \/ Authorize(s) \/ AuthorizeStores(s) \/ AuthorizeTells(s) \/ AuthorizeNotifies(s)
  \/ MinerSends(s) \/ SubmitFinds(s) \/ SubmitRefused(s) \/ SubmitJudges(s)

Vardiff(s) ==
  RetargetComputes(s) \/ RetargetStores(s) \/ RetargetTells(s) \/ GraceEnds(s)

Next ==
  \/ Poll \/ \E x \in Shares : SubmitBlock(x)
  \/ \E s \in Sessions : Broadcast(s) \/ Connection(s) \/ Vardiff(s)

Spec == Init /\ [][Next]_vars

------------------------------------------------------------------------------
\* No share of a job that is still remembered is accepted twice, though the job
\* is looked up under one lock and the duplicate set under another, and polls
\* evict between the two.  (After the eviction of its job it may be: see the
\* README.)
RememberedAcceptedOnce ==
  \A x \in Shares : x.job \in byID => accepted[x] <= 1

\* A block that would be refused as a duplicate if it came again has been recorded,
\* whatever the difficulty of its worker, unless its validation ended in an error;
\* and one that was recorded is with the daemon or on its way to it, however many
\* jobs came since, unless submitblock ended in an error.  Neither error is retried.
BlocksAreSubmitted ==
  \A x \in Shares : IsBlock(x) =>
    /\ x \in dup => accepted[x] > 0 \/ x \in invalid
    /\ accepted[x] > 0 => x \in submitting \cup blocks \cup refused

\* Once a broadcast and an authorize are over, the miner works on the current
\* job, in whatever order they subscribed, read, installed and wrote; except one
\* whose authorize had read the job when the broadcast wrote the next.
MinersHaveCurrentJob ==
  \A s \in Sessions :
    auth[s] /\ hand[s].step \notin {"diffRead", "diffSet", "jobRead"} /\ s \notin targets
      => work[s] = counter \/ raced[s]

\* A share that met the difficulty its miner was told when it was sent is judged
\* by no higher one, however retargets and authorizes interleave; except on a
\* session whose difficulty was retargeted in the middle of an authorize.
ToldDifficultyCounts ==
  \A s \in Sessions :
    hand[s].step = "found" /\ hand[s].met /\ ~mixed[s] => hand[s].diff <= hand[s].share.q
=============================================================================
