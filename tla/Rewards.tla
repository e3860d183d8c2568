------------------------------ MODULE Rewards ------------------------------
(***************************************************************************)
(* The reward engine (internal/rewards, storage/postgres/rewards.go,       *)
(* cmd/rewardd) for one pool: processors that classify the pool's blocks   *)
(* against the daemon's best chain and credit the mature ones, their       *)
(* tables, a chain that grows and reorganises, and shares that arrive      *)
(* late.  Two processors run when two rewardd, or rewardd and its -once    *)
(* form, are started on the same database.                                 *)
(*                                                                         *)
(* A SQL statement or an RPC is one step.  A processor keeps nothing but   *)
(* the pass it is in, so that an error, a panic or a crash ends the pass,  *)
(* and the next one starts over.                                           *)
(***************************************************************************)
EXTENDS RewardShares, Sequences

CONSTANTS
  Blocks,        \* the pool's block candidates
  BlockInfo,     \* [height, finder, reward, target, created] of each; target
                 \* is PPLNS's Factor times the network difficulty
  Miners,        \* numbers, in alphabetical order
  ShareTable,    \* the shares: [miner, diff, created] by number
  LateShares,    \* those that are not in the table at the beginning
  FeePercent,
  MaturityDepth, OrphanDepth,
  PageSize,      \* workBackwardPage
  Schemes,       \* payment modes a behaviour may have
  Processors,
  MaxHeight,     \* bound on the chain
  MaxReorg,      \* the deepest reorganisation
  MaxFaults      \* bound on failures in one behaviour

ASSUME RewardsAssumption ==
  /\ Miners \subseteq Nat /\ IsFiniteSet(Miners)
  /\ Schemes \subseteq {"solo", "prop", "pplns"}
  /\ \A b \in Blocks :
       BlockInfo[b] \in [height : 1..MaxHeight, finder : Miners, reward : Nat \ {0},
                         target : Nat \ {0}, created : Nat]
  /\ \A s \in DOMAIN ShareTable :
       ShareTable[s] \in [miner : Miners, diff : Nat \ {0}, created : Nat]
  /\ IsFiniteSet(DOMAIN ShareTable) /\ LateShares \subseteq DOMAIN ShareTable
  /\ FeePercent \in Nat
  /\ {MaturityDepth, OrphanDepth, PageSize} \subseteq Nat \ {0}
  \* What the two depths are configured for.
  /\ MaxReorg \in Nat /\ MaxReorg < MaturityDepth /\ MaxReorg <= OrphanDepth
  /\ MaxHeight \in Nat /\ MaxFaults \in Nat

VARIABLES
  scheme,        \* the pool's payment mode
  chain,         \* best chain: what is at each height, a block or Other
  stored,        \* shares in the shares table
  status,        \* blocks.status; "absent" before InsertBlock
  rewarded,      \* blocks.rewarded
  paid,          \* paid[b][m]: balance_changes of usage block-reward
  fees,          \* fees[b]: balance_changes of usage pool-fee
  proc,          \* what each processor is doing
  faults

chainVars == <<scheme, chain>>
blockVars == <<status, rewarded, paid, fees>>
vars == <<chainVars, stored, blockVars, proc, faults>>

Other == "other"
Height(b) == BlockInfo[b].height
Created(s) == ShareTable[s].created
OnChain(b) == Height(b) <= Len(chain) /\ chain[Height(b)] = b

Idle == [at |-> "idle"]

\* ORDER BY blockheight: the first of S, any of equal heights.
First(S) == {b \in S : \A c \in S : Height(b) <= Height(c)}

TypeOK ==
  /\ scheme \in Schemes
  /\ chain \in Seq(Blocks \cup {Other}) /\ Len(chain) <= MaxHeight
  /\ stored \subseteq DOMAIN ShareTable
  /\ status \in [Blocks -> {"absent", "pending", "confirmed", "orphaned"}]
  /\ rewarded \in [Blocks -> BOOLEAN]
  /\ \A b \in Blocks : paid[b] \in [Miners -> 0..BlockInfo[b].reward]
  /\ \A b \in Blocks : fees[b] \in 0..BlockInfo[b].reward
  /\ \A p \in Processors :
       proc[p].at \in {"idle", "tip", "hash", "update", "select", "window", "page", "credit"}
  /\ faults \in 0..MaxFaults

Init ==
  /\ scheme \in Schemes
  /\ chain = <<>>
  /\ stored = DOMAIN ShareTable \ LateShares
  /\ status = [b \in Blocks |-> "absent"]
  /\ rewarded = [b \in Blocks |-> FALSE]
  /\ paid = [b \in Blocks |-> [m \in Miners |-> 0]]
  /\ fees = [b \in Blocks |-> 0]
  /\ proc = [p \in Processors |-> Idle]
  /\ faults = 0

----------------------------------------------------------------------------
(***************************************************************************)
(* The world: the coin's network, and stratumd or the NATS sink, which     *)
(* insert candidates and shares, whenever their messages get through.      *)
(***************************************************************************)
AtHeight(h) == {Other} \cup {b \in Blocks : Height(b) = h}

\* The best chain gives up its last k blocks for k + 1 others.
Extend(k) ==
  LET kept == Len(chain) - k
  IN  /\ k <= Len(chain) /\ Len(chain) < MaxHeight
      /\ \E top \in [1..(k + 1) -> Blocks \cup {Other}] :
           /\ \A i \in 1..(k + 1) : top[i] \in AtHeight(kept + i)
           /\ chain' = SubSeq(chain, 1, kept) \o top
      /\ UNCHANGED <<scheme, stored, blockVars, proc, faults>>

Grow == \E k \in 0..MaxReorg : Extend(k)

InsertBlock(b) ==
  /\ status[b] = "absent"
  /\ status' = [status EXCEPT ![b] = "pending"]
  /\ UNCHANGED <<chainVars, stored, rewarded, paid, fees, proc, faults>>

InsertShare(s) ==
  /\ s \notin stored
  /\ stored' = stored \cup {s}
  /\ UNCHANGED <<chainVars, blockVars, proc, faults>>

----------------------------------------------------------------------------
(***************************************************************************)
(* confirmPass.                                                            *)
(***************************************************************************)
Become(p, r) == proc' = [proc EXCEPT ![p] = r]
OneOf(p, R) == \E r \in R : Become(p, r)
Reads == UNCHANGED <<chainVars, stored, blockVars, faults>>

\* The loop, with the blocks todo before it.
AtTip(todo) ==
  IF todo = {} THEN {[at |-> "select"]}
  ELSE {[at |-> "tip", b |-> b, todo |-> todo \ {b}] : b \in First(todo)}

UnconfirmedBlocks(p) ==
  /\ proc[p].at = "idle"
  /\ OneOf(p, AtTip({b \in Blocks : status[b] = "pending"}))
  /\ Reads

\* TipHeight.  A chain that has not reached the block leaves it pending.
TipHeight(p) ==
  /\ proc[p].at = "tip"
  /\ OneOf(p, IF Len(chain) < Height(proc[p].b) THEN AtTip(proc[p].todo)
              ELSE {[at |-> "hash", b |-> proc[p].b, todo |-> proc[p].todo, tip |-> Len(chain)]})
  /\ Reads

\* Mutant: a block is confirmed one block early.
VerdictEarly(b, tip) ==
  IF OnChain(b)
  THEN IF tip - Height(b) + 2 >= MaturityDepth THEN "confirmed" ELSE "pending"
  ELSE IF tip - Height(b) >= OrphanDepth THEN "orphaned" ELSE "unknown"

\* Mutant: the block itself is not counted as a confirmation.
VerdictLate(b, tip) ==
  IF OnChain(b)
  THEN IF tip - Height(b) >= MaturityDepth THEN "confirmed" ELSE "pending"
  ELSE IF tip - Height(b) >= OrphanDepth THEN "orphaned" ELSE "unknown"

\* Mutant: a block that is not on the chain is never given up.
VerdictHopeful(b, tip) ==
  IF OnChain(b)
  THEN IF tip - Height(b) + 1 >= MaturityDepth THEN "confirmed" ELSE "pending"
  ELSE "unknown"

\* CheckBlock, from the tip read before and the hash read now.
Verdict(b, tip) ==
  IF OnChain(b)
  THEN IF tip - Height(b) + 1 >= MaturityDepth THEN "confirmed" ELSE "pending"
  ELSE IF tip - Height(b) >= OrphanDepth THEN "orphaned" ELSE "unknown"

\* BlockHashAt.  A block without confirmations is not updated.
BlockHashAt(p) ==
  /\ proc[p].at = "hash"
  /\ LET r == proc[p]
         verdict == Verdict(r.b, r.tip)
     IN  OneOf(p, IF verdict = "unknown" THEN AtTip(r.todo)
                  ELSE {[at |-> "update", b |-> r.b, todo |-> r.todo, verdict |-> verdict]})
  /\ Reads

\* The update names the block only, not the status it replaces.
UpdateBlockConfirmation(p) ==
  /\ proc[p].at = "update"
  /\ status' = [status EXCEPT ![proc[p].b] = proc[p].verdict]
  /\ OneOf(p, AtTip(proc[p].todo))
  /\ UNCHANGED <<chainVars, stored, rewarded, paid, fees, faults>>

----------------------------------------------------------------------------
(***************************************************************************)
(* rewardPass.                                                             *)
(***************************************************************************)
\* Per miner, the sum over its shares.
NoWork == [m \in Miners |-> 0]
Difficulty == [s \in DOMAIN ShareTable |-> ShareTable[s].diff]
Of(m, S) == {s \in S : ShareTable[s].miner = m}
Work(S) == [m \in Miners |-> SumFunctionOnSet(Difficulty, Of(m, S))]

\* The loop, with the blocks todo before it: Calculate begins.
Calculating(b, todo) ==
  IF scheme = "solo" THEN [at |-> "credit", b |-> b, todo |-> todo, work |-> NoWork]
  ELSE IF scheme = "prop" THEN [at |-> "window", b |-> b, todo |-> todo]
  ELSE [at |-> "page", b |-> b, todo |-> todo, counted |-> {}, cursors |-> {}, known |-> stored]

AtWindow(todo) ==
  IF todo = {} THEN {Idle} ELSE {Calculating(b, todo \ {b}) : b \in First(todo)}

ConfirmedUnrewarded(p) ==
  /\ proc[p].at = "select"
  /\ OneOf(p, AtWindow({b \in Blocks : status[b] = "confirmed" /\ ~rewarded[b]}))
  /\ Reads

\* Prop: PreviousBlockTime, which takes a block of any status, and
\* WorkBetween.  Blocks are only inserted, so the two queries are one.
WorkBetween(p) ==
  /\ proc[p].at = "window"
  /\ LET r == proc[p]
         to == BlockInfo[r.b].created
         earlier == {BlockInfo[b].created : b \in {c \in Blocks :
                        status[c] # "absent" /\ BlockInfo[c].created < to}}
         from == Max(earlier \cup {0})
     IN  Become(p, [at |-> "credit", b |-> r.b, todo |-> r.todo,
                    work |-> Work({s \in stored : from < Created(s) /\ Created(s) <= to})])
  /\ Reads

\* Mutant: ORDER BY forgotten.
PageUnordered(S) == {P \in SUBSET S : Cardinality(P) = Min({PageSize, Cardinality(S)})}

\* A page: PageSize shares, the newest at or before the block's time, or
\* before the last page's last one; of equal times any.
Page(S) ==
  {P \in SUBSET S : /\ Cardinality(P) = Min({PageSize, Cardinality(S)})
                    /\ \A s \in P, t \in S \ P : Created(s) >= Created(t)}

\* The part of a page that is counted: newest first, until the target is
\* reached by a share that is counted in full.
Counted(P, collected, target) ==
  {C \in SUBSET P :
     /\ \A s \in C, t \in P \ C : Created(s) >= Created(t)
     /\ C # P => collected + Total(Work(C)) >= target
     /\ \A s \in C : (\A t \in C : Created(t) >= Created(s)) =>
          \E u \in C : Created(u) = Created(s) /\
            collected + Total(Work(C \ {u})) < target}

Older(cursors, before) ==
  {s \in stored : IF cursors = {} THEN Created(s) <= before ELSE Created(s) < Min(cursors)}

WorkBackward(p) ==
  /\ proc[p].at = "page"
  /\ LET r == proc[p]
         info == BlockInfo[r.b]
         collected == Total(Work(r.counted))
     IN  \E P \in Page(Older(r.cursors, info.created)) :
         \E C \in Counted(P, collected, info.target) :
           LET sum == r.counted \cup C
           IN Become(p,
                IF Cardinality(P) < PageSize \/ Total(Work(sum)) >= info.target
                THEN [at |-> "credit", b |-> r.b, todo |-> r.todo, work |-> Work(sum),
                      counted |-> sum, cursors |-> r.cursors, known |-> r.known]
                ELSE [at |-> "page", b |-> r.b, todo |-> r.todo, counted |-> sum,
                      cursors |-> r.cursors \cup {Min({Created(s) : s \in P})},
                      known |-> r.known])
  /\ Reads

\* What the credit transaction writes.
Booked(b, work) ==
  LET info == BlockInfo[b]
  IN  Credits(scheme, Distributable(info.reward, FeePercent), work, info.finder)

Write(b, work) ==
  /\ rewarded' = [rewarded EXCEPT ![b] = TRUE]
  /\ LET booked == Booked(b, work)
     IN  paid' = [paid EXCEPT ![b] = [m \in Miners |-> @[m] + booked[m]]]
  /\ fees' = [fees EXCEPT ![b] = @ + Fee(BlockInfo[b].reward, FeePercent)]

\* Mutant: the flag is not looked at under the lock.
CreditUnlocked(b, work) == Write(b, work) /\ UNCHANGED status

\* CreditBlockRewards, from its lock to its commit.
Credit(b, work) ==
  /\ IF rewarded[b] THEN UNCHANGED <<rewarded, paid, fees>> ELSE Write(b, work)
  /\ UNCHANGED status

CreditBlockRewards(p) ==
  /\ proc[p].at = "credit"
  /\ Credit(proc[p].b, proc[p].work)
  /\ OneOf(p, AtWindow(proc[p].todo))
  /\ UNCHANGED <<chainVars, stored, faults>>

----------------------------------------------------------------------------
(***************************************************************************)
(* Failures.  Each ends the pass.                                          *)
(***************************************************************************)
Fault == faults < MaxFaults /\ faults' = faults + 1

\* A query or an RPC fails, without effect, or the process dies.
PassFails(p) ==
  /\ proc[p].at # "idle"
  /\ Fault
  /\ Become(p, Idle)
  /\ UNCHANGED <<chainVars, stored, blockVars>>

\* The commit goes through and its reply is lost.
CreditReplyLost(p) ==
  /\ proc[p].at = "credit"
  /\ Fault
  /\ Credit(proc[p].b, proc[p].work)
  /\ Become(p, Idle)
  /\ UNCHANGED <<chainVars, stored>>

PassStep(p) ==
  \/ UnconfirmedBlocks(p) \/ TipHeight(p) \/ BlockHashAt(p) \/ UpdateBlockConfirmation(p)
  \/ ConfirmedUnrewarded(p) \/ WorkBetween(p) \/ WorkBackward(p) \/ CreditBlockRewards(p)

Next ==
  \/ Grow
  \/ \E b \in Blocks : InsertBlock(b)
  \/ \E s \in DOMAIN ShareTable : InsertShare(s)
  \/ \E p \in Processors : PassStep(p) \/ PassFails(p) \/ CreditReplyLost(p)

Spec == Init /\ [][Next]_vars

\* Run passes again and again.
FairSpec == Spec /\ \A p \in Processors : WF_vars(PassStep(p))

----------------------------------------------------------------------------
\* A block's reward is booked exactly once and to the satoshi: what its
\* miners and the pool get is its reward if it is marked, and nothing if it
\* is not ("re-running the processor can never double-credit"; "The returned
\* credits sum EXACTLY to amountSats").
BookedOnce ==
  \A b \in Blocks :
    Total(paid[b]) + fees[b] = IF rewarded[b] THEN BlockInfo[b].reward ELSE 0

\* A verdict is never taken back by the chain: a rewarded or confirmed block
\* is on it and an orphaned one is not, however tip, hash and update of
\* several processors are interleaved with reorganisations.
VerdictsHold ==
  \A b \in Blocks :
    /\ rewarded[b] \/ status[b] = "confirmed" => OnChain(b)
    /\ status[b] = "orphaned" => ~OnChain(b)

\* The processors in a PPLNS walk or after it, and the shares that were in
\* the table when it began and are not younger than its block.
Walkers == {p \in Processors : "counted" \in DOMAIN proc[p]}
InWindow(p) == {t \in proc[p].known : Created(t) <= BlockInfo[proc[p].b].created}

\* The PPLNS window has no holes ("walks shares with created <= before,
\* newest first"): a share counted implies every newer one that was in the
\* table when the walk began, except those with the time of a page's last.
WindowHasNoHoles ==
  \A p \in Walkers :
    \A s \in proc[p].counted, t \in InWindow(p) :
      Created(t) > Created(s) /\ Created(t) \notin proc[p].cursors => t \in proc[p].counted

\* A walk ends when the target is collected or the shares have run out
\* ("accumulates per-miner difficulty until targetDiff is collected (or
\* shares run out)").  The code breaks it: it asks for the shares before the
\* time of a page's last one, and drops the others of that time.
WalkIsExhaustive ==
  \A p \in Walkers : proc[p].at = "credit" =>
    \/ Total(proc[p].work) >= BlockInfo[proc[p].b].target
    \/ InWindow(p) \subseteq proc[p].counted

\* Every behaviour comes to an end of the chain's growth and of the arrivals,
\* both bounded; from some point on every mature block of the table is
\* rewarded, whatever became of the passes in between.
MatureIsRewarded ==
  <>[](\A b \in Blocks :
         status[b] # "absent" /\ OnChain(b) /\ Len(chain) - Height(b) + 1 >= MaturityDepth
         => rewarded[b])

\* And every block that the chain has passed by is given up.
StaleIsOrphaned ==
  <>[](\A b \in Blocks :
         status[b] # "absent" /\ ~OnChain(b) /\ Len(chain) - Height(b) >= OrphanDepth
         => status[b] = "orphaned")
=============================================================================
