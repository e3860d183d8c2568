--------------------------- MODULE StratumProofs ---------------------------
(***************************************************************************)
(* What is proved of Stratum, for any number of miners, jobs, remembered   *)
(* jobs, difficulties and retargets: its type invariant and its four       *)
(* safety invariants.                                                      *)
(***************************************************************************)
EXTENDS Stratum, FiniteSetTheorems, TLAPS

----------------------------------------------------------------------------
(***************************************************************************)
(* Types.                                                                  *)
(***************************************************************************)

\* What a request carries depends on its step.
LEMMA RequestParts ==
  ASSUME NEW r \in Requests
  PROVE  /\ r.step \in {"diffRead", "diffSet"} => r.diff \in Diffs
         /\ r.step = "jobRead" => r.job \in 0..MaxJobs
         /\ r.step \in {"sent", "found"} => r.share \in Shares /\ r.met \in BOOLEAN
         /\ r.step = "found" => r.diff \in Diffs
BY DEF Requests, Idle

LEMMA RetargetParts ==
  ASSUME NEW r \in Retargets, r # NoRetarget
  PROVE  r.session \in Sessions /\ r.diff \in Diffs /\ r.step \in {"computed", "stored"}
BY DEF Retargets, NoRetarget

\* The remembered jobs are the last ones: that bounds their number.
LastOnes == \A j \in byID : j + MaxRemembered > counter

\* A worker is authorized on a subscribed connection only, and what takes more
\* than one step is the request of an authorized one.
Known ==
  \A s \in Sessions :
    /\ auth[s] => en1[s] > 0
    /\ hand[s].step # "idle" => auth[s]

\* TypeOK but for the number of remembered jobs.
Types ==
  /\ counter \in 0..MaxJobs
  /\ byID \subseteq 1..counter
  /\ dup \subseteq Shares /\ invalid \subseteq Shares
  /\ submitting \subseteq Shares /\ blocks \subseteq Shares /\ refused \subseteq Shares
  /\ targets \subseteq Sessions
  /\ accepted \in [Shares -> Nat]
  /\ alloc \in 0..MaxSubs /\ en1 \in [Sessions -> 0..MaxSubs]
  /\ auth \in [Sessions -> BOOLEAN]
  /\ diff \in [Sessions -> Diffs] /\ prev \in [Sessions -> Diffs \cup {0}]
  /\ told \in [Sessions -> Diffs \cup {0}] /\ grace \in [Sessions -> BOOLEAN]
  /\ work \in [Sessions -> 0..MaxJobs]
  /\ hand \in [Sessions -> Requests] /\ retarget \in Retargets
  /\ raced \in [Sessions -> BOOLEAN] /\ mixed \in [Sessions -> BOOLEAN]
  /\ sends \in 0..MaxSends /\ retargets \in 0..MaxRetargets

\* Every step keeps the types and the window of remembered jobs.
LEMMA TypesStep == Types /\ Known /\ LastOnes /\ [Next]_vars => Types' /\ LastOnes'
<1> SUFFICES ASSUME Types, Known, LastOnes, [Next]_vars PROVE Types' /\ LastOnes'
  OBVIOUS
<1> USE StratumAssumption DEF Types, LastOnes
<1> USE DEF jobVars, blockVars, diffVars, idVars, workVars, bounds
<1>1. CASE Poll
  <2>1. counter' \in 0..MaxJobs /\ counter' = counter + 1
    BY <1>1 DEF Poll
  <2>2. byID' \subseteq 1..counter'
    <3>1. \A j \in 1..counter : j \in 1..counter'
      BY <2>1
    <3>2. counter' \in 1..counter'
      BY <2>1
    <3> QED BY <1>1, <3>1, <3>2 DEF Poll
  <2>3. LastOnes'
    BY <1>1 DEF Poll
  <2> QED BY <1>1, <2>1, <2>2, <2>3 DEF Poll
<1>2. ASSUME NEW s \in Sessions, Broadcast(s) PROVE Types' /\ LastOnes'
  <2>1. raced' \in [Sessions -> BOOLEAN]
    BY <1>2 DEF Broadcast
  <2>2. work' \in [Sessions -> 0..MaxJobs]
    BY <1>2 DEF Broadcast
  <2>3. UNCHANGED <<counter, byID, dup, accepted, invalid, blockVars, diffVars, idVars, hand,
                    retarget, bounds>> /\ targets' \subseteq Sessions
    BY <1>2 DEF Broadcast
  <2> QED BY <2>1, <2>2, <2>3
<1>3. ASSUME NEW s \in Sessions, Connection(s) PROVE Types' /\ LastOnes'
  <2> USE DEF Becomes
  <2>1. hand[s] \in Requests /\ Idle \in Requests
    BY DEF Requests
  <2>2. CASE Subscribe(s)
    BY <2>2 DEF Subscribe
  <2>3. CASE Reconnect(s)
    BY <2>1, <2>3 DEF Reconnect, Retargets
  <2>4. CASE Authorize(s)
    <3>1. [step |-> "diffRead", diff |-> diff[s]] \in Requests
      BY DEF Requests
    <3> QED BY <2>4, <3>1 DEF Authorize
  <2>5. CASE AuthorizeStores(s)
    <3>1. hand[s].diff \in Diffs
      BY <2>1, <2>5, RequestParts DEF AuthorizeStores
    <3>2. [step |-> "diffSet", diff |-> hand[s].diff] \in Requests
      BY <3>1 DEF Requests
    <3> QED BY <2>5, <3>1, <3>2 DEF AuthorizeStores
  <2>6. CASE AuthorizeTells(s)
    <3>1. hand[s].diff \in Diffs
      BY <2>1, <2>6, RequestParts DEF AuthorizeTells
    <3>2. [step |-> "jobRead", job |-> counter] \in Requests
      BY DEF Requests
    <3> QED BY <2>6, <3>1, <3>2 DEF AuthorizeTells
  <2>7. CASE AuthorizeNotifies(s)
    <3>1. hand[s].job \in 0..MaxJobs
      BY <2>1, <2>7, RequestParts DEF AuthorizeNotifies
    <3> QED BY <2>1, <2>7, <3>1 DEF AuthorizeNotifies
  <2>8. CASE MinerSends(s)
    <3>1. PICK j \in 1..counter, q \in Qualities :
            Becomes(s, [step |-> "sent", share |-> [job |-> j, en1 |-> en1[s], q |-> q],
                        met |-> told[s] <= q])
      BY <2>8 DEF MinerSends
    <3>2. j \in 1..MaxJobs /\ en1[s] \in 1..MaxSubs
      BY <2>8 DEF MinerSends, Known
    <3>3. [job |-> j, en1 |-> en1[s], q |-> q] \in Shares
      BY <3>2 DEF Shares
    <3>4. [step |-> "sent", share |-> [job |-> j, en1 |-> en1[s], q |-> q],
           met |-> told[s] <= q] \in Requests
      BY <3>3 DEF Requests
    <3> QED BY <2>8, <3>1, <3>4 DEF MinerSends
  <2>9. CASE SubmitFinds(s)
    <3>1. hand[s].share \in Shares /\ hand[s].met \in BOOLEAN
      BY <2>1, <2>9, RequestParts DEF SubmitFinds
    <3>2. EffectiveDifficulty(s) \in Diffs
      BY DEF EffectiveDifficulty
    <3>3. [step |-> "found", share |-> hand[s].share, met |-> hand[s].met,
           diff |-> EffectiveDifficulty(s)] \in Requests
      BY <3>1, <3>2 DEF Requests
    <3> QED BY <2>9, <3>3 DEF SubmitFinds
  <2>10. CASE SubmitRefused(s)
    BY <2>1, <2>10 DEF SubmitRefused
  <2>11. CASE SubmitJudges(s)
    <3>1. hand[s].share \in Shares
      BY <2>1, <2>11, RequestParts DEF SubmitJudges
    <3>2. /\ dup' \subseteq Shares /\ submitting' \subseteq Shares /\ invalid' \subseteq Shares
          /\ accepted' \in [Shares -> Nat]
      BY <2>11, <3>1 DEF SubmitJudges, Judge, ValidationFails
    <3> QED BY <2>1, <2>11, <3>2 DEF SubmitJudges
  <2> QED BY <1>3, <2>2, <2>3, <2>4, <2>5, <2>6, <2>7, <2>8, <2>9, <2>10, <2>11
          DEF Connection
<1>4. ASSUME NEW s \in Sessions, Vardiff(s) PROVE Types' /\ LastOnes'
  <2>1. CASE RetargetComputes(s)
    <3>1. \A d \in Diffs : [step |-> "computed", session |-> s, diff |-> d] \in Retargets
      BY DEF Retargets
    <3> QED BY <2>1, <3>1 DEF RetargetComputes
  <2>2. CASE RetargetStores(s)
    <3>1. retarget.diff \in Diffs
      BY <2>2, RetargetParts DEF RetargetStores, Retargeting
    <3>2. [step |-> "stored", session |-> s, diff |-> retarget.diff] \in Retargets
      BY <3>1 DEF Retargets
    <3>3. mixed' \in [Sessions -> BOOLEAN]
      BY <2>2 DEF RetargetStores, Authorizing
    <3> QED BY <2>2, <3>1, <3>2, <3>3 DEF RetargetStores
  <2>3. CASE RetargetTells(s)
    <3>1. retarget.diff \in Diffs
      BY <2>3, RetargetParts DEF RetargetTells, Retargeting
    <3>2. NoRetarget \in Retargets
      BY DEF Retargets
    <3> QED BY <2>3, <3>1, <3>2 DEF RetargetTells
  <2>4. CASE GraceEnds(s)
    BY <2>4 DEF GraceEnds
  <2> QED BY <1>4, <2>1, <2>2, <2>3, <2>4 DEF Vardiff
<1>5. CASE UNCHANGED vars
  BY <1>5 DEF vars
<1>6. ASSUME NEW x \in Shares, SubmitBlock(x) PROVE Types' /\ LastOnes'
  <2>1. submitting' \subseteq Shares /\ blocks' \subseteq Shares /\ refused' \subseteq Shares
    BY <1>6 DEF SubmitBlock
  <2> QED BY <1>6, <2>1 DEF SubmitBlock
<1> QED BY <1>1, <1>2, <1>3, <1>4, <1>5, <1>6 DEF Next

\* Only a subscribed connection becomes an authorized one, only a new one is not.
LEMMA KnownStep == Types /\ Known /\ [Next]_vars => Known'
<1> SUFFICES ASSUME Types, Known, [Next]_vars PROVE Known'
  OBVIOUS
<1> USE DEF Known
<1>a. /\ hand \in [Sessions -> Requests] /\ auth \in [Sessions -> BOOLEAN]
      /\ en1 \in [Sessions -> 0..MaxSubs] /\ alloc \in Nat
  BY StratumAssumption DEF Types
<1>1. CASE UNCHANGED <<en1, auth, hand>>
  BY <1>1
<1>2. ASSUME NEW s \in Sessions, Subscribe(s) PROVE Known'
  BY <1>a, <1>2 DEF Subscribe
<1>3. ASSUME NEW s \in Sessions, Authorize(s) PROVE Known'
  BY <1>a, <1>3 DEF Authorize, Becomes
<1>4. ASSUME NEW s \in Sessions, Reconnect(s) PROVE Known'
  BY <1>a, <1>4 DEF Reconnect, Becomes, Idle
<1>5. ASSUME NEW s \in Sessions, NEW r, hand' = [hand EXCEPT ![s] = r],
             UNCHANGED <<en1, auth>>, r.step = "idle" \/ auth[s]
      PROVE  Known'
  BY <1>a, <1>5
<1>6. ASSUME NEW s \in Sessions,
             AuthorizeStores(s) \/ AuthorizeTells(s) \/ AuthorizeNotifies(s)
      PROVE  Known'
  <2>1. auth[s]
    BY <1>6 DEF AuthorizeStores, AuthorizeTells, AuthorizeNotifies
  <2> QED BY <1>5, <1>6, <2>1 DEF AuthorizeStores, AuthorizeTells, AuthorizeNotifies,
                                  Becomes, idVars
<1>7. ASSUME NEW s \in Sessions, MinerSends(s) PROVE Known'
  <2>1. auth[s] /\ UNCHANGED <<en1, auth>>
    BY <1>7 DEF MinerSends, idVars
  <2>2. \E r : hand' = [hand EXCEPT ![s] = r]
    BY <1>7 DEF MinerSends, Becomes
  <2> QED BY <1>5, <2>1, <2>2
<1>8. ASSUME NEW s \in Sessions, SubmitFinds(s) \/ SubmitRefused(s) \/ SubmitJudges(s)
      PROVE  Known'
  <2>1. auth[s]
    BY <1>8 DEF SubmitFinds, SubmitRefused, SubmitJudges
  <2> QED BY <1>5, <1>8, <2>1 DEF SubmitFinds, SubmitRefused, SubmitJudges, Becomes, idVars
<1> QED
  BY <1>1, <1>2, <1>3, <1>4, <1>6, <1>7, <1>8
  DEF Next, Poll, SubmitBlock, Broadcast, Connection, Vardiff, RetargetComputes, RetargetStores,
      RetargetTells, GraceEnds, idVars, vars

----------------------------------------------------------------------------
(***************************************************************************)
(* A remembered share is accepted once.                                    *)
(***************************************************************************)

\* A share that is on its way belongs to a job that was built.
SharesAreKnown ==
  \A s \in Sessions : hand[s].step \in {"sent", "found"} => hand[s].share.job <= counter

\* What is accepted is in the duplicate set while its job is remembered, and no
\* share of a job to come is.
AcceptedAreDup ==
  \A x \in Shares :
    /\ x.job \in byID => accepted[x] <= 1 /\ (accepted[x] = 1 => x \in dup)
    /\ x.job > counter => accepted[x] = 0

\* A new job has no share yet; the duplicate sets that go are those of jobs that
\* are forgotten; a share is judged when its job was built already.
LEMMA AcceptedStep ==
  Types /\ Types' /\ SharesAreKnown /\ AcceptedAreDup /\ [Next]_vars =>
    SharesAreKnown' /\ AcceptedAreDup'
<1> SUFFICES ASSUME Types, Types', SharesAreKnown, AcceptedAreDup, [Next]_vars
             PROVE  SharesAreKnown' /\ AcceptedAreDup'
  OBVIOUS
<1> USE DEF SharesAreKnown, AcceptedAreDup, jobVars
<1>a. counter \in Nat /\ \A x \in Shares : x.job \in Nat /\ accepted[x] \in Nat
  <2>1. counter \in Nat /\ \A x \in Shares : accepted[x] \in Nat
    BY StratumAssumption DEF Types
  <2>2. \A x \in Shares : x.job \in Nat
    BY StratumAssumption DEF Shares
  <2> QED BY <2>1, <2>2
<1>b. hand \in [Sessions -> Requests] /\ accepted \in [Shares -> Nat]
  BY DEF Types
<1>1. CASE Poll
  <2>1. counter' = counter + 1 /\ UNCHANGED <<hand, accepted>>
    BY <1>1 DEF Poll
  <2>2. SharesAreKnown'
    <3> SUFFICES ASSUME NEW s \in Sessions, hand[s].step \in {"sent", "found"}
                 PROVE  hand[s].share.job <= counter + 1
      BY <2>1
    <3>1. hand[s].share \in Shares
      BY <1>b, RequestParts
    <3> QED BY <1>a, <3>1
  <2>3. ASSUME NEW x \in Shares, x.job \in byID', x.job # counter'
        PROVE  x.job \in byID /\ (x \in dup => x \in dup')
    BY <1>1, <2>3 DEF Poll
  <2>4. ASSUME NEW x \in Shares, x.job > counter
        PROVE  accepted'[x] = 0
    BY <2>1, <2>4
  <2>5. AcceptedAreDup'
    BY <1>a, <2>1, <2>3, <2>4
  <2> QED BY <2>2, <2>5
<1>2. ASSUME NEW s \in Sessions, MinerSends(s) PROVE SharesAreKnown' /\ AcceptedAreDup'
  <2>1. PICK j \in 1..counter, q \in Qualities :
          hand' = [hand EXCEPT ![s] =
            [step |-> "sent", share |-> [job |-> j, en1 |-> en1[s], q |-> q],
             met |-> told[s] <= q]]
    BY <1>2 DEF MinerSends, Becomes
  <2>2. UNCHANGED <<counter, byID, dup, accepted>>
    BY <1>2 DEF MinerSends
  <2> QED BY <1>b, <2>1, <2>2
<1>3. ASSUME NEW s \in Sessions, SubmitFinds(s) PROVE SharesAreKnown' /\ AcceptedAreDup'
  <2>1. UNCHANGED <<counter, byID, dup, accepted>>
    BY <1>3 DEF SubmitFinds
  <2>2. hand[s].step = "sent" /\ hand' = [hand EXCEPT ![s] =
          [step |-> "found", share |-> hand[s].share, met |-> hand[s].met,
           diff |-> EffectiveDifficulty(s)]]
    BY <1>3 DEF SubmitFinds, Becomes
  <2> QED BY <1>b, <2>1, <2>2
<1>4. ASSUME NEW s \in Sessions, SubmitJudges(s) PROVE SharesAreKnown' /\ AcceptedAreDup'
  <2>1. hand[s].step = "found" /\ hand' = [hand EXCEPT ![s] = Idle]
        /\ UNCHANGED <<counter, byID>>
    BY <1>4 DEF SubmitJudges, Becomes
  <2>2. SharesAreKnown'
    BY <1>b, <2>1 DEF Idle
  <2> DEFINE x == hand[s].share
  <2>3. x \in Shares /\ x.job <= counter
    BY <1>b, <2>1, RequestParts
  <2>4. CASE x \in dup
    BY <1>4, <2>1, <2>2, <2>4 DEF SubmitJudges
  <2>6. CASE x \notin dup /\ ValidationFails(x)
    <3>1. dup \subseteq dup' /\ accepted' = accepted
      BY <1>4, <2>6 DEF SubmitJudges, ValidationFails
    <3> QED BY <2>1, <2>2, <3>1
  <2>5. CASE x \notin dup /\ ~ValidationFails(x)
    <3> DEFINE hit == x.q >= hand[s].diff \/ IsBlock(x)
    <3>1. dup' = dup \cup {x}
          /\ accepted' = [accepted EXCEPT ![x] = @ + IF hit THEN 1 ELSE 0]
      BY <1>4, <2>5 DEF SubmitJudges, Judge
    <3>2. accepted'[x] \in {accepted[x], accepted[x] + 1}
      BY <1>b, <2>3, <3>1
    <3>3. \A y \in Shares : y # x => accepted'[y] = accepted[y]
      BY <1>b, <2>3, <3>1
    <3>4. x.job \in byID => accepted[x] = 0
      BY <1>a, <2>3, <2>5
    <3>5. AcceptedAreDup'
      BY <1>a, <2>1, <2>3, <3>1, <3>2, <3>3, <3>4
    <3> QED BY <2>2, <3>5
  <2> QED BY <2>4, <2>5, <2>6
<1>5. ASSUME NEW s \in Sessions, UNCHANGED <<counter, byID, dup, accepted>>,
             NEW r, hand' = [hand EXCEPT ![s] = r], r.step \notin {"sent", "found"}
      PROVE  SharesAreKnown' /\ AcceptedAreDup'
  BY <1>b, <1>5
<1>6. ASSUME NEW s \in Sessions,
             \/ Authorize(s) \/ AuthorizeStores(s) \/ AuthorizeTells(s)
             \/ AuthorizeNotifies(s) \/ SubmitRefused(s) \/ Reconnect(s)
      PROVE  SharesAreKnown' /\ AcceptedAreDup'
  BY <1>5, <1>6 DEF Authorize, AuthorizeStores, AuthorizeTells, AuthorizeNotifies,
                    SubmitRefused, Reconnect, Becomes, Idle
<1>7. ASSUME NEW s \in Sessions, Broadcast(s) \/ Subscribe(s) \/ Vardiff(s)
      PROVE  SharesAreKnown' /\ AcceptedAreDup'
  BY <1>7 DEF Broadcast, Subscribe, Vardiff, RetargetComputes, RetargetStores,
              RetargetTells, GraceEnds
<1>8. CASE UNCHANGED vars \/ \E x \in Shares : SubmitBlock(x)
  BY <1>8 DEF vars, SubmitBlock
<1> QED BY <1>1, <1>2, <1>3, <1>4, <1>6, <1>7, <1>8 DEF Next, Connection

----------------------------------------------------------------------------
(***************************************************************************)
(* Blocks are submitted.                                                   *)
(***************************************************************************)

\* A share enters the duplicate set with its verdict or its error, a block that is
\* recorded goes to the daemon with the same step, and one whose submitblock returns
\* is with the daemon or refused.
LEMMA BlocksStep == Types /\ BlocksAreSubmitted /\ [Next]_vars => BlocksAreSubmitted'
<1> SUFFICES ASSUME Types, BlocksAreSubmitted, [Next]_vars,
                    NEW x \in Shares, IsBlock(x)
             PROVE  /\ x \in dup' => accepted'[x] > 0 \/ x \in invalid'
                    /\ accepted'[x] > 0 => x \in submitting' \cup blocks' \cup refused'
  BY DEF BlocksAreSubmitted, IsBlock
<1>a. /\ x \in dup => accepted[x] > 0 \/ x \in invalid
      /\ accepted[x] > 0 => x \in submitting \cup blocks \cup refused
  BY DEF BlocksAreSubmitted
<1>b. accepted \in [Shares -> Nat] /\ hand \in [Sessions -> Requests] /\ accepted[x] \in Nat
  BY DEF Types
<1> USE DEF jobVars, blockVars
<1>1. CASE Poll
  BY <1>a, <1>1 DEF Poll
<1>2. ASSUME NEW s \in Sessions, SubmitJudges(s)
      PROVE  /\ x \in dup' => accepted'[x] > 0 \/ x \in invalid'
             /\ accepted'[x] > 0 => x \in submitting' \cup blocks' \cup refused'
  <2> DEFINE y == hand[s].share
  <2>1. y \in Shares /\ UNCHANGED <<blocks, refused>>
    BY <1>b, <1>2, RequestParts DEF SubmitJudges
  <2>2. CASE y \in dup
    BY <1>a, <1>2, <2>2 DEF SubmitJudges
  <2>3. CASE y \notin dup /\ ValidationFails(y)
    <3>1. dup' = dup \cup {y} /\ UNCHANGED <<accepted, submitting>> /\ invalid' = invalid \cup {y}
      BY <1>2, <2>3 DEF SubmitJudges, ValidationFails
    <3> QED BY <1>a, <2>1, <3>1
  <2>4. CASE y \notin dup /\ Judge(y, hand[s].diff)
    <3>1. /\ dup' = dup \cup {y} /\ invalid' = invalid
          /\ accepted' = [accepted EXCEPT ![y] =
                            @ + IF y.q >= hand[s].diff \/ IsBlock(y) THEN 1 ELSE 0]
          /\ submitting' = IF IsBlock(y) THEN submitting \cup {y} ELSE submitting
      BY <1>2, <2>4 DEF SubmitJudges, Judge
    <3>2. CASE x = y
      <4>1. accepted'[x] = accepted[x] + 1 /\ x \in submitting'
        BY <1>b, <3>1, <3>2
      <4> QED BY <1>b, <4>1
    <3>3. CASE x # y
      <4>1. accepted'[x] = accepted[x] /\ (x \in dup' => x \in dup)
            /\ submitting \subseteq submitting'
        BY <1>b, <3>1, <3>3
      <4> QED BY <1>a, <2>1, <3>1, <4>1
    <3> QED BY <3>2, <3>3
  <2>5. y \in dup \/ ValidationFails(y) \/ Judge(y, hand[s].diff)
    BY <1>2 DEF SubmitJudges
  <2> QED BY <2>2, <2>3, <2>4, <2>5
<1>3. ASSUME NEW y \in Shares, SubmitBlock(y)
      PROVE  /\ x \in dup' => accepted'[x] > 0 \/ x \in invalid'
             /\ accepted'[x] > 0 => x \in submitting' \cup blocks' \cup refused'
  BY <1>a, <1>3 DEF SubmitBlock
<1>4. CASE UNCHANGED <<dup, accepted, invalid, blockVars>>
  BY <1>a, <1>4
<1> QED
  BY <1>1, <1>2, <1>3, <1>4
  DEF Next, Broadcast, Connection, Vardiff, Subscribe, Reconnect, Authorize, AuthorizeStores,
      AuthorizeTells, AuthorizeNotifies, MinerSends, SubmitFinds, SubmitRefused,
      RetargetComputes, RetargetStores, RetargetTells, GraceEnds, vars

----------------------------------------------------------------------------
(***************************************************************************)
(* Miners have the current job.                                            *)
(***************************************************************************)

\* No job is told or read before it is built; the one an authorize has read is
\* current, unless a broadcast is still to come to the session or came since.
JobsAreKnown ==
  \A s \in Sessions :
    /\ work[s] <= counter
    /\ hand[s].step = "jobRead" =>
         /\ hand[s].job <= counter
         /\ s \notin targets => hand[s].job = counter \/ raced[s]

JobsInv == JobsAreKnown /\ MinersHaveCurrentJob

\* Whatever replaces the job starts a broadcast to every session; one that comes
\* to a session is the current job, and an authorize that read before it is raced.
LEMMA JobsStep == Types /\ Types' /\ Known /\ JobsInv /\ [Next]_vars => JobsInv'
<1> SUFFICES ASSUME Types, Types', Known, JobsInv, [Next]_vars PROVE JobsInv'
  OBVIOUS
<1> USE DEF JobsInv, JobsAreKnown, MinersHaveCurrentJob, jobVars, workVars, idVars
<1>a. /\ hand \in [Sessions -> Requests] /\ auth \in [Sessions -> BOOLEAN]
      /\ work \in [Sessions -> 0..MaxJobs] /\ raced \in [Sessions -> BOOLEAN]
      /\ counter \in Nat /\ \A s \in Sessions : work[s] \in Nat
  BY StratumAssumption DEF Types
<1>b. \A s \in Sessions : hand[s].step = "jobRead" => hand[s].job \in Nat
  BY <1>a, RequestParts, StratumAssumption
<1>1. CASE Poll
  <2>1. counter' = counter + 1 /\ targets' = Sessions /\ UNCHANGED <<hand, work, raced, auth>>
    BY <1>1 DEF Poll
  <2> QED BY <1>a, <1>b, <2>1
<1>2. ASSUME NEW s \in Sessions, Broadcast(s) PROVE JobsInv'
  <2>1. UNCHANGED <<counter, hand, auth>> /\ targets' = targets \ {s}
    BY <1>2 DEF Broadcast
  <2>2. CASE en1[s] > 0
    <3>1. work' = [work EXCEPT ![s] = counter]
          /\ raced' = [raced EXCEPT ![s] = (hand[s].step = "jobRead")]
      BY <1>2, <2>2 DEF Broadcast
    <3>2. work'[s] = counter /\ (hand[s].step = "jobRead" => raced'[s])
      BY <1>a, <3>1
    <3>3. \A t \in Sessions : t # s => work'[t] = work[t] /\ raced'[t] = raced[t]
      BY <1>a, <3>1
    <3> QED BY <1>a, <2>1, <3>2, <3>3
  <2>3. CASE ~(en1[s] > 0)
    <3>1. UNCHANGED <<work, raced>>
      BY <1>2, <2>3 DEF Broadcast
    <3>2. ~auth[s]
      BY <2>3 DEF Known
    <3>3. hand[s].step # "jobRead"
      BY <3>2 DEF Known
    <3> QED BY <1>a, <2>1, <3>1, <3>2, <3>3
  <2> QED BY <2>2, <2>3
<1>3. ASSUME NEW s \in Sessions, Reconnect(s) PROVE JobsInv'
  <2>1. /\ hand' = [hand EXCEPT ![s] = Idle] /\ auth' = [auth EXCEPT ![s] = FALSE]
        /\ work' = [work EXCEPT ![s] = 0] /\ raced' = [raced EXCEPT ![s] = FALSE]
        /\ targets' = targets \ {s} /\ UNCHANGED counter
    BY <1>3 DEF Reconnect, Becomes
  <2>2. \A t \in Sessions : t # s =>
          /\ hand'[t] = hand[t] /\ auth'[t] = auth[t] /\ work'[t] = work[t]
          /\ raced'[t] = raced[t] /\ (t \notin targets' => t \notin targets)
    BY <1>a, <2>1
  <2>3. hand'[s].step = "idle" /\ ~auth'[s] /\ work'[s] = 0
    BY <1>a, <2>1 DEF Idle
  <2> QED BY <1>a, <2>1, <2>2, <2>3
<1>4. ASSUME NEW s \in Sessions, Authorize(s) PROVE JobsInv'
  <2>1. /\ auth' = [auth EXCEPT ![s] = TRUE] /\ UNCHANGED <<counter, targets, work, raced>>
        /\ hand' = [hand EXCEPT ![s] = [step |-> "diffRead", diff |-> diff[s]]]
    BY <1>4 DEF Authorize, Becomes
  <2> QED BY <1>a, <2>1
<1>5. ASSUME NEW s \in Sessions, AuthorizeStores(s) PROVE JobsInv'
  <2>1. /\ UNCHANGED <<counter, targets, work, raced, auth>>
        /\ hand' = [hand EXCEPT ![s] = [step |-> "diffSet", diff |-> hand[s].diff]]
    BY <1>5 DEF AuthorizeStores, Becomes
  <2> QED BY <1>a, <2>1
<1>6. ASSUME NEW s \in Sessions, AuthorizeTells(s) PROVE JobsInv'
  <2>1. /\ UNCHANGED <<counter, targets, work, raced, auth>>
        /\ hand' = [hand EXCEPT ![s] = [step |-> "jobRead", job |-> counter]]
    BY <1>6 DEF AuthorizeTells, Becomes
  <2> QED BY <1>a, <2>1
<1>7. ASSUME NEW s \in Sessions, AuthorizeNotifies(s) PROVE JobsInv'
  <2>1. /\ hand[s].step = "jobRead" /\ UNCHANGED <<counter, targets, raced, auth>>
        /\ hand' = [hand EXCEPT ![s] = Idle]
    BY <1>7 DEF AuthorizeNotifies, Becomes
  <2>2. \/ work'[s] = hand[s].job /\ (\A t \in Sessions : t # s => work'[t] = work[t])
        \/ hand[s].job = 0 /\ work' = work
    <3>1. CASE hand[s].job > 0
      <4>1. work' = [work EXCEPT ![s] = hand[s].job]
        BY <1>7, <3>1 DEF AuthorizeNotifies
      <4> QED BY <1>a, <4>1
    <3>2. CASE ~(hand[s].job > 0)
      <4>1. work' = work
        BY <1>7, <3>2 DEF AuthorizeNotifies
      <4> QED BY <1>b, <2>1, <3>2, <4>1
    <3> QED BY <3>1, <3>2
  <2>3. hand'[s].step = "idle" /\ \A t \in Sessions : t # s => hand'[t] = hand[t]
    BY <1>a, <2>1 DEF Idle
  <2>4. ASSUME NEW t \in Sessions, t # s
        PROVE  /\ work'[t] <= counter' /\ work'[t] = work[t] /\ hand'[t] = hand[t]
               /\ raced'[t] = raced[t] /\ auth'[t] = auth[t]
    BY <1>a, <2>1, <2>2, <2>3, <2>4
  <2>5. work'[s] <= counter /\ (s \notin targets => work'[s] = counter \/ raced[s])
    BY <1>a, <1>b, <2>1, <2>2
  <2> QED BY <2>1, <2>3, <2>4, <2>5
<1>8. ASSUME NEW s \in Sessions, hand[s].step \in {"idle", "sent"},
             UNCHANGED <<counter, targets, work, raced, auth>>,
             NEW r, r.step \in {"sent", "found"}, hand' = [hand EXCEPT ![s] = r]
      PROVE  JobsInv'
  BY <1>a, <1>8
<1>12. ASSUME NEW s \in Sessions, MinerSends(s) PROVE JobsInv'
  <2>1. PICK j \in 1..counter, q \in Qualities :
          hand' = [hand EXCEPT ![s] =
            [step |-> "sent", share |-> [job |-> j, en1 |-> en1[s], q |-> q],
             met |-> told[s] <= q]]
    BY <1>12, Zenon DEF MinerSends, Becomes
  <2>2. UNCHANGED <<counter, targets, work, raced, auth>> /\ hand[s].step \in {"idle", "sent"}
    BY <1>12 DEF MinerSends, Idle
  <2> QED BY <1>8, <2>1, <2>2
<1>13. ASSUME NEW s \in Sessions, SubmitFinds(s) PROVE JobsInv'
  <2>1. UNCHANGED <<counter, targets, work, raced, auth>> /\ hand[s].step \in {"idle", "sent"}
    BY <1>13 DEF SubmitFinds
  <2> QED BY <1>8, <1>13, <2>1 DEF SubmitFinds, Becomes
<1>9. ASSUME NEW s \in Sessions, SubmitRefused(s) \/ SubmitJudges(s) PROVE JobsInv'
  <2>1. /\ UNCHANGED <<counter, targets, work, raced, auth>>
        /\ hand[s].step \in {"sent", "found"} /\ hand' = [hand EXCEPT ![s] = Idle]
    BY <1>9 DEF SubmitRefused, SubmitJudges, Becomes
  <2> QED BY <1>a, <2>1 DEF Idle
<1>10. ASSUME NEW s \in Sessions, Subscribe(s) \/ Vardiff(s) PROVE JobsInv'
  <2>1. UNCHANGED <<counter, targets, work, raced, auth, hand>>
    BY <1>10 DEF Subscribe, Vardiff, RetargetComputes, RetargetStores, RetargetTells, GraceEnds
  <2> QED BY <2>1
<1>11. CASE UNCHANGED vars \/ \E x \in Shares : SubmitBlock(x)
  BY <1>11 DEF vars, SubmitBlock
<1> QED BY <1>1, <1>2, <1>3, <1>4, <1>5, <1>6, <1>7, <1>9, <1>10, <1>11, <1>12, <1>13
        DEF Next, Connection

----------------------------------------------------------------------------
(***************************************************************************)
(* The difficulty a miner was told counts.                                 *)
(***************************************************************************)

Stored(s) == Retargeting(s) /\ retarget.step = "stored"

\* Unless a retarget was stored in the middle of an authorize: an authorize holds
\* the session's difficulty, so does a retarget that is stored; the miner was told
\* it, or the previous one as long as a stored retarget has still to tell it; and
\* a share that met what its miner was told meets what it is judged by.
DiffOf(s) ==
  /\ Retargeting(s) /\ retarget.step = "computed" => ~grace[s]
  /\ ~mixed[s] /\ Authorizing(s) => hand[s].diff = diff[s]
  /\ ~mixed[s] /\ Stored(s) => retarget.diff = diff[s]
  /\ ~mixed[s] /\ auth[s] /\ ~Authorizing(s) =>
       \/ told[s] = diff[s]
       \/ Stored(s) /\ grace[s] /\ prev[s] > 0 /\ told[s] = prev[s]
  /\ ~mixed[s] /\ hand[s].step = "sent" /\ hand[s].met =>
       EffectiveDifficulty(s) <= hand[s].share.q
  /\ ~mixed[s] /\ hand[s].step = "found" /\ hand[s].met => hand[s].diff <= hand[s].share.q

DiffInv == \A s \in Sessions : DiffOf(s)

LEMMA DiffsAreNumbers == \A d \in Diffs : d \in Nat /\ d > 0
BY StratumAssumption

LEMMA Numbers ==
  ASSUME Types, NEW s \in Sessions
  PROVE  diff[s] \in Nat /\ diff[s] > 0 /\ prev[s] \in Nat /\ told[s] \in Nat
<1>1. diff[s] \in Diffs /\ prev[s] \in Diffs \cup {0} /\ told[s] \in Diffs \cup {0}
  BY DEF Types
<1> QED BY <1>1, DiffsAreNumbers

\* The effective difficulty is the lower of the last two within the window, and
\* the last one after it.
LEMMA EffectiveBounds ==
  ASSUME Types, NEW s \in Sessions
  PROVE  /\ EffectiveDifficulty(s) \in Nat /\ EffectiveDifficulty(s) <= diff[s]
         /\ ~grace[s] => EffectiveDifficulty(s) = diff[s]
         /\ grace[s] /\ prev[s] > 0 => EffectiveDifficulty(s) <= prev[s]
BY Numbers DEF EffectiveDifficulty

\* What the difficulties of a session depend on.
Same(t) ==
  /\ hand'[t] = hand[t] /\ auth'[t] = auth[t]
  /\ diff'[t] = diff[t] /\ prev'[t] = prev[t] /\ grace'[t] = grace[t]
  /\ told'[t] = told[t] /\ mixed'[t] = mixed[t]

\* A step that leaves a session alone keeps its part of the invariant, also when
\* the vardiff loop turns to or from another one.
LEMMA SameKeeps ==
  ASSUME NEW t \in Sessions, DiffOf(t), Same(t),
         retarget' = retarget \/ (~Retargeting(t) /\ ~Retargeting(t)')
  PROVE  DiffOf(t)'
<1>1. EffectiveDifficulty(t)' = EffectiveDifficulty(t) /\ Authorizing(t)' = Authorizing(t)
  BY DEF Same, EffectiveDifficulty, Authorizing
<1>2. CASE retarget' = retarget
  <2>1. Retargeting(t)' = Retargeting(t) /\ Stored(t)' = Stored(t)
    BY <1>2 DEF Retargeting, Stored
  <2> QED BY <1>1, <1>2, <2>1 DEF Same, DiffOf
<1>3. CASE ~Retargeting(t) /\ ~Retargeting(t)'
  <2>1. ~Stored(t) /\ ~Stored(t)'
    BY <1>3 DEF Stored
  <2> QED BY <1>1, <1>3, <2>1 DEF Same, DiffOf
<1> QED BY <1>2, <1>3

\* A retarget is stored once the grace of the one before is over, so that the lower
\* of two difficulties is never above what the miner was told; an authorize that
\* holds an older difficulty than the session's is mixed.
LEMMA DiffStep == Types /\ Types' /\ Known /\ DiffInv /\ [Next]_vars => DiffInv'
<1> SUFFICES ASSUME Types, Types', Known, DiffInv, [Next]_vars PROVE DiffInv'
  OBVIOUS
<1>a. /\ hand \in [Sessions -> Requests] /\ auth \in [Sessions -> BOOLEAN]
      /\ diff \in [Sessions -> Diffs] /\ prev \in [Sessions -> Diffs \cup {0}]
      /\ told \in [Sessions -> Diffs \cup {0}] /\ grace \in [Sessions -> BOOLEAN]
      /\ mixed \in [Sessions -> BOOLEAN] /\ Diffs \subseteq Nat \ {0}
  BY StratumAssumption DEF Types
<1>b. ASSUME NEW s \in Sessions, DiffOf(s)',
             \A t \in Sessions \ {s} : Same(t),
             retarget' = retarget \/
               (\A t \in Sessions \ {s} : ~Retargeting(t) /\ ~Retargeting(t)')
      PROVE  DiffInv'
  <2> SUFFICES ASSUME NEW t \in Sessions \ {s} PROVE DiffOf(t)'
    BY <1>b DEF DiffInv
  <2> QED BY <1>b, SameKeeps DEF DiffInv
<1>c. ASSUME \A t \in Sessions : Same(t), retarget' = retarget PROVE DiffInv'
  BY <1>c, SameKeeps DEF DiffInv
<1>1. CASE Poll
  BY <1>1, <1>c DEF Poll, diffVars, idVars, Same
<1>2. ASSUME NEW s \in Sessions, Broadcast(s) \/ Subscribe(s) PROVE DiffInv'
  BY <1>2, <1>c DEF Broadcast, Subscribe, diffVars, idVars, Same
<1>3. ASSUME NEW s \in Sessions, Reconnect(s) PROVE DiffInv'
  <2>1. \A t \in Sessions \ {s} : Same(t)
    BY <1>a, <1>3 DEF Reconnect, Becomes, Same
  <2>2. ~grace'[s] /\ ~auth'[s] /\ hand'[s] = Idle /\ ~Retargeting(s)'
    BY <1>a, <1>3 DEF Reconnect, Becomes, Retargeting
  <2>3. DiffOf(s)'
    BY <2>2 DEF DiffOf, Stored, Authorizing, Idle
  <2>4. retarget' = retarget \/
          (\A t \in Sessions \ {s} : ~Retargeting(t) /\ ~Retargeting(t)')
    BY <1>3 DEF Reconnect, Retargeting
  <2> QED BY <1>b, <2>1, <2>3, <2>4
<1>4. ASSUME NEW s \in Sessions, Authorize(s) PROVE DiffInv'
  <2>1. /\ hand' = [hand EXCEPT ![s] = [step |-> "diffRead", diff |-> diff[s]]]
        /\ auth' = [auth EXCEPT ![s] = TRUE]
        /\ UNCHANGED <<diff, prev, grace, told, mixed, retarget>>
    BY <1>4 DEF Authorize, Becomes, diffVars
  <2>2. \A t \in Sessions \ {s} : Same(t)
    BY <1>a, <2>1 DEF Same
  <2>3. hand'[s].step = "diffRead" /\ hand'[s].diff = diff'[s]
    BY <1>a, <2>1
  <2>4. DiffOf(s)'
    BY <2>1, <2>3 DEF DiffInv, DiffOf, Stored, Retargeting, Authorizing
  <2> QED BY <1>b, <2>1, <2>2, <2>4
<1>5. ASSUME NEW s \in Sessions, AuthorizeStores(s) PROVE DiffInv'
  <2>1. /\ hand[s].step = "diffRead"
        /\ hand' = [hand EXCEPT ![s] = [step |-> "diffSet", diff |-> hand[s].diff]]
        /\ diff' = [diff EXCEPT ![s] = hand[s].diff]
        /\ UNCHANGED <<auth, prev, grace, told, mixed, retarget>>
    BY <1>5 DEF AuthorizeStores, Becomes, idVars
  <2>2. \A t \in Sessions \ {s} : Same(t)
    BY <1>a, <2>1 DEF Same
  <2>3. hand'[s].step = "diffSet" /\ hand'[s].diff = diff'[s] /\ diff'[s] = hand[s].diff
    BY <1>a, <2>1
  <2>4. ~mixed[s] => diff'[s] = diff[s]
    BY <2>1, <2>3 DEF DiffInv, DiffOf, Authorizing
  <2>5. DiffOf(s)'
    BY <2>1, <2>3, <2>4 DEF DiffInv, DiffOf, Stored, Retargeting, Authorizing
  <2> QED BY <1>b, <2>1, <2>2, <2>5
<1>6. ASSUME NEW s \in Sessions, AuthorizeTells(s) PROVE DiffInv'
  <2>1. /\ hand[s].step = "diffSet"
        /\ hand' = [hand EXCEPT ![s] = [step |-> "jobRead", job |-> counter]]
        /\ told' = [told EXCEPT ![s] = hand[s].diff]
        /\ UNCHANGED <<auth, diff, prev, grace, mixed, retarget>>
    BY <1>6 DEF AuthorizeTells, Becomes, idVars
  <2>2. \A t \in Sessions \ {s} : Same(t)
    BY <1>a, <2>1 DEF Same
  <2>3. hand'[s].step = "jobRead" /\ told'[s] = hand[s].diff
    BY <1>a, <2>1
  <2>4. ~mixed[s] => told'[s] = diff[s]
    BY <2>1, <2>3 DEF DiffInv, DiffOf, Authorizing
  <2>5. DiffOf(s)'
    BY <2>1, <2>3, <2>4 DEF DiffInv, DiffOf, Stored, Retargeting, Authorizing
  <2> QED BY <1>b, <2>1, <2>2, <2>5
<1>7. ASSUME NEW s \in Sessions,
             \/ AuthorizeNotifies(s) \/ SubmitRefused(s) \/ SubmitJudges(s)
      PROVE  DiffInv'
  <2>1. /\ hand[s].step \in {"jobRead", "sent", "found"}
        /\ hand' = [hand EXCEPT ![s] = Idle]
        /\ UNCHANGED <<auth, diff, prev, grace, told, mixed, retarget>>
    BY <1>7 DEF AuthorizeNotifies, SubmitRefused, SubmitJudges, Becomes, idVars, diffVars
  <2>2. \A t \in Sessions \ {s} : Same(t)
    BY <1>a, <2>1 DEF Same
  <2>3. hand'[s].step = "idle"
    BY <1>a, <2>1 DEF Idle
  <2>4. DiffOf(s)'
    BY <2>1, <2>3 DEF DiffInv, DiffOf, Stored, Retargeting, Authorizing
  <2> QED BY <1>b, <2>1, <2>2, <2>4
<1>8. ASSUME NEW s \in Sessions, MinerSends(s) PROVE DiffInv'
  <2>1. PICK j \in 1..counter, q \in Qualities :
          hand' = [hand EXCEPT ![s] =
            [step |-> "sent", share |-> [job |-> j, en1 |-> en1[s], q |-> q],
             met |-> told[s] <= q]]
    BY <1>8, Zenon DEF MinerSends, Becomes
  <2>2. /\ hand[s].step = "idle" /\ auth[s]
        /\ UNCHANGED <<auth, diff, prev, grace, told, mixed, retarget>>
    BY <1>8 DEF MinerSends, Idle, idVars, diffVars
  <2>3. \A t \in Sessions \ {s} : Same(t)
    BY <1>a, <2>1, <2>2 DEF Same
  <2>4. /\ hand'[s].step = "sent" /\ hand'[s].share.q = q
        /\ hand'[s].met = (told[s] <= q)
    BY <1>a, <2>1
  <2>5. EffectiveDifficulty(s)' = EffectiveDifficulty(s)
    BY <2>2 DEF EffectiveDifficulty
  <2>6. ~mixed[s] => EffectiveDifficulty(s) <= told[s]
    <3>1. ~mixed[s] => told[s] = diff[s] \/ (grace[s] /\ prev[s] > 0 /\ told[s] = prev[s])
      <4>1. ~Authorizing(s) /\ DiffOf(s)
        BY <2>2 DEF DiffInv, Authorizing
      <4> QED BY <2>2, <4>1 DEF DiffOf
    <3>2. CASE told[s] = diff[s]
      BY <3>2, EffectiveBounds
    <3>3. CASE grace[s] /\ prev[s] > 0 /\ told[s] = prev[s]
      BY <3>3, EffectiveBounds
    <3> QED BY <3>1, <3>2, <3>3
  <2>7. ~mixed[s] /\ told[s] <= q => EffectiveDifficulty(s) <= q
    <3>1. EffectiveDifficulty(s) \in Nat /\ told[s] \in Nat /\ q \in Nat
      BY Numbers, EffectiveBounds, StratumAssumption
    <3> QED BY <2>6, <3>1
  <2>8. DiffOf(s)'
    BY <2>2, <2>4, <2>5, <2>7 DEF DiffInv, DiffOf, Stored, Retargeting, Authorizing
  <2> QED BY <1>b, <2>2, <2>3, <2>8
<1>9. ASSUME NEW s \in Sessions, SubmitFinds(s) PROVE DiffInv'
  <2>1. /\ hand[s].step = "sent"
        /\ hand' = [hand EXCEPT ![s] =
             [step |-> "found", share |-> hand[s].share, met |-> hand[s].met,
              diff |-> EffectiveDifficulty(s)]]
        /\ UNCHANGED <<auth, diff, prev, grace, told, mixed, retarget>>
    BY <1>9 DEF SubmitFinds, Becomes, idVars, diffVars
  <2>2. \A t \in Sessions \ {s} : Same(t)
    BY <1>a, <2>1 DEF Same
  <2>3. /\ hand'[s].step = "found" /\ hand'[s].share = hand[s].share
        /\ hand'[s].met = hand[s].met /\ hand'[s].diff = EffectiveDifficulty(s)
    BY <1>a, <2>1
  <2>4. DiffOf(s)'
    BY <2>1, <2>3 DEF DiffInv, DiffOf, Stored, Retargeting, Authorizing
  <2> QED BY <1>b, <2>1, <2>2, <2>4
<1>10. ASSUME NEW s \in Sessions, RetargetComputes(s) PROVE DiffInv'
  <2>1. PICK d \in Diffs : retarget' = [step |-> "computed", session |-> s, diff |-> d]
    BY <1>10 DEF RetargetComputes
  <2>2. /\ retarget = NoRetarget /\ ~grace[s]
        /\ UNCHANGED <<auth, diff, prev, grace, told, mixed, hand>>
    BY <1>10 DEF RetargetComputes, idVars, diffVars
  <2>3. \A t \in Sessions : Same(t)
    BY <2>2 DEF Same
  <2>4. \A t \in Sessions : ~Retargeting(t)
    BY <2>2 DEF Retargeting
  <2>5. ~Stored(s)' /\ \A t \in Sessions \ {s} : ~Retargeting(t)'
    BY <2>1 DEF Retargeting, Stored
  <2>6. EffectiveDifficulty(s)' = EffectiveDifficulty(s)
    BY <2>2 DEF EffectiveDifficulty
  <2>7. DiffOf(s)'
    BY <2>2, <2>4, <2>5, <2>6 DEF DiffInv, DiffOf, Stored, Authorizing
  <2> QED BY <1>b, <2>3, <2>4, <2>5, <2>7
<1>11. ASSUME NEW s \in Sessions, RetargetStores(s) PROVE DiffInv'
  <2>1. /\ Retargeting(s) /\ retarget.step = "computed"
        /\ prev' = [prev EXCEPT ![s] = diff[s]]
        /\ diff' = [diff EXCEPT ![s] = retarget.diff]
        /\ grace' = [grace EXCEPT ![s] = TRUE]
        /\ mixed' = [mixed EXCEPT ![s] = @ \/ Authorizing(s)]
        /\ retarget' = [step |-> "stored", session |-> s, diff |-> retarget.diff]
        /\ UNCHANGED <<auth, told, hand>>
    BY <1>11 DEF RetargetStores, idVars
  <2>2. \A t \in Sessions \ {s} : Same(t)
    BY <1>a, <2>1 DEF Same
  <2>3. \A t \in Sessions \ {s} : ~Retargeting(t) /\ ~Retargeting(t)'
    BY <2>1 DEF Retargeting
  <2>4. /\ prev'[s] = diff[s] /\ diff'[s] = retarget.diff /\ grace'[s]
        /\ retarget'.step = "stored" /\ retarget'.diff = diff'[s]
        /\ (~mixed'[s] => ~mixed[s] /\ ~Authorizing(s))
    BY <1>a, <2>1
  <2>5. EffectiveDifficulty(s)' <= EffectiveDifficulty(s)
    <3>1. EffectiveDifficulty(s) = diff[s]
      BY <2>1, EffectiveBounds DEF DiffInv, DiffOf
    <3>2. diff[s] \in Nat /\ diff[s] > 0 /\ diff'[s] \in Nat
      <4>1. diff'[s] \in Diffs
        BY DEF Types
      <4> QED BY <4>1, Numbers, DiffsAreNumbers
    <3> QED BY <2>4, <3>1, <3>2 DEF EffectiveDifficulty
  <2>6. ~mixed'[s] /\ hand[s].step = "sent" /\ hand[s].met =>
          EffectiveDifficulty(s)' <= hand[s].share.q
    <3> SUFFICES ASSUME ~mixed'[s], hand[s].step = "sent", hand[s].met
                 PROVE  EffectiveDifficulty(s)' <= hand[s].share.q
      OBVIOUS
    <3>1. EffectiveDifficulty(s) <= hand[s].share.q
      BY <2>4 DEF DiffInv, DiffOf
    <3>2. EffectiveDifficulty(s) \in Nat /\ hand[s].share.q \in Nat
      BY <1>a, EffectiveBounds, RequestParts, StratumAssumption DEF Shares
    <3>3. EffectiveDifficulty(s)' \in Nat
      <4>1. diff'[s] \in Diffs /\ prev'[s] \in Diffs \cup {0}
        BY DEF Types
      <4>2. diff'[s] \in Nat /\ prev'[s] \in Nat
        BY <4>1, DiffsAreNumbers
      <4> QED BY <4>2 DEF EffectiveDifficulty
    <3> QED BY <2>5, <3>1, <3>2, <3>3
  <2>7. ~mixed[s] /\ auth[s] /\ ~Authorizing(s) => told[s] = diff[s]
    BY <2>1 DEF DiffInv, DiffOf, Stored
  <2>8. diff[s] > 0
    BY Numbers
  <2>9. Stored(s)' /\ Authorizing(s)' = Authorizing(s)
    BY <2>1 DEF Stored, Retargeting, Authorizing, NoRetarget
  <2>10. ~mixed'[s] /\ hand[s].step = "found" /\ hand[s].met => hand[s].diff <= hand[s].share.q
    BY <2>4 DEF DiffInv, DiffOf
  <2>11. DiffOf(s)'
    BY <2>1, <2>4, <2>6, <2>7, <2>8, <2>9, <2>10 DEF DiffOf
  <2> QED BY <1>b, <2>2, <2>3, <2>11
<1>12. ASSUME NEW s \in Sessions, RetargetTells(s) PROVE DiffInv'
  <2>1. /\ Stored(s) /\ told' = [told EXCEPT ![s] = retarget.diff]
        /\ retarget' = NoRetarget
        /\ UNCHANGED <<auth, diff, prev, grace, mixed, hand>>
    BY <1>12 DEF RetargetTells, Stored, idVars
  <2>2. \A t \in Sessions \ {s} : Same(t)
    BY <1>a, <2>1 DEF Same
  <2>3. \A t \in Sessions \ {s} : ~Retargeting(t) /\ ~Retargeting(t)'
    BY <2>1 DEF Retargeting, Stored
  <2>4. told'[s] = retarget.diff /\ ~Retargeting(s)'
    BY <1>a, <2>1 DEF Retargeting
  <2>5. EffectiveDifficulty(s)' = EffectiveDifficulty(s)
    BY <2>1 DEF EffectiveDifficulty
  <2>6. DiffOf(s)'
    BY <2>1, <2>4, <2>5 DEF DiffInv, DiffOf, Stored, Authorizing
  <2> QED BY <1>b, <2>2, <2>3, <2>6
<1>13. ASSUME NEW s \in Sessions, GraceEnds(s) PROVE DiffInv'
  <2>1. /\ ~Retargeting(s) /\ hand[s].step # "sent"
        /\ grace' = [grace EXCEPT ![s] = FALSE]
        /\ UNCHANGED <<auth, diff, prev, told, mixed, hand, retarget>>
    BY <1>13 DEF GraceEnds, idVars
  <2>2. \A t \in Sessions \ {s} : Same(t)
    BY <1>a, <2>1 DEF Same
  <2>3. ~grace'[s] /\ ~Retargeting(s)'
    BY <1>a, <2>1 DEF Retargeting
  <2>4. DiffOf(s)'
    BY <2>1, <2>3 DEF DiffInv, DiffOf, Stored, Authorizing
  <2> QED BY <1>b, <2>1, <2>2, <2>4
<1>14. CASE UNCHANGED vars \/ \E x \in Shares : SubmitBlock(x)
  BY <1>14, <1>c DEF vars, SubmitBlock, diffVars, idVars, Same
<1> QED BY <1>1, <1>2, <1>3, <1>4, <1>5, <1>6, <1>7, <1>8, <1>9, <1>10, <1>11, <1>12,
           <1>13, <1>14 DEF Next, Connection, Vardiff

----------------------------------------------------------------------------
(***************************************************************************)
(* The theorems.                                                           *)
(***************************************************************************)
IInv ==
  /\ Types /\ LastOnes /\ Known
  /\ SharesAreKnown /\ AcceptedAreDup /\ BlocksAreSubmitted /\ JobsInv /\ DiffInv

LEMMA Inductive == Spec => []IInv
<1>1. Init => IInv
  <2> SUFFICES ASSUME Init PROVE IInv
    OBVIOUS
  <2> USE StratumAssumption DEF Init
  <2>1. Types
    <3>1. Idle \in Requests /\ NoRetarget \in Retargets
      BY DEF Requests, Retargets
    <3> QED BY <3>1 DEF Types
  <2>2. LastOnes /\ Known /\ SharesAreKnown /\ BlocksAreSubmitted
    BY DEF LastOnes, Known, SharesAreKnown, BlocksAreSubmitted, Idle
  <2>3. AcceptedAreDup
    BY DEF AcceptedAreDup
  <2>4. JobsInv
    BY DEF JobsInv, JobsAreKnown, MinersHaveCurrentJob, Idle
  <2>5. DiffInv
    BY DEF DiffInv, DiffOf, Stored, Retargeting, Authorizing, Idle
  <2> QED BY <2>1, <2>2, <2>3, <2>4, <2>5 DEF IInv
<1>2. IInv /\ [Next]_vars => IInv'
  <2> SUFFICES ASSUME IInv, [Next]_vars PROVE IInv'
    OBVIOUS
  <2>1. Types' /\ LastOnes'
    BY TypesStep DEF IInv
  <2> QED BY <2>1, KnownStep, AcceptedStep, BlocksStep, JobsStep, DiffStep DEF IInv
<1> QED BY <1>1, <1>2, PTL DEF Spec

\* Every variable keeps its type, and no more jobs are remembered than
\* maxRememberedJobs; for any number of sessions, jobs and difficulties.
THEOREM TypeCorrect == Spec => []TypeOK
<1>1. IInv => TypeOK
  <2> SUFFICES ASSUME IInv PROVE TypeOK
    OBVIOUS
  <2> USE StratumAssumption DEF IInv, Types
  <2>1. Cardinality(byID) <= MaxRemembered
    <3> DEFINE first == counter - MaxRemembered + 1
               last == first..counter
    <3>1. byID \subseteq last
      <4>1. \A j \in byID : j \in Int /\ j <= counter /\ j + MaxRemembered > counter
        BY DEF LastOnes
      <4> QED BY <4>1
    <3>2. IsFiniteSet(last) /\ Cardinality(last) = MaxRemembered
      <4>1. /\ first \in Int /\ counter \in Int /\ first <= counter
            /\ counter - first + 1 = MaxRemembered
        OBVIOUS
      <4> HIDE DEF first
      <4>2. IsFiniteSet(first..counter)
            /\ Cardinality(first..counter) = IF first > counter THEN 0 ELSE counter - first + 1
        BY <4>1, FS_Interval
      <4>3. ~(first > counter)
        BY <4>1
      <4> QED BY <4>1, <4>2, <4>3
    <3> HIDE DEF last
    <3> QED BY <3>1, <3>2, FS_Subset
  <2> QED BY <2>1 DEF TypeOK
<1> QED BY <1>1, Inductive, PTL

\* No share of a remembered job is accepted twice, whatever polls come between the
\* lookup of the job and the duplicate test.
THEOREM AcceptedOnceCorrect == Spec => []RememberedAcceptedOnce
<1>1. IInv => RememberedAcceptedOnce
  BY DEF IInv, AcceptedAreDup, RememberedAcceptedOnce
<1> QED BY <1>1, Inductive, PTL

\* A block in a duplicate set has been recorded, unless its validation ended in an
\* error; a recorded block is with the daemon or on its way to it, unless submitblock
\* ended in an error.
THEOREM SubmittedCorrect == Spec => []BlocksAreSubmitted
<1>1. IInv => BlocksAreSubmitted
  BY DEF IInv
<1> QED BY <1>1, Inductive, PTL

\* A miner whose authorize and broadcast are over works on the current job, unless
\* the broadcast came between the authorize's read of the job and its write.
THEOREM CurrentJobCorrect == Spec => []MinersHaveCurrentJob
<1>1. IInv => MinersHaveCurrentJob
  BY DEF IInv, JobsInv
<1> QED BY <1>1, Inductive, PTL

\* A share is judged by no higher difficulty than the one its miner was told when
\* it met it, unless a retarget was stored in the middle of an authorize.
THEOREM DifficultyCorrect == Spec => []ToldDifficultyCounts
<1>1. IInv => ToldDifficultyCounts
  BY DEF IInv, DiffInv, DiffOf, ToldDifficultyCounts
<1> QED BY <1>1, Inductive, PTL
=============================================================================
