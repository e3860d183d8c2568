----------------------------- MODULE Lifecycle -----------------------------
(***************************************************************************)
(* One pool's lifecycle (internal/pool): its state, the supervised loop,   *)
(* the drain timer, and the commands of PoolLifecycleManager, given by     *)
(* operators (admin API handlers and the command subscriber run them       *)
(* concurrently) and by main when the process shuts down.  Pools share     *)
(* nothing but the process's context, so one pool is enough.               *)
(*                                                                         *)
(* A command is split where it gives up Service.mu or waits.  The state    *)
(* hook, the maintenance message, lastError and the time stamps are texts  *)
(* nothing here reads and are left out; every pool has a poller.           *)
(***************************************************************************)
EXTENDS Naturals, FiniteSets

CONSTANTS
  Operators,     \* callers of the manager's commands
  main,          \* the process's own shutdown
  InitialStates, \* configured initial states; a pool not enabled is disabled
  MaxCommands    \* bound on the operators' commands in one behaviour

ASSUME LifecycleAssumption ==
  /\ main \notin Operators
  /\ InitialStates \subseteq {"active", "maintenance", "paused", "disabled"}
  /\ MaxCommands \in Nat

VARIABLES
  state,         \* Service.state
  loopCtx,       \* Service.loopCtx and loopCancel: the last context made
  cancelled,     \* contexts whose cancel function was called
  loop,          \* loop[c]: where the supervised loop started with c is
  arg,           \* arg[c]: the context its runOnce was called with
  loopWG,        \* Service.loopWG
  armed,         \* is Service.drainTimer set and running?
  reading,       \* drain timer callbacks about to read the state
  setting,       \* drain timer callbacks that have read "draining"
  ops,           \* what each caller is doing
  commands,      \* commands given so far
  stopping       \* is the parent context cancelled?

loopVars == <<loopCtx, cancelled, loop, arg, loopWG>>
timerVars == <<armed, reading, setting>>
callVars == <<ops, commands, stopping>>
vars == <<state, loopVars, timerVars, callVars>>

States == {"active", "draining", "maintenance", "paused", "disabled", "error"}
Callers == Operators \cup {main}

\* Every context is made by Start, StartPool or RestartPool.
Contexts == 1..(MaxCommands + 1)

LoopPlaces == {"none", "top", "running", "polling", "failed", "backoff",
               "retry", "ended"}
CallPlaces == {"idle", "stop", "wait", "activate", "resume", "start",
               "create", "arm"}
Commands == {"none", "StartPool", "StopPool", "DrainPool", "RestartPool",
             "Stop"}

Call(place, command) == [at |-> place, command |-> command]
Idle == Call("idle", "none")

(***************************************************************************)
(* The state machine of state.go.                                          *)
(***************************************************************************)
CanTransition(from, to) ==
  \/ from = to
  \/ to \in CASE from = "active" -> States
              [] from = "draining" -> States
              [] from = "maintenance" -> States
              [] from = "paused" -> States \ {"draining"}
              [] from = "disabled" -> {"active"}
              [] from = "error" -> States \ {"draining"}

RunsTemplatePolling == state \in {"active", "draining"}

\* setState: an illegal transition changes nothing.
SetState(to) == state' = IF CanTransition(state, to) THEN to ELSE state

TypeOK ==
  /\ state \in States
  /\ loopCtx \in Contexts \cup {0}
  /\ cancelled \subseteq Contexts
  /\ loop \in [Contexts -> LoopPlaces]
  /\ arg \in [Contexts -> Contexts \cup {0}]
  /\ loopWG \in Nat
  /\ armed \in BOOLEAN
  /\ reading \in Nat /\ setting \in Nat
  /\ ops \in [Callers -> [at : CallPlaces, command : Commands]]
  /\ commands \in 0..MaxCommands
  /\ stopping \in BOOLEAN

(***************************************************************************)
(* NewManager and Start: a pool that is not disabled gets its loop.        *)
(***************************************************************************)
Init ==
  /\ state \in InitialStates
  /\ loopCtx = IF state = "disabled" THEN 0 ELSE 1
  /\ loop = [c \in Contexts |-> IF c = loopCtx THEN "top" ELSE "none"]
  /\ arg = [c \in Contexts |-> 0]
  /\ loopWG = loopCtx
  /\ cancelled = {}
  /\ armed = FALSE /\ reading = 0 /\ setting = 0
  /\ ops = [o \in Callers |-> Idle]
  /\ commands = 0
  /\ stopping = FALSE

----------------------------------------------------------------------------
(***************************************************************************)
(* Commands.                                                               *)
(***************************************************************************)
GiveCommand(o) ==
  /\ ops[o] = Idle
  /\ commands < MaxCommands
  /\ commands' = commands + 1

GoTo(o, call) == ops' = [ops EXCEPT ![o] = call]

\* PausePool, ResumePool and PutPoolInMaintenance are one setState; one that
\* is refused changes nothing.
SetOnly(o) ==
  /\ GiveCommand(o)
  /\ \E to \in {"paused", "active", "maintenance"} :
       CanTransition(state, to) /\ state' = to
  /\ UNCHANGED <<loopVars, timerVars, ops, stopping>>

\* StartPool reads the state; a pool that is not disabled is only set active.
StartPool(o) ==
  /\ GiveCommand(o)
  /\ GoTo(o, Call(IF state = "disabled" THEN "activate" ELSE "resume", "StartPool"))
  /\ UNCHANGED <<state, loopVars, timerVars, stopping>>

\* StopPool and DisablePool.
StopPool(o) ==
  /\ GiveCommand(o)
  /\ SetState("disabled")
  /\ GoTo(o, Call("stop", "StopPool"))
  /\ UNCHANGED <<loopVars, timerVars, stopping>>

RestartPool(o) ==
  /\ GiveCommand(o)
  /\ GoTo(o, Call("stop", "RestartPool"))
  /\ UNCHANGED <<state, loopVars, timerVars, stopping>>

\* DrainPool: beginDrain, up to its lock for the timer.
DrainPool(o) ==
  /\ GiveCommand(o)
  /\ CanTransition(state, "draining")
  /\ state' = "draining"
  /\ GoTo(o, Call("arm", "DrainPool"))
  /\ UNCHANGED <<loopVars, timerVars, stopping>>

\* Mutant: a timer that is running is stopped and not replaced.
ArmOnce(o) ==
  /\ ops[o].at = "arm"
  /\ armed' = ~armed
  /\ GoTo(o, Idle)
  /\ UNCHANGED <<state, loopVars, reading, setting, commands, stopping>>

\* beginDrain: a running timer is stopped and replaced.
Arm(o) ==
  /\ ops[o].at = "arm"
  /\ armed' = TRUE
  /\ GoTo(o, Idle)
  /\ UNCHANGED <<state, loopVars, reading, setting, commands, stopping>>

\* A signal cancels the context all pools run under, and main stops them.
Shutdown ==
  /\ ~stopping
  /\ stopping' = TRUE
  /\ GoTo(main, Call("stop", "Stop"))
  /\ UNCHANGED <<state, loopVars, timerVars, commands>>

\* Mutant: the loop's context is not cancelled.
StopTimerOnly(o) ==
  /\ ops[o].at = "stop"
  /\ armed' = FALSE
  /\ GoTo(o, Call("wait", ops[o].command))
  /\ UNCHANGED <<state, loopVars, reading, setting, commands, stopping>>

\* stop: the timer is stopped and the last context cancelled.
StopLoop(o) ==
  /\ ops[o].at = "stop"
  /\ armed' = FALSE
  /\ cancelled' = cancelled \cup ({loopCtx} \ {0})
  /\ GoTo(o, Call("wait", ops[o].command))
  /\ UNCHANGED <<state, loopCtx, loop, arg, loopWG, reading, setting, commands, stopping>>

AfterStop(o) == IF ops[o].command = "RestartPool" THEN Call("activate", "RestartPool") ELSE Idle

\* Mutant: stop returns without waiting for the loop.
WaitNot(o) ==
  /\ ops[o].at = "wait"
  /\ GoTo(o, AfterStop(o))
  /\ UNCHANGED <<state, loopVars, timerVars, commands, stopping>>

\* stop: loopWG.Wait().
WaitForLoop(o) ==
  /\ ops[o].at = "wait"
  /\ loopWG = 0
  /\ GoTo(o, AfterStop(o))
  /\ UNCHANGED <<state, loopVars, timerVars, commands, stopping>>

\* StartPool and RestartPool set the pool active, from any state.
Activate(o) ==
  /\ ops[o].at \in {"activate", "resume"}
  /\ state' = "active"
  /\ GoTo(o, IF ops[o].at = "activate" THEN Call("start", ops[o].command) ELSE Idle)
  /\ UNCHANGED <<loopVars, timerVars, commands, stopping>>

\* start returns when the pool is disabled.
StartChecks(o) ==
  /\ ops[o].at = "start"
  /\ GoTo(o, IF state = "disabled" THEN Idle ELSE Call("create", ops[o].command))
  /\ UNCHANGED <<state, loopVars, timerVars, commands, stopping>>

NextContext(c) ==
  loop[c] = "none" /\ \A d \in Contexts : loop[d] = "none" => c <= d

\* Mutant: the loop is started without loopWG.Add.
CreateUncounted(o) ==
  /\ ops[o].at = "create"
  /\ \E c \in Contexts :
       /\ NextContext(c)
       /\ loopCtx' = c
       /\ loop' = [loop EXCEPT ![c] = "top"]
  /\ GoTo(o, Idle)
  /\ UNCHANGED <<state, cancelled, arg, loopWG, timerVars, commands, stopping>>

\* start: a new context replaces the old one and its cancel function.
StartCreates(o) ==
  /\ ops[o].at = "create"
  /\ \E c \in Contexts :
       /\ NextContext(c)
       /\ loopCtx' = c
       /\ loop' = [loop EXCEPT ![c] = "top"]
  /\ loopWG' = loopWG + 1
  /\ GoTo(o, Idle)
  /\ UNCHANGED <<state, cancelled, arg, timerVars, commands, stopping>>

----------------------------------------------------------------------------
(***************************************************************************)
(* The drain timer's callback: it reads the state, then sets it.           *)
(***************************************************************************)
TimerFires ==
  /\ armed
  /\ armed' = FALSE
  /\ reading' = reading + 1
  /\ UNCHANGED <<state, loopVars, setting, callVars>>

TimerReads ==
  /\ reading > 0
  /\ reading' = reading - 1
  /\ setting' = IF state = "draining" THEN setting + 1 ELSE setting
  /\ UNCHANGED <<state, loopVars, armed, callVars>>

TimerSets ==
  /\ setting > 0
  /\ setting' = setting - 1
  /\ SetState("maintenance")
  /\ UNCHANGED <<loopVars, armed, reading, callVars>>

----------------------------------------------------------------------------
(***************************************************************************)
(* The supervised loop.  superviseLoop looks at the field loopCtx, runOnce *)
(* at its argument.                                                        *)
(***************************************************************************)
Done(c) == c # 0 /\ (stopping \/ c \in cancelled)
Go(c, place) == loop' = [loop EXCEPT ![c] = place]
Keep == UNCHANGED <<loopCtx, cancelled, timerVars, callVars>>

LoopEnds(c) ==
  /\ loop[c] \in {"top", "failed", "backoff"}
  /\ Done(loopCtx)
  /\ Go(c, "ended")
  /\ loopWG' = loopWG - 1
  /\ UNCHANGED <<state, arg>> /\ Keep

RunOnce(c) ==
  /\ loop[c] = "top"
  /\ ~Done(loopCtx)
  /\ Go(c, "running")
  /\ arg' = [arg EXCEPT ![c] = loopCtx]
  /\ UNCHANGED <<state, loopWG>> /\ Keep

\* runOnce returns nil; its caller checks loopCtx twice and goes round.
RunReturns(c) ==
  /\ loop[c] = "running"
  /\ Done(arg[c])
  /\ Go(c, "top")
  /\ UNCHANGED <<state, arg, loopWG>> /\ Keep

\* Mutant: the tick polls in every state.
TickAlways(c) ==
  /\ loop[c] = "running"
  /\ Go(c, "polling")
  /\ UNCHANGED <<state, arg, loopWG>> /\ Keep

\* A tick.  In the other states the loop idles.
Tick(c) ==
  /\ loop[c] = "running"
  /\ RunsTemplatePolling
  /\ Go(c, "polling")
  /\ UNCHANGED <<state, arg, loopWG>> /\ Keep

\* Poll returns nil, or an error or a panic turned into one.
PollReturns(c) ==
  /\ loop[c] = "polling"
  /\ \E place \in {"running", "failed"} : Go(c, place)
  /\ UNCHANGED <<state, arg, loopWG>> /\ Keep

SetError(c) ==
  /\ loop[c] = "failed"
  /\ ~Done(loopCtx)
  /\ SetState("error")
  /\ Go(c, "backoff")
  /\ UNCHANGED <<arg, loopWG>> /\ Keep

\* Mutant: the loop runs again without leaving the error state.
RerunAfterBackoff(c) ==
  /\ loop[c] = "backoff"
  /\ Go(c, "top")
  /\ UNCHANGED <<state, arg, loopWG>> /\ Keep

\* The backoff has elapsed: the loop reads the state ...
BackoffEnds(c) ==
  /\ loop[c] = "backoff"
  /\ Go(c, IF state = "error" THEN "retry" ELSE "top")
  /\ UNCHANGED <<state, arg, loopWG>> /\ Keep

\* ... and sets it.
Retry(c) ==
  /\ loop[c] = "retry"
  /\ SetState("active")
  /\ Go(c, "top")
  /\ UNCHANGED <<arg, loopWG>> /\ Keep

----------------------------------------------------------------------------
Order(o) == SetOnly(o) \/ StartPool(o) \/ StopPool(o) \/ RestartPool(o) \/ DrainPool(o)

CallStep(o) ==
  \/ Arm(o) \/ StopLoop(o) \/ WaitForLoop(o)
  \/ Activate(o) \/ StartChecks(o) \/ StartCreates(o)

TimerStep == TimerFires \/ TimerReads \/ TimerSets

LoopStep(c) ==
  \/ LoopEnds(c) \/ RunOnce(c) \/ RunReturns(c) \/ Tick(c)
  \/ PollReturns(c) \/ SetError(c) \/ BackoffEnds(c) \/ Retry(c)

Next ==
  \/ \E o \in Operators : Order(o)
  \/ Shutdown
  \/ \E o \in Callers : CallStep(o)
  \/ TimerStep
  \/ \E c \in Contexts : LoopStep(c)

Spec == Init /\ [][Next]_vars

(***************************************************************************)
(* Calls, timers, polls and backoffs end: Poll's RPCs have a timeout.  A   *)
(* loop whose context is done leaves its select although the ticker is     *)
(* ready as often, because select chooses at random.  Nobody has to give   *)
(* a command and no poll has to fail.                                      *)
(***************************************************************************)
Fairness ==
  /\ \A o \in Callers : WF_vars(CallStep(o))
  /\ WF_vars(TimerFires) /\ WF_vars(TimerReads) /\ WF_vars(TimerSets)
  /\ \A c \in Contexts : WF_vars(LoopStep(c)) /\ SF_vars(RunReturns(c))

FairSpec == Spec /\ Fairness

----------------------------------------------------------------------------
Alive(c) == loop[c] \notin {"none", "ended"}

AllIdle == \A o \in Callers : ops[o] = Idle

\* Commands given one at a time never leave two loops of a pool running, and
\* a pool that was disabled, and that nothing has set to work since, has
\* none: stop waits for the loop (service.go, "stop cancels the loop and
\* waits for it to exit").
LoopsObeyCommands ==
  /\ \A c, d \in Contexts : Alive(c) /\ Alive(d) => c = d
  /\ state = "disabled" /\ AllIdle => \A c \in Contexts : ~Alive(c)

Parked == state \in {"paused", "maintenance", "disabled"}

\* Nobody but a caller has a decision pending that was made on an earlier
\* state: no poll in progress, no retry and no end of a drain.
Quiet ==
  /\ setting = 0
  /\ \A c \in Contexts : loop[c] \notin {"polling", "failed", "retry"}

\* A step of a caller, the beginning of a command included.
CommandStep == commands' # commands \/ ops' # ops

\* A pool an operator has paused, put in maintenance or disabled stays so
\* until the next command, unless the loop or the timer was in the middle of
\* something when the command came; and from a quiet moment on neither
\* begins anything (service.go, "Other states keep the loop alive but idle").
ParkedPoolsRest ==
  [][Parked /\ Quiet => CommandStep \/ (state' = state /\ Quiet')]_vars

\* A drained pool leaves the draining state, however often and with whatever
\* other commands drain is called (lifecycle.go, "then auto-advances to
\* maintenance"); after shutdown nothing matters.
DrainEnds == state = "draining" ~> state # "draining" \/ stopping

\* The pool's loop runs and has not been told to end.
LoopWorks == loopCtx # 0 /\ Alive(loopCtx) /\ ~Done(loopCtx)

\* A failing pool whose loop nobody stops comes back to another state, by its
\* own retry (state.go, "it retries on a backoff").  Without LoopWorks this
\* is false: a retry between the two steps of StopPool revives the pool, the
\* next poll may fail, and the loop is stopped in the error state.
ErrorRecovers ==
  state = "error" /\ LoopWorks ~> state # "error" \/ ~LoopWorks

\* Every command returns, and so does the shutdown: no stop waits for a loop
\* that nobody has told to end.
CommandsReturn == \A o \in Callers : ops[o] # Idle ~> ops[o] = Idle

\* What state.go says of an active pool, "accepts miners, sends jobs, accepts
\* shares, submits blocks": it has a loop, except in the middle of a command.
ActiveIsPolled ==
  state = "active" /\ AllIdle /\ ~stopping => \E c \in Contexts : Alive(c)
=============================================================================
