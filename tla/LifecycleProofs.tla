-------------------------- MODULE LifecycleProofs --------------------------
(***************************************************************************)
(* What is proved of Lifecycle: the types, among them that loopWG never    *)
(* goes below zero, and the rest of a parked pool, for any number of       *)
(* operators; and the obedience of the loops, for one operator.            *)
(***************************************************************************)
EXTENDS Lifecycle, TLAPS, FiniteSetTheorems

----------------------------------------------------------------------------
(***************************************************************************)
(* A parked pool rests.                                                    *)
(***************************************************************************)
Shape ==
  /\ loop \in [Contexts -> LoopPlaces]
  /\ setting \in Nat
  /\ commands \in Nat
  /\ ops \in [Callers -> [at : CallPlaces, command : Commands]]

\* The places of the loops stay places, and the number of callbacks that
\* have read "draining" stays a number, whatever the callers do.
LEMMA ShapeStep == Shape /\ [Next]_vars => Shape'
<1> SUFFICES ASSUME Shape, [Next]_vars PROVE Shape'
  OBVIOUS
<1> USE DEF Shape
<1>1. CASE \E o \in Operators : Order(o)
  BY <1>1 DEF Order, SetOnly, StartPool, StopPool, RestartPool, DrainPool, GiveCommand,
              GoTo, Call, CallPlaces, Commands, Callers, loopVars, timerVars
<1>2. CASE Shutdown
  BY <1>2 DEF Shutdown, GoTo, Call, CallPlaces, Commands, Callers, loopVars, timerVars
<1>3. ASSUME NEW o \in Callers, CallStep(o) PROVE Shape'
  <2> USE DEF GoTo, Call, Idle, CallPlaces, Commands
  <2>1. CASE StartCreates(o)
    BY <2>1 DEF StartCreates, timerVars, LoopPlaces
  <2>2. CASE StopLoop(o)
    BY <2>2 DEF StopLoop
  <2>3. CASE WaitForLoop(o)
    BY <2>3 DEF WaitForLoop, AfterStop, loopVars, timerVars
  <2>4. CASE Activate(o)
    BY <2>4 DEF Activate, loopVars, timerVars
  <2>5. CASE Arm(o) \/ StartChecks(o)
    BY <2>5 DEF Arm, StartChecks, loopVars, timerVars
  <2> QED BY <1>3, <2>1, <2>2, <2>3, <2>4, <2>5 DEF CallStep
<1>4. CASE TimerStep
  BY <1>4 DEF TimerStep, TimerFires, TimerReads, TimerSets, loopVars, callVars
<1>5. ASSUME NEW c \in Contexts, LoopStep(c) PROVE Shape'
  BY <1>5 DEF LoopStep, LoopEnds, RunOnce, RunReturns, Tick, PollReturns, SetError,
              BackoffEnds, Retry, Go, Keep, LoopPlaces, timerVars, callVars
<1>6. CASE UNCHANGED vars
  BY <1>6 DEF vars, loopVars, timerVars, callVars
<1> QED BY <1>1, <1>2, <1>3, <1>4, <1>5, <1>6 DEF Next

\* From a quiet moment on only a command changes a pool that is paused, in
\* maintenance or disabled, and nothing but a command makes it unquiet.
LEMMA RestStep ==
  Shape /\ [Next]_vars /\ Parked /\ Quiet =>
    CommandStep \/ (state' = state /\ Quiet')
<1> SUFFICES ASSUME Shape, [Next]_vars, Parked, Quiet,
                    commands' = commands, ops' = ops
             PROVE  state' = state /\ Quiet'
  BY DEF CommandStep
<1> USE DEF Shape
<1>1. ASSUME NEW o \in Operators, Order(o) PROVE FALSE
  <2>1. commands' = commands + 1 /\ commands < MaxCommands
    BY <1>1 DEF Order, SetOnly, StartPool, StopPool, RestartPool, DrainPool, GiveCommand
  <2> QED BY <2>1
<1>2. CASE Shutdown
  BY <1>2 DEF Shutdown, Quiet, loopVars, timerVars
<1>3. ASSUME NEW o \in Callers, CallStep(o) PROVE state' = state /\ Quiet'
  <2>1. CASE StartCreates(o)
    BY <2>1 DEF StartCreates, Quiet, timerVars
  <2>2. CASE StopLoop(o)
    BY <2>2 DEF StopLoop, Quiet
  <2>3. CASE WaitForLoop(o) \/ StartChecks(o)
    BY <2>3 DEF WaitForLoop, StartChecks, Quiet, loopVars, timerVars
  <2>4. CASE Arm(o)
    BY <2>4 DEF Arm, Quiet, loopVars
  <2>5. CASE Activate(o)
    BY <2>5 DEF Activate, GoTo, Call, Idle
  <2> QED BY <1>3, <2>1, <2>2, <2>3, <2>4, <2>5 DEF CallStep
<1>4. CASE TimerStep
  BY <1>4 DEF TimerStep, TimerFires, TimerReads, TimerSets, Parked, Quiet, loopVars
<1>5. ASSUME NEW c \in Contexts, LoopStep(c) PROVE state' = state /\ Quiet'
  <2>1. setting' = setting
    BY <1>5 DEF LoopStep, LoopEnds, RunOnce, RunReturns, Tick, PollReturns, SetError,
                BackoffEnds, Retry, Keep, timerVars
  <2>2. ASSUME NEW place \in LoopPlaces, place \notin {"polling", "failed", "retry"},
               Go(c, place), state' = state
        PROVE  state' = state /\ Quiet'
    BY <2>1, <2>2 DEF Go, Quiet
  <2>3. CASE LoopEnds(c) \/ RunOnce(c) \/ RunReturns(c)
    BY <2>2, <2>3 DEF LoopEnds, RunOnce, RunReturns, LoopPlaces
  <2>4. CASE BackoffEnds(c)
    BY <2>2, <2>4 DEF BackoffEnds, LoopPlaces, Parked
  <2>5. CASE Tick(c)
    BY <2>5 DEF Tick, RunsTemplatePolling, Parked
  <2>6. CASE PollReturns(c) \/ SetError(c) \/ Retry(c)
    BY <2>6 DEF PollReturns, SetError, Retry, Quiet
  <2> QED BY <1>5, <2>3, <2>4, <2>5, <2>6 DEF LoopStep
<1>6. CASE UNCHANGED vars
  BY <1>6 DEF vars, Quiet, loopVars, timerVars
<1> QED BY <1>1, <1>2, <1>3, <1>4, <1>5, <1>6 DEF Next

\* A pool that an operator has paused, put in maintenance or disabled stays so
\* until the next command, if neither the loop nor the timer was in the middle
\* of something; for any number of operators and commands.
THEOREM ParkedCorrect == Spec => ParkedPoolsRest
<1>1. Init => Shape
  BY DEF Init, Shape, LoopPlaces, Idle, Call, CallPlaces, Commands
<1>2. Shape /\ [Next]_vars =>
        [Parked /\ Quiet => CommandStep \/ (state' = state /\ Quiet')]_vars
  BY RestStep
<1> QED BY <1>1, <1>2, ShapeStep, PTL DEF Spec, ParkedPoolsRest

----------------------------------------------------------------------------
(***************************************************************************)
(* The types, for any number of operators.                                 *)
(***************************************************************************)
Live == {c \in Contexts : Alive(c)}

\* loopWG counts the loops, however many overlapping commands have started.
TypeInv ==
  /\ Shape
  /\ state \in States
  /\ loopCtx \in Contexts \cup {0}
  /\ cancelled \subseteq Contexts
  /\ arg \in [Contexts -> Contexts \cup {0}]
  /\ loopWG = Cardinality(Live)
  /\ armed \in BOOLEAN
  /\ reading \in Nat
  /\ commands \in 0..MaxCommands
  /\ stopping \in BOOLEAN

LEMMA LiveFinite ==
  /\ IsFiniteSet(Contexts)
  /\ \A S \in SUBSET Contexts : IsFiniteSet(S) /\ Cardinality(S) \in Nat
<1>1. IsFiniteSet(Contexts)
  BY LifecycleAssumption, FS_Interval DEF Contexts
<1> QED BY <1>1, FS_Subset, FS_CardinalityType

\* A step that starts a loop, ends one or does neither.
LEMMA LiveStep ==
  ASSUME Shape, NEW c \in Contexts, NEW place, loop' = [loop EXCEPT ![c] = place]
  PROVE  /\ ~Alive(c) /\ place \notin {"none", "ended"} =>
              Cardinality(Live') = Cardinality(Live) + 1
         /\ Alive(c) /\ place \in {"none", "ended"} =>
              Cardinality(Live') = Cardinality(Live) - 1 /\ Cardinality(Live) > 0
         /\ Alive(c) /\ place \notin {"none", "ended"} => Live' = Live
<1>1. \A d \in Contexts : loop'[d] = IF d = c THEN place ELSE loop[d]
  BY DEF Shape
<1>2. IsFiniteSet(Live) /\ Cardinality(Live) \in Nat
  BY LiveFinite DEF Live
<1>3. ~Alive(c) /\ place \notin {"none", "ended"} => c \notin Live /\ Live' = Live \cup {c}
  BY <1>1 DEF Live, Alive
<1>4. Alive(c) /\ place \in {"none", "ended"} => c \in Live /\ Live' = Live \ {c}
  BY <1>1 DEF Live, Alive
<1>5. Alive(c) /\ place \notin {"none", "ended"} => Live' = Live
  BY <1>1 DEF Live, Alive
<1>6. c \notin Live => Cardinality(Live \cup {c}) = Cardinality(Live) + 1
  BY <1>2, FS_AddElement
<1>7. c \in Live => Cardinality(Live \ {c}) = Cardinality(Live) - 1 /\ Cardinality(Live) # 0
  BY <1>2, FS_RemoveElement, FS_EmptySet
<1>8. Cardinality(Live) # 0 => Cardinality(Live) > 0
  BY <1>2
<1> QED BY <1>3, <1>4, <1>5, <1>6, <1>7, <1>8

LEMMA TypeStep == TypeInv /\ [Next]_vars => TypeInv'
<1> SUFFICES ASSUME TypeInv, [Next]_vars PROVE TypeInv'
  OBVIOUS
<1>1. Shape /\ Shape'
  BY ShapeStep DEF TypeInv
<1> USE <1>1 DEF TypeInv
<1>2. loop' = loop => Live' = Live
  BY DEF Live, Alive
<1>3. \A to \in States : SetState(to) => state' \in States
  BY DEF SetState
<1>4. {"active", "draining", "maintenance", "paused", "disabled", "error"} \subseteq States
  BY DEF States
<1>5. ASSUME NEW o \in Operators, Order(o) PROVE TypeInv'
  <2>1. UNCHANGED <<loopVars, timerVars, stopping>>
    BY <1>5 DEF Order, SetOnly, StartPool, StopPool, RestartPool, DrainPool
  <2>2. commands' \in 0..MaxCommands
    BY <1>5, LifecycleAssumption
       DEF Order, SetOnly, StartPool, StopPool, RestartPool, DrainPool, GiveCommand
  <2>3. state' \in States
    BY <1>3, <1>4, <1>5 DEF Order, SetOnly, StartPool, StopPool, RestartPool, DrainPool
  <2> QED BY <1>2, <2>1, <2>2, <2>3 DEF loopVars, timerVars
<1>6. CASE Shutdown
  BY <1>2, <1>6 DEF Shutdown, loopVars, timerVars
<1>7. ASSUME NEW o \in Callers, CallStep(o) PROVE TypeInv'
  <2>1. CASE StartCreates(o)
    <3>1. PICK c \in Contexts : /\ NextContext(c) /\ loopCtx' = c
                               /\ loop' = [loop EXCEPT ![c] = "top"]
      BY <2>1 DEF StartCreates
    <3>2. ~Alive(c)
      BY <3>1 DEF NextContext, Alive
    <3>3. loopWG' = Cardinality(Live')
      BY <2>1, <3>1, <3>2, LiveStep DEF StartCreates
    <3> QED BY <2>1, <3>1, <3>3 DEF StartCreates, timerVars
  <2>2. CASE StopLoop(o)
    BY <1>2, <2>2 DEF StopLoop
  <2>3. CASE WaitForLoop(o) \/ StartChecks(o) \/ Arm(o)
    BY <1>2, <2>3 DEF WaitForLoop, StartChecks, Arm, loopVars, timerVars
  <2>4. CASE Activate(o)
    BY <1>2, <1>4, <2>4 DEF Activate, loopVars, timerVars
  <2> QED BY <1>7, <2>1, <2>2, <2>3, <2>4 DEF CallStep
<1>8. CASE TimerStep
  <2>1. UNCHANGED <<loopVars, callVars>>
    BY <1>8 DEF TimerStep, TimerFires, TimerReads, TimerSets
  <2>2. armed' \in BOOLEAN
    BY <1>8 DEF TimerStep, TimerFires, TimerReads, TimerSets
  <2>3. reading' \in Nat
    BY <1>8 DEF TimerStep, TimerFires, TimerReads, TimerSets
  <2>4. state' \in States
    BY <1>3, <1>4, <1>8 DEF TimerStep, TimerFires, TimerReads, TimerSets
  <2> QED BY <1>2, <2>1, <2>2, <2>3, <2>4 DEF loopVars, callVars
<1>9. ASSUME NEW c \in Contexts, LoopStep(c) PROVE TypeInv'
  <2>1. UNCHANGED <<loopCtx, cancelled, timerVars, callVars>>
    BY <1>9 DEF LoopStep, LoopEnds, RunOnce, RunReturns, Tick, PollReturns, SetError,
                BackoffEnds, Retry, Keep
  <2>2. arg' \in [Contexts -> Contexts \cup {0}]
    BY <1>9 DEF LoopStep, LoopEnds, RunOnce, RunReturns, Tick, PollReturns, SetError,
                BackoffEnds, Retry
  <2>3. state' \in States
    BY <1>3, <1>4, <1>9 DEF LoopStep, LoopEnds, RunOnce, RunReturns, Tick, PollReturns,
                            SetError, BackoffEnds, Retry
  <2>4. loopWG' = Cardinality(Live')
    <3>1. Alive(c)
      BY <1>9 DEF LoopStep, LoopEnds, RunOnce, RunReturns, Tick, PollReturns, SetError,
                  BackoffEnds, Retry, Alive
    <3>2. CASE LoopEnds(c)
      BY <3>1, <3>2, LiveStep DEF LoopEnds, Go
    <3>3. CASE ~LoopEnds(c)
      <4>1. PICK place : Go(c, place) /\ place \notin {"none", "ended"} /\ loopWG' = loopWG
        BY <1>9, <3>3 DEF LoopStep, RunOnce, RunReturns, Tick, PollReturns, SetError,
                          BackoffEnds, Retry
      <4> QED BY <3>1, <4>1, LiveStep DEF Go
    <3> QED BY <3>2, <3>3
  <2> QED BY <2>1, <2>2, <2>3, <2>4 DEF timerVars, callVars
<1>10. CASE UNCHANGED vars
  BY <1>2, <1>10 DEF vars, loopVars, timerVars, callVars
<1> QED BY <1>5, <1>6, <1>7, <1>8, <1>9, <1>10 DEF Next

LEMMA TypeInit == Init => TypeInv
<1> SUFFICES ASSUME Init PROVE TypeInv
  OBVIOUS
<1>1. 1 \in Contexts /\ 0 \notin Contexts
  BY LifecycleAssumption DEF Contexts
<1>2. Shape
  BY DEF Init, Shape, LoopPlaces, Idle, Call, CallPlaces, Commands
<1>3. state \in States
  BY LifecycleAssumption DEF Init, States
<1>4. loopWG = Cardinality(Live)
  <2>1. CASE loopCtx = 0
    <3>1. Live = {}
      BY <1>1, <2>1 DEF Init, Live, Alive
    <3> QED BY <2>1, <3>1, FS_EmptySet DEF Init
  <2>2. CASE loopCtx = 1
    <3>1. Live = {1}
      BY <1>1, <2>2 DEF Init, Live, Alive
    <3> QED BY <2>2, <3>1, FS_Singleton DEF Init
  <2> QED BY <2>1, <2>2 DEF Init
<1>5. loopCtx \in Contexts \cup {0} /\ arg \in [Contexts -> Contexts \cup {0}]
  BY <1>1 DEF Init
<1>6. commands \in 0..MaxCommands
  BY LifecycleAssumption DEF Init
<1> QED BY <1>2, <1>3, <1>4, <1>5, <1>6 DEF Init, TypeInv

\* For any number of operators, whose commands may overlap: the states and
\* places are those of the code, and loopWG, which every loop decrements once
\* when it ends (superviseLoop, service.go:161), never goes below zero, where
\* sync.WaitGroup panics.
THEOREM TypeCorrect == Spec => []TypeOK
<1>1. TypeInv => TypeOK
  <2> SUFFICES ASSUME TypeInv PROVE TypeOK
    OBVIOUS
  <2>1. loopWG \in Nat
    BY LiveFinite DEF TypeInv, Live
  <2> QED BY <2>1 DEF TypeInv, Shape, TypeOK
<1> QED BY <1>1, TypeInit, TypeStep, PTL DEF Spec

----------------------------------------------------------------------------
(***************************************************************************)
(* The loops obey the commands of one operator.                            *)
(***************************************************************************)
NoLoop == \A c \in Contexts : ~Alive(c)
OneLoop == \A c, d \in Contexts : Alive(c) /\ Alive(d) => c = d

\* loopWG counts the loops.
Counted == (NoLoop /\ loopWG = 0) \/ (~NoLoop /\ loopWG = 1)

\* Whether a loop may run depends on where operator a is in a command: none
\* does between its wait and its start, and none in a disabled pool unless a
\* is about to stop it.  main only stops.
Obedience(a) ==
  /\ ops[a].at \in {"activate", "start", "create"} => NoLoop
  /\ ops[a].at = "create" => state # "disabled"
  /\ state = "disabled" => NoLoop \/ ops[a].at \in {"stop", "wait"}
  /\ ops[main].at \in {"idle", "stop", "wait"}
  /\ ops[main].command # "RestartPool"

LoopInv(a) == Shape /\ OneLoop /\ Counted /\ Obedience(a)

\* Initially there is one loop, or none in a disabled pool.
LEMMA LoopInit ==
  ASSUME NEW CONSTANT a, Operators = {a}
  PROVE  Init => LoopInv(a)
<1> SUFFICES ASSUME Init PROVE LoopInv(a)
  OBVIOUS
<1>1. Shape
  BY DEF Init, Shape, LoopPlaces, Idle, Call, CallPlaces, Commands
<1>2. 1 \in Contexts /\ 0 \notin Contexts
  BY LifecycleAssumption DEF Contexts
<1>3. OneLoop
  BY DEF Init, OneLoop, Alive
<1>4. Counted
  BY <1>2 DEF Init, Counted, NoLoop, Alive
<1>5. Obedience(a)
  BY <1>2 DEF Init, Obedience, NoLoop, Alive, Idle, Call, Callers
<1> QED BY <1>1, <1>3, <1>4, <1>5 DEF LoopInv

\* Every step keeps the loops in obedience.
LEMMA LoopInvStep ==
  ASSUME NEW CONSTANT a, Operators = {a}
  PROVE  LoopInv(a) /\ [Next]_vars => LoopInv(a)'
<1> SUFFICES ASSUME LoopInv(a), [Next]_vars PROVE LoopInv(a)'
  OBVIOUS
<1>1. Shape /\ Shape'
  BY ShapeStep DEF LoopInv
<1>2. a # main /\ a \in Callers /\ main \in Callers /\ Callers = {a, main}
  BY LifecycleAssumption DEF Callers
<1>3. SUFFICES (OneLoop /\ Counted /\ Obedience(a))'
  BY <1>1 DEF LoopInv
<1> USE <1>1, <1>2 DEF Shape, LoopInv
<1>4. ASSUME UNCHANGED <<loop, loopWG>>
      PROVE  (OneLoop /\ Counted)' /\ NoLoop' = NoLoop
  BY <1>4 DEF OneLoop, Counted, NoLoop, Alive
<1>5. ASSUME Order(a) PROVE (OneLoop /\ Counted /\ Obedience(a))'
  <2>1. UNCHANGED <<loop, loopWG>>
    BY <1>5 DEF Order, SetOnly, StartPool, StopPool, RestartPool, DrainPool, loopVars
  <2>2. ops[a].at = "idle"
    BY <1>5 DEF Order, SetOnly, StartPool, StopPool, RestartPool, DrainPool, GiveCommand,
                Idle, Call
  <2>3. ops'[main] = ops[main]
    BY <1>5 DEF Order, SetOnly, StartPool, StopPool, RestartPool, DrainPool, GoTo
  <2> USE <2>1, <2>2, <2>3, <1>4
  <2>4. CASE SetOnly(a)
    BY <2>4 DEF SetOnly, Obedience
  <2>5. CASE StartPool(a) \/ DrainPool(a)
    BY <2>5 DEF StartPool, DrainPool, Obedience, GoTo, Call
  <2>6. CASE StopPool(a) \/ RestartPool(a)
    BY <2>6 DEF StopPool, RestartPool, Obedience, GoTo, Call
  <2> QED BY <1>5, <2>4, <2>5, <2>6 DEF Order
<1>6. CASE Shutdown
  BY <1>4, <1>6 DEF Shutdown, Obedience, GoTo, Call, loopVars
<1>7. ASSUME NEW o \in Callers, CallStep(o)
      PROVE  (OneLoop /\ Counted /\ Obedience(a))'
  <2> USE DEF GoTo, Call, Idle
  <2>1. CASE StartCreates(o)
    <3>1. o = a /\ NoLoop /\ loopWG = 0 /\ state # "disabled"
      BY <2>1, <1>2 DEF StartCreates, Obedience, Counted
    <3>2. PICK c \in Contexts : loop' = [loop EXCEPT ![c] = "top"]
      BY <2>1 DEF StartCreates
    <3>3. \A d \in Contexts : Alive(d)' <=> d = c
      BY <3>1, <3>2 DEF Alive, NoLoop
    <3>4. (OneLoop /\ Counted)'
      BY <2>1, <3>1, <3>3 DEF StartCreates, OneLoop, Counted, NoLoop
    <3>5. Obedience(a)'
      BY <2>1, <3>1 DEF StartCreates, Obedience
    <3> QED BY <3>4, <3>5
  <2>2. CASE StopLoop(o)
    BY <1>4, <2>2 DEF StopLoop, Obedience
  <2>3. CASE WaitForLoop(o)
    <3>1. NoLoop
      BY <2>3 DEF WaitForLoop, Counted
    <3>2. UNCHANGED <<loop, loopWG, state>>
      BY <2>3 DEF WaitForLoop, loopVars
    <3> QED BY <1>4, <2>3, <3>1, <3>2 DEF WaitForLoop, AfterStop, Obedience
  <2>4. CASE Activate(o)
    BY <1>4, <2>4 DEF Activate, Obedience, loopVars
  <2>5. CASE StartChecks(o)
    BY <1>4, <2>5 DEF StartChecks, Obedience, loopVars
  <2>6. CASE Arm(o)
    BY <1>4, <2>6 DEF Arm, Obedience, loopVars
  <2> QED BY <1>7, <2>1, <2>2, <2>3, <2>4, <2>5, <2>6 DEF CallStep
<1>8. CASE TimerStep
  <2>1. UNCHANGED <<loop, loopWG, ops>> /\ (state' = "disabled" => state = "disabled")
    BY <1>8 DEF TimerStep, TimerFires, TimerReads, TimerSets, SetState, loopVars, callVars
  <2> QED BY <1>4, <2>1 DEF Obedience
<1>9. ASSUME NEW c \in Contexts, LoopStep(c)
      PROVE  (OneLoop /\ Counted /\ Obedience(a))'
  <2>1. ops' = ops /\ (state' = "disabled" => state = "disabled")
    BY <1>9 DEF LoopStep, LoopEnds, RunOnce, RunReturns, Tick, PollReturns, SetError,
                BackoffEnds, Retry, SetState, Keep, callVars
  <2>2. Alive(c) /\ \A d \in Contexts : Alive(d) => d = c
    BY <1>9 DEF LoopStep, LoopEnds, RunOnce, RunReturns, Tick, PollReturns, SetError,
                BackoffEnds, Retry, Alive, OneLoop
  <2>3. \A d \in Contexts : d # c => loop'[d] = loop[d]
    BY <1>9 DEF LoopStep, LoopEnds, RunOnce, RunReturns, Tick, PollReturns, SetError,
                BackoffEnds, Retry, Go
  <2>4. CASE LoopEnds(c)
    <3>1. NoLoop' /\ loopWG' = loopWG - 1
      BY <2>2, <2>3, <2>4 DEF LoopEnds, Go, NoLoop, Alive
    <3>2. (OneLoop /\ Counted)'
      BY <2>2, <3>1 DEF OneLoop, Counted, NoLoop
    <3> QED BY <2>1, <3>1, <3>2 DEF Obedience
  <2>5. CASE ~LoopEnds(c)
    <3>1. loopWG' = loopWG /\ Alive(c)'
      BY <1>9, <2>5 DEF LoopStep, RunOnce, RunReturns, Tick, PollReturns, SetError,
                        BackoffEnds, Retry, Go, Alive
    <3>2. \A d \in Contexts : Alive(d)' <=> Alive(d)
      BY <2>2, <2>3, <3>1 DEF Alive
    <3> QED BY <2>1, <3>1, <3>2 DEF OneLoop, Counted, NoLoop, Obedience
  <2> QED BY <2>4, <2>5
<1>10. CASE UNCHANGED vars
  BY <1>4, <1>10 DEF vars, loopVars, callVars, Obedience
<1> QED BY <1>5, <1>6, <1>7, <1>8, <1>9, <1>10 DEF Next

\* With one operator, whatever it orders and whenever the process is shut
\* down, a pool never has two loops, and a disabled pool at rest has none.
THEOREM LoopsCorrect ==
  ASSUME NEW CONSTANT a, Operators = {a}
  PROVE  Spec => []LoopsObeyCommands
<1>1. Init => LoopInv(a)
  BY LoopInit
<1>2. LoopInv(a) /\ [Next]_vars => LoopInv(a)'
  BY LoopInvStep
<1>3. LoopInv(a) => LoopsObeyCommands
  BY DEF LoopInv, OneLoop, NoLoop, Obedience, LoopsObeyCommands, AllIdle, Idle, Call, Callers
<1> QED BY <1>1, <1>2, <1>3, PTL DEF Spec
=============================================================================
