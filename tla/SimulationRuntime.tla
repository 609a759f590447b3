--------------------------- MODULE SimulationRuntime ---------------------------
(***************************************************************************)
(* The cooperative scheduler of the simulator: class SimulationRuntime in  *)
(* src/src/core/simulation-runtime.ts with the task records of             *)
(* src/src/core/task-registry.ts.                                          *)
(*                                                                         *)
(* The runtime is single threaded.  A call from outside (tick, a device    *)
(* event, start or stop of a task) is only accepted when phase = "idle";   *)
(* from then on exactly one internal step is possible at a time until the  *)
(* call has returned.  The internal steps are the loops of the code:       *)
(*                                                                         *)
(*   boot      enter tasks of the initial states (replaceCompiledProgram)  *)
(*   resume    resumeWaitingTasks                                          *)
(*   machines  advanceStateMachines                                        *)
(*   every     advanceEveryTasks                                           *)
(*   loops     startRunnableLoopTasks                                      *)
(*   event     dispatchScriptEvent                                         *)
(*   flush     flushPendingEffects                                         *)
(*                                                                         *)
(* `cursor` is the position of the loop of the current phase.  A phase is  *)
(* suspended while a leaf transition is carried out (`plan`), while the    *)
(* lifecycle tasks of one state are run (`hookTasks`) and while a task     *)
(* body is drained (`draining`).                                           *)
(***************************************************************************)
EXTENDS Integers, Sequences, StatePaths

CONSTANTS
  TaskOrder,          \* the tasks in registration order: every, loop, on
  RunMode,            \* task -> "every" | "loop" | "on_event"
  IntervalOf,         \* task -> interval of an every task in ms
  Membership,         \* task -> path of `task .. in path`, or NoPath
  Trigger,            \* task -> "none" | "device_event" | "state_enter" | "state_exit"
  EventOf,            \* task -> the device event it listens to
  Body,               \* task -> sequence of statements
  Events,             \* the device events that can be dispatched
  MachineOrder,       \* the state machines in declaration order
  TickIntervalOf,     \* machine -> tick interval in ms
  InitialLeaf,        \* machine -> leaf path
  Nodes,              \* all state paths of all machines
  InitialChild,       \* composite node -> the path its `initial` names
  GlobalTransitions,  \* machine -> sequence of transitions
  LocalTransitions,   \* node -> sequence of transitions
  InitialVars,        \* script variable -> initial integer
  InitialDevices,     \* device property -> initial integer
  Sensed,             \* device property -> integers the outside world may set
  TerminalEffects,    \* the device effects the user requests by `do` lines
  Commanded,          \* the tasks the user starts and stops
  NoTask,
  Elapses,            \* the elapsed times a tick may be called with
  StatementBudget,    \* MAXIMUM_EXECUTABLE_STATEMENTS_PER_TASK_DRAIN
  MaxTime             \* bound on the simulated time

NoPath == << >>
Tasks == {TaskOrder[i] : i \in 1..Len(TaskOrder)}
Machines == {MachineOrder[i] : i \in 1..Len(MachineOrder)}
Vars == DOMAIN InitialVars
Devices == DOMAIN InitialDevices
Leaves == Nodes \ DOMAIN InitialChild
Paths == UNION {PrefixSet(node) : node \in Nodes}
NeverEntered == -1
NotWaiting == 0
NoProgress == 0

\* The leaf a configured path leads to: its initial child, followed down.
ResolveLeaf[path \in Nodes] ==
  IF path \in DOMAIN InitialChild THEN ResolveLeaf[InitialChild[path]] ELSE path

\* The program as the compiler hands it over.
Expressions ==
  [kind : {"integer"}, value : Int]
    \cup [kind : {"var"}, name : Vars]
    \cup [kind : {"read"}, device : Devices]
    \cup [kind : {"elapsed"}, path : Paths]
    \cup [kind : {"quotient"}, of : Int, by : Vars]
Conditions == [left : Expressions, operator : {">=", "=="}, right : Int]
SimpleStatements ==
  [kind : {"set"}, name : Vars, value : Expressions]
    \cup [kind : {"do"}, device : Devices, value : Expressions]
Statements ==
  SimpleStatements
    \cup [kind : {"wait"}, duration : Expressions]
    \cup [kind : {"if"}, when : Conditions, then : SimpleStatements,
          otherwise : SimpleStatements]
TransitionRecords == [target : Nodes, when : Conditions]
Effects == [device : Devices, value : Int]

\* The registries are maps: a name is registered once.
Distinct(order) == \A i, j \in DOMAIN order : order[i] = order[j] => i = j

ASSUME TasksAssumption ==
  /\ TaskOrder \in Seq(Tasks) /\ Distinct(TaskOrder)
  /\ NoTask \notin Tasks
  /\ RunMode \in [Tasks -> {"every", "loop", "on_event"}]
  /\ IntervalOf \in [Tasks -> Nat]
  /\ \A task \in Tasks : RunMode[task] = "every" => IntervalOf[task] > 0
  /\ Membership \in [Tasks -> Paths \cup {NoPath}]
  /\ Trigger \in [Tasks -> {"none", "device_event", "state_enter", "state_exit"}]
  /\ \A task \in Tasks : Trigger[task] # "none" <=> RunMode[task] = "on_event"
  /\ Body \in [Tasks -> Seq(Statements)]

ASSUME MachinesAssumption ==
  /\ MachineOrder \in Seq(Machines) /\ Distinct(MachineOrder)
  /\ TickIntervalOf \in [Machines -> Int]
  /\ Nodes \subseteq Seq(STRING) \ {NoPath}
  /\ \A node \in Nodes : node[1] \in Machines
  /\ InitialLeaf \in [Machines -> Leaves]
  /\ GlobalTransitions \in [Machines -> Seq(TransitionRecords)]
  /\ LocalTransitions \in [Nodes -> Seq(TransitionRecords)]

\* Following `initial` ends in a leaf, and paths are looked up among the states
\* of their own machine (resolveBoundStateMachineConfiguredLeafPath and
\* collectBoundStateMachineTransitionValidationDiagnostics of the binder).
LeavesOf(machine) == {leaf \in Leaves : leaf[1] = machine}
ASSUME ResolutionAssumption ==
  /\ \A node \in Nodes : ResolveLeaf[node] \in LeavesOf(node[1])
  /\ \A machine \in Machines :
       /\ InitialLeaf[machine] \in LeavesOf(machine)
       /\ \A i \in DOMAIN GlobalTransitions[machine] :
            GlobalTransitions[machine][i].target[1] = machine
  /\ \A node \in Nodes : \A i \in DOMAIN LocalTransitions[node] :
       LocalTransitions[node][i].target[1] = node[1]

ASSUME EnvironmentAssumption ==
  /\ InitialVars \in [Vars -> Int]
  /\ InitialDevices \in [Devices -> Int]
  /\ DOMAIN Sensed \subseteq Devices
  /\ \A device \in DOMAIN Sensed : Sensed[device] \subseteq Int
  /\ TerminalEffects \subseteq Effects
  /\ Commanded \subseteq Tasks
  /\ Elapses \subseteq Nat
  /\ StatementBudget \in Nat
  /\ MaxTime \in Nat

VARIABLES
  total,               \* totalSimulationMilliseconds
  running,             \* TaskRecord.running
  accumulated,         \* TaskRecord.accumulatedMilliseconds
  programCounter,      \* next statement (from 1), NoProgress: no executionProgress
  resumeAt,            \* resumeAtTotalMilliseconds, NotWaiting: undefined
  varValues,           \* scriptVarValues
  devices,             \* what the device bus reads
  pendingEffects,      \* queued device effects
  activeLeaf,          \* activeLeafPathByMachineName
  machineAccumulated,  \* stateMachineTickAccumulatorMsByMachineName
  entryTime,           \* statePathEntrySimulationMs
  phase, cursor,       \* the loop that is being executed and its position
  charged,             \* elapsed time already added for the current position
  elapsed,             \* argument of the tick in progress
  event,               \* argument of the dispatch in progress
  plan,                \* what is left of the leaf transition in progress
  hookTasks,           \* positions of lifecycle tasks still to be considered
  draining, budget     \* the task whose body is executed, statements it may use

taskVars == <<running, accumulated, programCounter, resumeAt>>
dataVars == <<varValues, devices, pendingEffects>>
machineVars == <<activeLeaf, machineAccumulated, entryTime>>
callVars == <<phase, cursor, charged, elapsed, event>>
runVars == <<plan, hookTasks, draining, budget>>
vars == <<total, taskVars, dataVars, machineVars, callVars, runVars>>

------------------------------------------------------------------------------
(* Expressions and conditions, as far as scheduling depends on them. *)

Elapsed(path) ==
  IF path \in Paths /\ entryTime[path] # NeverEntered
    THEN total - entryTime[path] ELSE 0

\* Division by zero is the expression the evaluator leaves undefined.
Defined(expr) == expr.kind = "quotient" => varValues[expr.by] # 0

\* Math.trunc: the quotient is rounded towards zero.
Magnitude(n) == IF n < 0 THEN -n ELSE n
Quotient(n, divisor) ==
  LET magnitude == Magnitude(n) \div Magnitude(divisor)
  IN  IF (n < 0) <=> (divisor < 0) THEN magnitude ELSE -magnitude

Value(expr) ==
  CASE expr.kind = "integer"  -> expr.value
    [] expr.kind = "var"      -> varValues[expr.name]
    [] expr.kind = "read"     -> devices[expr.device]
    [] expr.kind = "elapsed"  -> Elapsed(expr.path)
    [] expr.kind = "quotient" -> Quotient(expr.of, varValues[expr.by])

Holds(condition) ==
  /\ Defined(condition.left)
  /\ \/ condition.operator = ">=" /\ Value(condition.left) >= condition.right
     \/ condition.operator = "==" /\ Value(condition.left) = condition.right

------------------------------------------------------------------------------
(* Draining one task body: drainTaskExecution. *)

Runnable(task) ==
  \/ Membership[task] = NoPath
  \/ Encloses(Membership[task], activeLeaf[Membership[task][1]])

\* Nothing is in progress inside the loop of the current phase.
Quiet == plan = << >> /\ hookTasks = {} /\ draining = NoTask

BeginDrain(task) ==
  /\ draining' = task
  /\ budget' = StatementBudget

Statement == Body[draining][programCounter[draining]]
AtStatement ==
  draining # NoTask /\ programCounter[draining] <= Len(Body[draining])

\* The statement that acts: for `if` and `match` the branch that is chosen.
ChosenStatement ==
  IF Statement.kind = "if"
    THEN IF Holds(Statement.when) THEN Statement.then ELSE Statement.otherwise
    ELSE Statement

ExecuteStatement ==
  /\ AtStatement /\ budget > 0 /\ Statement.kind # "wait"
  /\ LET chosen == ChosenStatement IN
     /\ varValues' =
          IF chosen.kind = "set" /\ Defined(chosen.value)
            THEN [varValues EXCEPT ![chosen.name] = Value(chosen.value)]
            ELSE varValues
     /\ pendingEffects' =
          IF chosen.kind = "do" /\ Defined(chosen.value)
            THEN Append(pendingEffects,
                        [device |-> chosen.device, value |-> Value(chosen.value)])
            ELSE pendingEffects
  /\ programCounter' = [programCounter EXCEPT ![draining] = @ + 1]
  /\ budget' = budget - 1
  /\ UNCHANGED <<total, running, accumulated, resumeAt, devices, machineVars,
                 callVars, plan, hookTasks, draining>>

ValidWait == Defined(Statement.duration) /\ Value(Statement.duration) > 0

ExecuteWait ==
  /\ AtStatement /\ budget > 0 /\ Statement.kind = "wait" /\ ValidWait
  /\ resumeAt' = [resumeAt EXCEPT ![draining] = total + Value(Statement.duration)]
  /\ programCounter' = [programCounter EXCEPT ![draining] = @ + 1]
  /\ draining' = NoTask
  /\ budget' = 0
  /\ UNCHANGED <<total, running, accumulated, dataVars, machineVars, callVars,
                 plan, hookTasks>>

\* stopTaskAfterInvalidWaitDurationExpression and
\* stopTaskAfterExecutableStatementBudgetExceeded
StopDrainedTask ==
  /\ AtStatement
  /\ budget > 0 => Statement.kind = "wait" /\ ~ValidWait
  /\ running' = [running EXCEPT ![draining] = FALSE]
  /\ programCounter' = [programCounter EXCEPT ![draining] = NoProgress]
  /\ draining' = NoTask
  /\ budget' = 0
  /\ UNCHANGED <<total, accumulated, resumeAt, dataVars, machineVars, callVars,
                 plan, hookTasks>>

\* Mutant: the progress of a finished body is not given up.
ProgressKept(task) == IF RunMode[task] = "loop" THEN 1 ELSE Len(Body[task]) + 1

\* A loop body starts over at the next opportunity, any other one is over.
ProgressAfterEnd(task) == IF RunMode[task] = "loop" THEN 1 ELSE NoProgress

FinishBody ==
  /\ draining # NoTask /\ ~AtStatement
  /\ programCounter' =
       [programCounter EXCEPT ![draining] = ProgressAfterEnd(draining)]
  /\ draining' = NoTask
  /\ budget' = 0
  /\ UNCHANGED <<total, running, accumulated, resumeAt, dataVars, machineVars,
                 callVars, plan, hookTasks>>

Drain == ExecuteStatement \/ ExecuteWait \/ StopDrainedTask \/ FinishBody

------------------------------------------------------------------------------
(* Loops over the registered tasks: one step looks at the task under the   *)
(* cursor.                                                                 *)

AtTask == Quiet /\ cursor <= Len(TaskOrder)
Current == TaskOrder[cursor]

\* Mutants: the wake-up time is not compared; loop tasks are forgotten.
CanResumeEarly(task) ==
  /\ running[task] /\ RunMode[task] \in {"every", "loop"}
  /\ resumeAt[task] # NotWaiting
  /\ Runnable(task)

CanResumeEveryOnly(task) ==
  /\ running[task] /\ RunMode[task] = "every"
  /\ resumeAt[task] # NotWaiting /\ total >= resumeAt[task]
  /\ Runnable(task)

CanResume(task) ==
  /\ running[task] /\ RunMode[task] \in {"every", "loop"}
  /\ resumeAt[task] # NotWaiting /\ total >= resumeAt[task]
  /\ Runnable(task)

ResumeWaitingTask ==
  /\ phase = "resume" /\ AtTask
  /\ IF CanResume(Current)
       THEN /\ resumeAt' = [resumeAt EXCEPT ![Current] = NotWaiting]
            /\ BeginDrain(Current)
       ELSE UNCHANGED <<resumeAt, draining, budget>>
  /\ cursor' = cursor + 1
  /\ UNCHANGED <<total, running, accumulated, programCounter, dataVars,
                 machineVars, phase, charged, elapsed, event, plan, hookTasks>>

\* An every task takes the elapsed time once per tick (one without an
\* interval would be passed over; the checker refuses such tasks) ...
ChargeEveryTask ==
  /\ phase = "every" /\ AtTask /\ ~charged
  /\ running[Current] /\ RunMode[Current] = "every" /\ IntervalOf[Current] > 0
  /\ accumulated' = [accumulated EXCEPT ![Current] = @ + elapsed]
  /\ charged' = TRUE
  /\ UNCHANGED <<total, running, programCounter, resumeAt, dataVars, machineVars,
                 phase, cursor, elapsed, event, runVars>>

\* Mutants: the remainder is lost; the interval is not subtracted.
CarryNothing(time, interval) == 0
CarryEverything(time, interval) == time

\* What is left of the accumulated time when one interval is used up.
CarryOver(time, interval) == time - interval

\* Mutants: the state is not tested; a waiting run is overridden.
CanFireAnywhere(task) == programCounter[task] = NoProgress
CanFireAgain(task) == Runnable(task)

\* ... and is started once per whole interval, unless its previous run still
\* waits or its state is not active.  `running` is not read again here.
CanFire(task) == programCounter[task] = NoProgress /\ Runnable(task)

FireEveryTask ==
  /\ phase = "every" /\ AtTask /\ charged
  /\ accumulated[Current] >= IntervalOf[Current]
  /\ accumulated' = [accumulated EXCEPT ![Current] =
                                         CarryOver(@, IntervalOf[Current])]
  /\ IF CanFire(Current)
       THEN /\ programCounter' = [programCounter EXCEPT ![Current] = 1]
            /\ BeginDrain(Current)
       ELSE UNCHANGED <<programCounter, draining, budget>>
  /\ UNCHANGED <<total, running, resumeAt, dataVars, machineVars, callVars,
                 plan, hookTasks>>

LeaveEveryTask ==
  /\ phase = "every" /\ AtTask
  /\ IF charged THEN accumulated[Current] < IntervalOf[Current]
                ELSE ~(running[Current] /\ RunMode[Current] = "every" /\ IntervalOf[Current] > 0)
  /\ charged' = FALSE
  /\ cursor' = cursor + 1
  /\ UNCHANGED <<total, taskVars, dataVars, machineVars, phase, elapsed, event,
                 runVars>>

CanStartLoop(task) ==
  /\ running[task] /\ RunMode[task] = "loop" /\ Runnable(task)
  /\ \/ programCounter[task] = NoProgress
     \/ resumeAt[task] = NotWaiting /\ programCounter[task] = 1

StartLoopTask ==
  /\ phase = "loops" /\ AtTask
  /\ IF CanStartLoop(Current)
       THEN /\ programCounter' = [programCounter EXCEPT ![Current] = 1]
            /\ BeginDrain(Current)
       ELSE UNCHANGED <<programCounter, draining, budget>>
  /\ cursor' = cursor + 1
  /\ UNCHANGED <<total, running, accumulated, resumeAt, dataVars, machineVars,
                 phase, charged, elapsed, event, plan, hookTasks>>

\* Mutant: a waiting run is overridden by the next event.
CanBeOfferedAgain(task) ==
  /\ running[task] /\ RunMode[task] = "on_event"
  /\ Trigger[task] = "device_event" /\ EventOf[task] = event
  /\ Runnable(task)

\* dispatchScriptEvent skips a task that is still in progress.
CanBeOffered(task) ==
  /\ running[task] /\ RunMode[task] = "on_event"
  /\ Trigger[task] = "device_event" /\ EventOf[task] = event
  /\ Runnable(task) /\ programCounter[task] = NoProgress

OfferEventToTask ==
  /\ phase = "event" /\ AtTask
  /\ IF CanBeOffered(Current)
       THEN /\ programCounter' = [programCounter EXCEPT ![Current] = 1]
            /\ BeginDrain(Current)
       ELSE UNCHANGED <<programCounter, draining, budget>>
  /\ cursor' = cursor + 1
  /\ UNCHANGED <<total, running, accumulated, resumeAt, dataVars, machineVars,
                 phase, charged, elapsed, event, plan, hookTasks>>

------------------------------------------------------------------------------
(* Loop over the state machines: advanceStateMachines. *)

AtMachine == Quiet /\ cursor <= Len(MachineOrder)
Machine == MachineOrder[cursor]

ChargeMachine ==
  /\ phase = "machines" /\ AtMachine /\ ~charged /\ TickIntervalOf[Machine] > 0
  /\ machineAccumulated' = [machineAccumulated EXCEPT ![Machine] = @ + elapsed]
  /\ charged' = TRUE
  /\ UNCHANGED <<total, taskVars, dataVars, activeLeaf, entryTime, phase, cursor,
                 elapsed, event, runVars>>

LeaveMachine ==
  /\ phase = "machines" /\ AtMachine
  /\ IF charged THEN machineAccumulated[Machine] < TickIntervalOf[Machine]
                ELSE TickIntervalOf[Machine] <= 0
  /\ machineAccumulated' =
       IF charged THEN machineAccumulated
                  ELSE [machineAccumulated EXCEPT ![Machine] = 0]
  /\ charged' = FALSE
  /\ cursor' = cursor + 1
  /\ UNCHANGED <<total, taskVars, dataVars, activeLeaf, entryTime, phase,
                 elapsed, event, runVars>>

\* Transitions are evaluated scope by scope: the machine's own (scope 0), then
\* those of the active leaf, then those of each enclosing state.
TransitionsIn(machine, scope) ==
  LET leaf == activeLeaf[machine]
      node == Ancestor(leaf, Len(leaf) - scope + 1)
  IN  IF scope = 0 THEN GlobalTransitions[machine]
      ELSE IF node \in Nodes THEN LocalTransitions[node] ELSE << >>

\* Where a condition holds, as <<scope, index>>; the earliest one is taken.
Firing(machine) ==
  UNION {{<<scope, i>> : i \in {k \in DOMAIN TransitionsIn(machine, scope) :
                                 Holds(TransitionsIn(machine, scope)[k].when)}} :
         scope \in 0..Len(activeLeaf[machine])}

Taken(machine) ==
  {taken \in Firing(machine) :
     \A other \in Firing(machine) :
       \/ taken[1] < other[1]
       \/ taken[1] = other[1] /\ taken[2] <= other[2]}

\* Mutant: a composite target is not resolved to its initial leaf.
TargetAsWritten(machine, taken) ==
  TransitionsIn(machine, taken[1])[taken[2]].target

TargetLeaf(machine, taken) ==
  ResolveLeaf[TransitionsIn(machine, taken[1])[taken[2]].target]

\* The steps of a leaf transition in the order the code performs them.
Hooks(hook, paths) == [i \in 1..Len(paths) |-> [hook |-> hook, path |-> paths[i]]]

\* Mutant: the leaf is switched before the exit tasks run.
TransitionPlanSwitchingFirst(oldLeaf, newLeaf) ==
  << [hook |-> "switch", path |-> newLeaf] >>
    \o Hooks("exit", ExitPaths(oldLeaf, newLeaf))
    \o Hooks("enter", EnterPaths(oldLeaf, newLeaf))

TransitionPlan(oldLeaf, newLeaf) ==
  Hooks("exit", ExitPaths(oldLeaf, newLeaf))
    \o << [hook |-> "switch", path |-> newLeaf] >>
    \o Hooks("enter", EnterPaths(oldLeaf, newLeaf))

\* One state tick: the first transition whose condition holds is taken; one
\* that leads back to the active leaf does nothing, and hides later ones.
TickMachine ==
  /\ phase = "machines" /\ AtMachine /\ charged
  /\ machineAccumulated[Machine] >= TickIntervalOf[Machine]
  /\ machineAccumulated' =
       [machineAccumulated EXCEPT ![Machine] =
                                    CarryOver(@, TickIntervalOf[Machine])]
  /\ \/ Firing(Machine) = {} /\ plan' = << >>
     \/ \E taken \in Taken(Machine) :
          plan' = IF TargetLeaf(Machine, taken) = activeLeaf[Machine] THEN << >>
                  ELSE TransitionPlan(activeLeaf[Machine], TargetLeaf(Machine, taken))
  /\ UNCHANGED <<total, taskVars, dataVars, activeLeaf, entryTime, callVars,
                 hookTasks, draining, budget>>

\* Mutants: an entry time is set once only, or for the outermost state only.
StatesEnteredOnce ==
  {plan[i].path : i \in {k \in 2..Len(plan) : entryTime[plan[k].path] = NeverEntered}}
OutermostStateEntered == {plan[i].path : i \in 2..Len(plan) \cap {2}}

\* activeLeafPathByMachineName.set and the entry times of the entered states
StatesEntered == {plan[i].path : i \in 2..Len(plan)}

SwitchLeaf ==
  /\ plan # << >> /\ hookTasks = {} /\ draining = NoTask
  /\ plan[1].hook = "switch"
  /\ activeLeaf' = [activeLeaf EXCEPT ![plan[1].path[1]] = plan[1].path]
  /\ entryTime' = [path \in Paths |->
                     IF path \in StatesEntered
                       THEN total ELSE entryTime[path]]
  /\ plan' = Tail(plan)
  /\ UNCHANGED <<total, taskVars, dataVars, machineAccumulated, callVars,
                 hookTasks, draining, budget>>

\* dispatchLifecycleExit/EnterTasksForExactMembershipPath: the tasks bound to
\* exactly this state, in registration order.
HookTasks(hook, path) ==
  {position \in 1..Len(TaskOrder) :
     /\ RunMode[TaskOrder[position]] = "on_event"
     /\ Trigger[TaskOrder[position]] =
          (IF hook = "exit" THEN "state_exit" ELSE "state_enter")
     /\ Membership[TaskOrder[position]] = path}

DispatchHook ==
  /\ plan # << >> /\ hookTasks = {} /\ draining = NoTask
  /\ plan[1].hook \in {"exit", "enter"}
  /\ hookTasks' = HookTasks(plan[1].hook, plan[1].path)
  /\ plan' = Tail(plan)
  /\ UNCHANGED <<total, taskVars, dataVars, machineVars, callVars, draining,
                 budget>>

\* A lifecycle task is started from its first statement, whatever it was
\* doing; drainTaskExecution gives it up when its state is not active.
StartHookTask(task) ==
  /\ resumeAt' = [resumeAt EXCEPT ![task] = NotWaiting]
  /\ IF Runnable(task)
       THEN /\ programCounter' = [programCounter EXCEPT ![task] = 1]
            /\ BeginDrain(task)
       ELSE /\ programCounter' = [programCounter EXCEPT ![task] = NoProgress]
            /\ UNCHANGED <<draining, budget>>

StartLifecycleTask ==
  /\ draining = NoTask
  /\ \E next \in hookTasks :
       /\ \A position \in hookTasks : next <= position
       /\ hookTasks' = hookTasks \ {next}
       /\ IF running[TaskOrder[next]]
            THEN StartHookTask(TaskOrder[next])
            ELSE UNCHANGED <<resumeAt, programCounter, draining, budget>>
  /\ UNCHANGED <<total, running, accumulated, dataVars, machineVars, callVars,
                 plan>>

\* Initial enter tasks of the machine under the cursor.
BootMachine ==
  /\ phase = "boot" /\ AtMachine
  /\ plan' = Hooks("enter", EnumeratePrefixes(activeLeaf[Machine]))
  /\ cursor' = cursor + 1
  /\ UNCHANGED <<total, taskVars, dataVars, machineVars, phase, charged, elapsed,
                 event, hookTasks, draining, budget>>

------------------------------------------------------------------------------
(* From phase to phase, and the calls from outside. *)

LengthOf(loop) ==
  IF loop \in {"boot", "machines"} THEN Len(MachineOrder) ELSE Len(TaskOrder)

Following == [boot |-> "loops", resume |-> "machines", machines |-> "every",
              every |-> "loops", loops |-> "flush", event |-> "flush"]

NextPhase ==
  /\ phase \in DOMAIN Following /\ Quiet /\ cursor > LengthOf(phase)
  /\ phase' = Following[phase]
  /\ cursor' = 1
  /\ UNCHANGED <<total, taskVars, dataVars, machineVars, charged, elapsed, event,
                 runVars>>

\* Effects reach the devices in the order they were queued.
LastEffectOn(device) ==
  LET queued == {i \in 1..Len(pendingEffects) : pendingEffects[i].device = device}
  IN  CHOOSE i \in queued : \A j \in queued : j <= i

FlushPendingEffects ==
  /\ phase = "flush"
  /\ devices' = [device \in Devices |->
        IF \E i \in 1..Len(pendingEffects) : pendingEffects[i].device = device
          THEN pendingEffects[LastEffectOn(device)].value
          ELSE devices[device]]
  /\ pendingEffects' = << >>
  /\ phase' = "idle"
  /\ elapsed' = 0
  /\ UNCHANGED <<total, taskVars, varValues, machineVars, cursor, charged, event,
                 runVars>>

\* tick; the terminal queues the effect of a `do` line and calls tick(0).
BeginTick(milliseconds, queued) ==
  /\ phase = "idle" /\ total + milliseconds <= MaxTime
  /\ total' = total + milliseconds
  /\ elapsed' = milliseconds
  /\ pendingEffects' = pendingEffects \o queued
  /\ phase' = "resume"
  /\ cursor' = 1
  /\ UNCHANGED <<taskVars, varValues, devices, machineVars, charged, event,
                 runVars>>

DispatchScriptEvent(name) ==
  /\ phase = "idle"
  /\ event' = name
  /\ phase' = "event"
  /\ cursor' = 1
  /\ UNCHANGED <<total, taskVars, dataVars, machineVars, charged, elapsed,
                 runVars>>

StartTask(task) ==
  /\ phase = "idle"
  /\ running' = [running EXCEPT ![task] = TRUE]
  /\ accumulated' = [accumulated EXCEPT ![task] = 0]
  /\ UNCHANGED <<total, programCounter, resumeAt, dataVars, machineVars, callVars,
                 runVars>>

StopTask(task) ==
  /\ phase = "idle"
  /\ running' = [running EXCEPT ![task] = FALSE]
  /\ UNCHANGED <<total, accumulated, programCounter, resumeAt, dataVars,
                 machineVars, callVars, runVars>>

\* A button or a sensor changes between two calls.
SenseDevice(device, value) ==
  /\ phase = "idle"
  /\ devices' = [devices EXCEPT ![device] = value]
  /\ UNCHANGED <<total, taskVars, varValues, pendingEffects, machineVars, callVars,
                 runVars>>

------------------------------------------------------------------------------

\* replaceCompiledProgram on a fresh runtime, before the initial enter tasks.
Init ==
  /\ total = 0
  /\ running = [task \in Tasks |-> TRUE]
  /\ accumulated = [task \in Tasks |-> 0]
  /\ programCounter = [task \in Tasks |-> NoProgress]
  /\ resumeAt = [task \in Tasks |-> NotWaiting]
  /\ varValues = InitialVars
  /\ devices = InitialDevices
  /\ pendingEffects = << >>
  /\ activeLeaf = InitialLeaf
  /\ machineAccumulated = [machine \in Machines |-> 0]
  /\ entryTime = [path \in Paths |->
       IF \E machine \in Machines : path \in PrefixSet(InitialLeaf[machine])
         THEN 0 ELSE NeverEntered]
  /\ phase = "boot" /\ cursor = 1 /\ charged = FALSE /\ elapsed = 0
  /\ event \in Events
  /\ plan = << >> /\ hookTasks = {} /\ draining = NoTask /\ budget = 0

Internal ==
  \/ Drain
  \/ ResumeWaitingTask
  \/ ChargeEveryTask \/ FireEveryTask \/ LeaveEveryTask
  \/ StartLoopTask
  \/ OfferEventToTask
  \/ ChargeMachine \/ LeaveMachine \/ TickMachine
  \/ SwitchLeaf \/ DispatchHook \/ StartLifecycleTask
  \/ BootMachine
  \/ NextPhase
  \/ FlushPendingEffects

External ==
  \/ \E milliseconds \in Elapses : BeginTick(milliseconds, << >>)
  \/ \E effect \in TerminalEffects : BeginTick(0, <<effect>>)
  \/ \E name \in Events : DispatchScriptEvent(name)
  \/ \E task \in Commanded : StartTask(task) \/ StopTask(task)
  \/ \E device \in DOMAIN Sensed : \E value \in Sensed[device] :
       SenseDevice(device, value)

Next == Internal \/ External

Spec == Init /\ [][Next]_vars

\* A call runs to its end, and the animation frames of simulator-view.ts keep
\* calling tick whatever else is called between them.
FairSpec ==
  /\ Spec
  /\ WF_vars(Internal)
  /\ SF_vars(\E milliseconds \in Elapses \ {0} : BeginTick(milliseconds, << >>))

------------------------------------------------------------------------------
(* Properties. *)

PlanSteps ==
  [hook : {"exit", "enter"}, path : Paths] \cup [hook : {"switch"}, path : Leaves]

TypeOK ==
  /\ total \in 0..MaxTime
  /\ running \in [Tasks -> BOOLEAN]
  /\ accumulated \in [Tasks -> Nat]
  /\ programCounter \in [Tasks -> Nat]
  /\ resumeAt \in [Tasks -> Nat]
  /\ varValues \in [Vars -> Int]
  /\ devices \in [Devices -> Int]
  /\ pendingEffects \in Seq(Effects)
  /\ activeLeaf \in [Machines -> Leaves]
  /\ machineAccumulated \in [Machines -> Nat]
  /\ entryTime \in [Paths -> 0..MaxTime \cup {NeverEntered}]
  /\ phase \in DOMAIN Following \cup {"flush", "idle"}
  /\ cursor \in Nat \ {0}
  /\ charged \in BOOLEAN
  /\ elapsed \in Nat
  /\ event \in Events
  /\ plan \in Seq(PlanSteps)
  /\ hookTasks \subseteq 1..Len(TaskOrder)
  /\ draining \in Tasks \cup {NoTask}
  /\ budget \in Nat

\* No task is left in the middle of its body without a wake-up time: one that
\* is not being drained has no progress, waits, or is a loop about to start
\* over.  Otherwise resumeWaitingTasks would pass over it for ever while
\* advanceEveryTasks and dispatchScriptEvent refuse to start it anew.
ParkedTasksHaveAWakeUp ==
  \A task \in Tasks \ {draining} :
    \/ programCounter[task] = NoProgress /\ resumeAt[task] = NotWaiting
    \/ programCounter[task] > 1 /\ resumeAt[task] # NotWaiting
    \/ /\ RunMode[task] = "loop"
       /\ programCounter[task] = 1 /\ resumeAt[task] = NotWaiting

\* A statement of `task .. in path ..` is only executed while the path is one
\* of the active states: exit tasks run before the leaf changes, enter tasks
\* after it, and a body resumed after a wait is checked again.
BodiesRunInTheirState ==
  (draining # NoTask /\ Membership[draining] # NoPath) =>
    \E machine \in Machines :
      Membership[draining] \in PrefixSet(activeLeaf[machine])

\* An `on enter` task reads 0 from the elapsed attribute of the state it was
\* entered for, also when the state was active before.
EnterTasksReadZeroElapsed ==
  (draining # NoTask /\ Trigger[draining] = "state_enter") =>
    Elapsed(Membership[draining]) = 0

\* Every lifecycle task a transition dispatches is executed: its state is active
\* when its turn comes, though drainTaskExecution would silently give it up
\* otherwise.  (Enter and exit tasks of one transition see different leaves.)
LifecycleTasksFindTheirState ==
  \A position \in hookTasks : Runnable(TaskOrder[position])

\* After a call no whole interval is left in an accumulator, and the ticks of a
\* state machine and of an every task that is never restarted stay on the
\* multiples of their interval, however the time is cut into calls of tick,
\* whatever runs are skipped, and whatever else the tick had to do.
SchedulesDoNotDrift ==
  phase = "idle" =>
    /\ \A machine \in Machines : TickIntervalOf[machine] > 0 =>
         machineAccumulated[machine] = total % TickIntervalOf[machine]
    /\ \A task \in Tasks : (RunMode[task] = "every" /\ running[task]) =>
         /\ accumulated[task] < IntervalOf[task]
         /\ task \notin Commanded => accumulated[task] = total % IntervalOf[task]

\* An active state was entered no later than the active state inside it, so an
\* enclosing state never shows less elapsed time than an enclosed one.
EnclosingStatesAreOlder ==
  \A machine \in Machines :
    LET leaf == activeLeaf[machine] IN
    \A n \in 1..Len(leaf) :
      /\ entryTime[Ancestor(leaf, n)] \in 0..total
      /\ n > 1 => entryTime[Ancestor(leaf, n - 1)] <= entryTime[Ancestor(leaf, n)]

\* A task that was stopped executes nothing until it is started again
\* (STATUS.md: an invalid wait, or an exceeded budget, stops the task).
StoppedTasksDoNotRun == draining # NoTask => running[draining]

\* A wait that is not over cannot be cut short: not by the interval of an every
\* task coming round, not by startRunnableLoopTasks, not by a repeated event.
\* (Lifecycle tasks are started over by design.)
WaitsAreHonoured ==
  [][\A task \in Tasks :
       (resumeAt[task] > total /\ Trigger[task] \in {"none", "device_event"}) =>
         UNCHANGED <<programCounter[task], resumeAt[task]>>]_vars

\* Once begun, a body is executed statement by statement up to its end, over
\* all waits and changes of state, unless the runtime stops its task.
BodiesRunToTheirEnd ==
  [][\A task \in Tasks :
       \/ UNCHANGED programCounter[task]
       \/ programCounter'[task] = programCounter[task] + 1
       \/ programCounter[task] > Len(Body[task])
       \/ ~running'[task]
       \/ Trigger[task] \in {"state_enter", "state_exit"}]_vars

\* A transition does not restart the clock of a state that encloses both the
\* old and the new leaf.
SharedStatesKeepTheirClock ==
  [][\A machine \in Machines :
       \A path \in PrefixSet(activeLeaf[machine])
                     \cap PrefixSet(activeLeaf'[machine]) :
         entryTime'[path] = entryTime[path]]_vars

\* Every call returns: the catch-up loops of the accumulators, the lifecycle
\* tasks of a transition and the bodies they start all come to an end.
CallsReturn == (phase # "idle") ~> (phase = "idle")

AwakensAfterWait(modes) ==
  \A task \in Tasks : RunMode[task] \in modes =>
    (/\ running[task] /\ Runnable(task)
     /\ total < resumeAt[task] /\ resumeAt[task] <= MaxTime)
      ~> (resumeAt[task] = NotWaiting \/ ~running[task] \/ ~Runnable(task))

\* A waiting every or loop task goes on when its time has come, unless it is
\* stopped or its state is left.
WaitingTasksResume == AwakensAfterWait({"every", "loop"})

\* The same for a task started by an event, which draft.md 7.3 calls equivalent
\* to a loop that waits for the event and then runs the body.
WaitingEventTasksResume == AwakensAfterWait({"on_event"})

------------------------------------------------------------------------------
(* The scheduler implements what CooperativeTasks promises. *)

LifecycleTaskSet ==
  {task \in Tasks : Trigger[task] \in {"state_enter", "state_exit"}}

Cooperative == INSTANCE CooperativeTasks
  WITH Restartable <- LifecycleTaskSet,
       now <- total,
       executing <- {draining} \ {NoTask},
       wakeAt <- resumeAt

\* At most one body executes at a time, time stands still meanwhile, and no
\* wait is lost, cut short or taken over by another start of the same task.
RefinesCooperativeTasks == Cooperative!Spec

==============================================================================
