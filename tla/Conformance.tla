------------------------------ MODULE Conformance ------------------------------
(***************************************************************************)
(* The simulator and the C++ interpreter given the same program and the    *)
(* same replay steps, as docs/runtime-conformance.md compares them.  The   *)
(* interpreter carries a step out at once, the simulator by its internal   *)
(* steps; a trace is collected when both have done.                        *)
(***************************************************************************)
EXTENDS SimulationRuntime

VARIABLE host

Host == INSTANCE HostRuntime
Package == INSTANCE RuntimePackage

\* Only what the package builder accepts gets to the device.
ASSUME PackageAssumption == Package!Accepted

\* The device bus of the simulator always has an LED and a display; an event
\* that a task listens to is one that can be dispatched; nobody starts or stops
\* a task during a replay.
ASSUME ReplayAssumption ==
  /\ Host!Observed \subseteq Devices
  /\ Commanded = {}
  /\ \A task \in Tasks : Trigger[task] = "device_event" => EventOf[task] \in Events

ReplayInit == Init /\ Host!Init

\* executeRuntimeConformanceReplaySteps.. and kibo_runtime_replay_runner.cpp
TickMs(milliseconds) ==
  BeginTick(milliseconds, << >>) /\ Host!TickMilliseconds(milliseconds)
DispatchDeviceEvent(name) == DispatchScriptEvent(name) /\ Host!DispatchDeviceEvent(name)
Simulate == Internal /\ UNCHANGED host

\* The steps of a written replay, those the package builder infers, and the
\* live tick of the firmware.
Steps ==
  {Package!Tick(milliseconds) : milliseconds \in Elapses \cup {Package!LiveTickInterval}}
  \cup {Package!Dispatch(name) : name \in Events}
  \cup {Package!InferredReplay[i] : i \in DOMAIN Package!InferredReplay}

ReplayStep(step) ==
  \/ step.kind = "tick_ms" /\ TickMs(step.milliseconds)
  \/ step.kind = "dispatch_device_event" /\ DispatchDeviceEvent(step.name)

ReplayNext == Simulate \/ \E step \in Steps : ReplayStep(step)

ReplaySpec == ReplayInit /\ [][ReplayNext]_<<vars, host>>

------------------------------------------------------------------------------
(* What the interpreter relies on beyond the checks of the package builder. *)

\* The compiler rejects a loop without a wait; start_runnable_loop_tasks would
\* begin its body again for ever.
LoopsWait ==
  \A task \in Tasks : RunMode[task] = "loop" =>
    \E i \in DOMAIN Body[task] : Body[task][i].kind = "wait"

\* drain_on_event_task_body throws at a wait.
EventTasksNeverWait ==
  \A task \in Tasks : RunMode[task] = "on_event" =>
    \A i \in DOMAIN Body[task] : Body[task][i].kind # "wait"

\* The expressions a program evaluates and the statements that act.
Evaluated(statement) ==
  CASE statement.kind = "wait" -> {statement.duration}
    [] statement.kind = "if" ->
         {statement.when.left, statement.then.value, statement.otherwise.value}
    [] OTHER -> {statement.value}
Acting(statement) ==
  CASE statement.kind = "wait" -> {}
    [] statement.kind = "if" -> {statement.then, statement.otherwise}
    [] OTHER -> {statement}

ProgramStatements == UNION {{Body[task][i] : i \in DOMAIN Body[task]} : task \in Tasks}
ConditionsOf(transitions) == {transitions[i].when.left : i \in DOMAIN transitions}
ProgramExpressions ==
  (UNION {Evaluated(statement) : statement \in ProgramStatements})
    \cup (UNION {ConditionsOf(GlobalTransitions[machine]) : machine \in Machines})
    \cup (UNION {ConditionsOf(LocalTransitions[node]) : node \in Nodes})

Divisors == {expr.by : expr \in {e \in ProgramExpressions : e.kind = "quotient"}}

\* A division by zero throws: variables that are divided by never become zero.
DivisorsAreNotZero ==
  \A name \in Divisors :
    /\ InitialVars[name] # 0
    /\ \A statement \in UNION {Acting(s) : s \in ProgramStatements} :
         (statement.kind = "set" /\ statement.name = name) =>
           statement.value.kind = "integer" /\ statement.value.value # 0

------------------------------------------------------------------------------
(* The programs and replays of which both runtimes make the same. *)

\* CompiledProgram lists the every tasks before the loops; the simulator resumes
\* tasks in that order, the interpreter first the ones, then the others.
TasksAreGrouped ==
  \A i, j \in DOMAIN TaskOrder :
    (RunMode[TaskOrder[i]] = "every" /\ RunMode[TaskOrder[j]] = "loop") => i < j

\* The interpreter enters no state when it switches a leaf.
NoEnterTasks == \A task \in Tasks : Trigger[task] # "state_enter"

\* Of a wait that is over at once the simulator stops the task, the interpreter
\* ends the body; the statement budget is the simulator's alone.
WaitsAreWritten ==
  \A statement \in ProgramStatements : statement.kind = "wait" =>
    statement.duration.kind = "integer" /\ statement.duration.value > 0
BodiesAreShort == \A task \in Tasks : Len(Body[task]) <= StatementBudget

\* The interpreter reads every sensor as its default, and a tick of no length is
\* no tick for it.
SensorsAreAtDefault ==
  "adc" \in Devices => InitialDevices["adc"] = Host!DefaultAdc0Raw
TicksTakeTime == 0 \notin Elapses

\* The interpreter's clock of a state runs from the start: that is right for a
\* state that no transition enters from outside.
TimedPaths == {expr.path : expr \in {e \in ProgramExpressions : e.kind = "elapsed"}}
NeverEnteredAgain(path) ==
  /\ \A machine \in Machines : \A i \in DOMAIN GlobalTransitions[machine] :
       Encloses(path, ResolveLeaf[GlobalTransitions[machine][i].target]) => Len(path) = 1
  /\ \A node \in Nodes : \A i \in DOMAIN LocalTransitions[node] :
       Encloses(path, ResolveLeaf[LocalTransitions[node][i].target]) => Encloses(path, node)
TimedStatesAreInitial ==
  \A path \in TimedPaths :
    /\ \E machine \in Machines : path \in PrefixSet(InitialLeaf[machine])
    /\ NeverEnteredAgain(path)

RunsAlike ==
  /\ LoopsWait /\ EventTasksNeverWait /\ DivisorsAreNotZero
  /\ TasksAreGrouped /\ NoEnterTasks /\ WaitsAreWritten /\ BodiesAreShort
  /\ SensorsAreAtDefault /\ TicksTakeTime /\ TimedStatesAreInitial

------------------------------------------------------------------------------
(* Properties. *)

\* A trace line: simulated time, led and display, the script variables, the machines.
SimulatorTrace == <<total, [device \in Host!Observed |-> devices[device]], varValues, activeLeaf>>
HostTrace == <<host.total, host.shown, host.vars, host.leaf>>

\* docs/runtime-conformance.md: the same contract and the same replay steps give
\* the same trace lines.
TracesAgree == phase = "idle" => SimulatorTrace = HostTrace

\* Behind the trace the two also agree on what happens next: how far every body
\* has come, which tasks wait and until when, and how much of each interval has
\* passed.  Two schedulers that only look alike drift apart here first.  (A loop
\* about to start over has come no further than one that was given up.)
SchedulesAgree ==
  phase = "idle" =>
    /\ \A task \in Tasks :
         {programCounter[task], host.counter[task]} \subseteq {NoProgress, 1}
           \/ programCounter[task] = host.counter[task]
    /\ resumeAt = host.resumeAt
    /\ accumulated = host.accumulated
    /\ machineAccumulated = host.ticked

\* A program that the package builder accepts never leaves the interpreter with
\* an exception, nor in the loop of start_runnable_loop_tasks that has no budget.
\* The builder alone does not see to it: this holds of the accepted programs
\* with LoopsWait, EventTasksNeverWait and DivisorsAreNotZero.
HostKeepsRunning == host.outcome = "running"

==============================================================================
