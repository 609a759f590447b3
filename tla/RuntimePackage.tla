---------------------------- MODULE RuntimePackage ----------------------------
(***************************************************************************)
(* What the builder of a Pico package decides about a compiled program:    *)
(* whether the device can run it, which replay shows that it does, and how *)
(* often the firmware ticks it.  Source:                                   *)
(* src/src/runtime-conformance/                                            *)
(*   build-pico-runtime-package-from-runtime-ir-contract.ts.               *)
(* The program is that of SimulationRuntime.                               *)
(***************************************************************************)
EXTENDS Integers, StatePaths, FiniteSetsExt

CONSTANTS
  TaskOrder, RunMode, IntervalOf, Membership, Trigger, EventOf, Body,
  MachineOrder, TickIntervalOf, InitialLeaf, Nodes, GlobalTransitions,
  LocalTransitions

NoPath == << >>
Tasks == {TaskOrder[i] : i \in 1..Len(TaskOrder)}
Machines == {MachineOrder[i] : i \in 1..Len(MachineOrder)}

------------------------------------------------------------------------------
(* Which programs are accepted. *)

SupportedExpression(expr) == expr.kind = "read" => expr.device = "adc"

\* A condition of a state machine reads no device.
SupportedCondition(condition) == condition.left.kind # "read"

SupportedMethods == {"led", "display", "serial", "pwm", "motor", "servo"}

SupportedSimple(statement) ==
  /\ SupportedExpression(statement.value)
  /\ statement.kind = "do" => statement.device \in SupportedMethods

SupportedStatement(statement) ==
  CASE statement.kind = "wait" -> SupportedExpression(statement.duration)
    [] statement.kind = "if" -> /\ SupportedExpression(statement.when.left)
                                /\ SupportedSimple(statement.then)
                                /\ SupportedSimple(statement.otherwise)
    [] OTHER -> SupportedSimple(statement)

\* A path begins with the name of its machine.
NodesOf(machine) == {node \in Nodes : Head(node) = machine}

SupportedTransitions(machine, transitions) ==
  \A i \in DOMAIN transitions :
    SupportedCondition(transitions[i].when) /\ transitions[i].target \in NodesOf(machine)

SupportedMachines ==
  /\ \A machine \in Machines :
       /\ InitialLeaf[machine] \in NodesOf(machine)
       /\ SupportedTransitions(machine, GlobalTransitions[machine])
  /\ \A node \in Nodes : SupportedTransitions(Head(node), LocalTransitions[node])

\* A lifecycle task names a state, any other task a state or what encloses it.
SupportedMembership(task) ==
  IF Trigger[task] \in {"state_enter", "state_exit"} THEN Membership[task] \in Nodes
  ELSE Membership[task] # NoPath => \E node \in Nodes : Encloses(Membership[task], node)

Accepted ==
  /\ SupportedMachines
  /\ \A task \in Tasks :
       /\ SupportedMembership(task)
       /\ \A i \in DOMAIN Body[task] : SupportedStatement(Body[task][i])

------------------------------------------------------------------------------
(* Replay and live tick. *)

\* The positions of the tasks of a kind, and the first task of it.
Registered(mode) == {i \in DOMAIN TaskOrder : RunMode[TaskOrder[i]] = mode}
FirstOf(mode) == TaskOrder[Min(Registered(mode))]

NoInterval == 0
DefaultTick == 100

MachineTicks == {TickIntervalOf[machine] : machine \in Machines}
MachineTick ==
  IF \E tick \in MachineTicks : tick >= 1
    THEN Min({tick \in MachineTicks : tick >= 1}) ELSE NoInterval

\* The loops with a positive literal wait; the first wait of the first counts.
LiteralWaits(body) ==
  {i \in DOMAIN body : /\ body[i].kind = "wait" /\ body[i].duration.kind = "integer"
                       /\ body[i].duration.value >= 1}
WaitingLoops == {i \in Registered("loop") : LiteralWaits(Body[TaskOrder[i]]) # {}}
LoopWait ==
  LET body == Body[TaskOrder[Min(WaitingLoops)]] IN body[Min(LiteralWaits(body))].duration.value

LiveTickInterval ==
  IF Registered("every") # {} THEN IntervalOf[FirstOf("every")]
  ELSE IF MachineTick # NoInterval THEN MachineTick
  ELSE DefaultTick

Tick(milliseconds) == [kind |-> "tick_ms", milliseconds |-> milliseconds]
Dispatch(name) == [kind |-> "dispatch_device_event", name |-> name]

WithoutEvery ==
  IF MachineTick # NoInterval THEN Tick(MachineTick)
  ELSE IF WaitingLoops # {} THEN Tick(LoopWait)
  ELSE Tick(DefaultTick)

InferredStep ==
  IF Registered("every") # {} THEN Tick(IntervalOf[FirstOf("every")])
  ELSE IF Registered("on_event") # {} /\ Trigger[FirstOf("on_event")] = "device_event"
    THEN Dispatch(EventOf[FirstOf("on_event")])
  ELSE WithoutEvery

\* Nothing tells how to reach a first task on a state when no machine ticks.
InferenceThrows ==
  /\ Registered("every") = {} /\ MachineTick = NoInterval
  /\ Registered("on_event") # {} /\ Trigger[FirstOf("on_event")] # "device_event"

\* inferReplayStepsFromCompiledProgramOrThrow: the same step twice, with a
\* trace before, between and after; without traces here.
InferredReplay == IF InferenceThrows THEN << >> ELSE << InferredStep, InferredStep >>

==============================================================================
