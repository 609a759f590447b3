------------------------------ MODULE HostRuntime ------------------------------
(***************************************************************************)
(* The C++ interpreter that the replay tool and the Pico firmware share:   *)
(* class KiboHostRuntime in src/runtime/cpp/src/kibo_host_runtime.cpp.     *)
(*                                                                         *)
(* A call of tick_milliseconds or dispatch_device_event runs to its end    *)
(* without anything else happening in between, so each is one action.  It  *)
(* is written as a function of the interpreter's state h, statement after  *)
(* statement in the order of the code.  An exception leaves the call at    *)
(* once ("thrown"); a loop body that ends without having waited is begun   *)
(* again for ever ("hung").  The program is that of SimulationRuntime.     *)
(***************************************************************************)
EXTENDS Integers, StatePaths, FiniteSetsExt

CONSTANTS
  TaskOrder, RunMode, IntervalOf, Membership, Trigger, EventOf, Body, Events,
  MachineOrder, TickIntervalOf, InitialLeaf, Nodes, InitialChild,
  GlobalTransitions, LocalTransitions, InitialVars, InitialDevices, Elapses

VARIABLE host

NoPath == << >>
Tasks == {TaskOrder[i] : i \in 1..Len(TaskOrder)}
Machines == {MachineOrder[i] : i \in 1..Len(MachineOrder)}
NotWaiting == 0
NoProgress == 0

\* throw_unsupported_runtime_ir
Thrown(h) == [h EXCEPT !.outcome = "thrown"]

\* A loop of the code that an exception leaves; its body Op is given what the
\* code around the loop knows (`context`) and the element it has come to.
ForEach(Op(_, _, _), context, h, seq) ==
  LET after[n \in 0..Len(seq)] ==
        IF n = 0 THEN h
        ELSE IF after[n - 1].outcome = "running"
          THEN Op(after[n - 1], context, seq[n]) ELSE after[n - 1]
  IN  after[Len(seq)]

Times(n) == [i \in 1..n |-> i]

------------------------------------------------------------------------------
(* Expressions. *)

\* read_property knows one sensor and always answers its default.
DefaultAdc0Raw == 512

Throws(h, expr) ==
  \/ expr.kind = "read" /\ expr.device # "adc"
  \/ expr.kind = "quotient" /\ h.vars[expr.by] = 0

\* The C++ quotient rounds towards zero.
Magnitude(n) == IF n < 0 THEN -n ELSE n
Quotient(n, divisor) ==
  LET magnitude == Magnitude(n) \div Magnitude(divisor)
  IN  IF (n < 0) <=> (divisor < 0) THEN magnitude ELSE -magnitude

Elapsed(h, path) == IF path \in DOMAIN h.entry THEN h.total - h.entry[path] ELSE 0

Value(h, expr) ==
  CASE expr.kind = "integer"  -> expr.value
    [] expr.kind = "var"      -> h.vars[expr.name]
    [] expr.kind = "read"     -> DefaultAdc0Raw
    [] expr.kind = "elapsed"  -> Elapsed(h, expr.path)
    [] expr.kind = "quotient" -> Quotient(expr.of, h.vars[expr.by])

Compares(value, condition) ==
  \/ condition.operator = ">=" /\ value >= condition.right
  \/ condition.operator = "==" /\ value = condition.right

Holds(h, condition) == Compares(Value(h, condition.left), condition)

------------------------------------------------------------------------------
(* Statements and task bodies. *)

\* Devices that a trace line shows; what they show is one number here.
Observed == {"led", "display"}

\* Device methods that are evaluated and change nothing a trace shows.
Unobserved == {"serial", "pwm", "motor", "servo"}

Perform(h, statement) ==
  IF Throws(h, statement.value) THEN Thrown(h)
  ELSE CASE statement.kind = "set" ->
              [h EXCEPT !.vars[statement.name] = Value(h, statement.value)]
         [] statement.kind = "do" /\ statement.device \in Observed ->
              [h EXCEPT !.shown[statement.device] = Value(h, statement.value)]
         [] statement.kind = "do" /\ statement.device \in Unobserved -> h
         [] OTHER -> Thrown(h)

ExecuteStatement(h, statement) ==
  IF statement.kind # "if" THEN Perform(h, statement)
  ELSE IF Throws(h, statement.when.left) THEN Thrown(h)
  ELSE Perform(h, IF Holds(h, statement.when) THEN statement.then
                                              ELSE statement.otherwise)

Runnable(h, task) ==
  \/ Membership[task] = NoPath
  \/ Encloses(Membership[task], h.leaf[Membership[task][1]])

\* Mutant: the body goes on without waiting.
ParkNotAtAll(h, task, milliseconds) ==
  IF milliseconds <= 0 THEN [h EXCEPT !.counter[task] = NoProgress]
  ELSE [h EXCEPT !.counter[task] = @ + 1]

\* wait: a duration that is not positive only ends this run of the body.
Park(h, task, milliseconds) ==
  IF milliseconds <= 0 THEN [h EXCEPT !.counter[task] = NoProgress]
  ELSE [h EXCEPT !.resumeAt[task] = h.total + milliseconds, !.counter[task] = @ + 1]

StepPast(h, task) ==
  IF h.outcome = "running" THEN [h EXCEPT !.counter[task] = @ + 1] ELSE h

Parked(h, task) == h.resumeAt[task] # NotWaiting \/ h.counter[task] = NoProgress

DrainStatement(h, task, statement) ==
  IF Parked(h, task) THEN h
  ELSE IF statement.kind # "wait" THEN StepPast(ExecuteStatement(h, statement), task)
  ELSE IF Throws(h, statement.duration) THEN Thrown(h)
  ELSE Park(h, task, Value(h, statement.duration))

\* The end of a body: an every task is over, a loop starts again later.
Finish(h, task) ==
  IF h.outcome = "running" /\ ~Parked(h, task)
    THEN [h EXCEPT !.counter[task] = IF RunMode[task] = "loop" THEN 1 ELSE NoProgress]
    ELSE h

\* drain_every_task_body and drain_loop_task_body
Drain(h, task) ==
  IF Runnable(h, task)
    THEN Finish(ForEach(DrainStatement, task, h,
                        SubSeq(Body[task], h.counter[task], Len(Body[task]))), task)
    ELSE [h EXCEPT !.counter[task] = NoProgress]

\* drain_on_event_task_body: a wait is not a statement it knows.
EventStatement(h, task, statement) ==
  IF statement.kind = "wait" THEN Thrown(h) ELSE ExecuteStatement(h, statement)

DrainOnEvent(h, task) == ForEach(EventStatement, task, h, Body[task])

------------------------------------------------------------------------------
(* Waits, intervals and loops. *)

IsDue(h, task) ==
  /\ h.resumeAt[task] # NotWaiting /\ h.total >= h.resumeAt[task]
  /\ Runnable(h, task)

ResumeTask(h, mode, task) ==
  IF RunMode[task] = mode /\ IsDue(h, task)
    THEN Drain([h EXCEPT !.resumeAt[task] = NotWaiting], task) ELSE h

ResumeWaiting(h, mode) == ForEach(ResumeTask, mode, h, TaskOrder)

StartEvery(h, task) ==
  IF h.counter[task] = NoProgress /\ Runnable(h, task)
    THEN Drain([h EXCEPT !.counter[task] = 1], task) ELSE h

\* One round of the while loop of advance_every_tasks.
UseInterval(h, task, n) ==
  StartEvery([h EXCEPT !.accumulated[task] = @ - IntervalOf[task]], task)

ChargeEvery(h, milliseconds, task) ==
  ForEach(UseInterval, task, [h EXCEPT !.accumulated[task] = @ + milliseconds],
          Times((h.accumulated[task] + milliseconds) \div IntervalOf[task]))

\* Mutant: an interval that comes round during a wait is kept for later.
FireEveryLater(h, milliseconds, task) ==
  IF RunMode[task] = "every" /\ h.counter[task] # NoProgress
    THEN [h EXCEPT !.accumulated[task] = @ + milliseconds]
    ELSE IF RunMode[task] = "every" THEN ChargeEvery(h, milliseconds, task) ELSE h

FireEvery(h, milliseconds, task) ==
  IF RunMode[task] = "every" /\ IntervalOf[task] > 0 THEN ChargeEvery(h, milliseconds, task) ELSE h

AdvanceEvery(h, milliseconds) == ForEach(FireEvery, milliseconds, h, TaskOrder)

\* The for loop of start_runnable_loop_tasks ends when the body waits or is
\* given up; without either it would begin the body again, for ever.
AfterPass(h, task) ==
  IF h.outcome = "running" /\ ~Parked(h, task) THEN [h EXCEPT !.outcome = "hung"] ELSE h

MayStartLoop(h, task) ==
  \/ h.counter[task] = NoProgress /\ Runnable(h, task)
  \/ h.counter[task] = 1 /\ h.resumeAt[task] = NotWaiting

StartLoop(h, mode, task) ==
  IF RunMode[task] = mode /\ MayStartLoop(h, task)
    THEN AfterPass(Drain([h EXCEPT !.counter[task] = 1], task), task) ELSE h

StartLoops(h) == ForEach(StartLoop, "loop", h, TaskOrder)

------------------------------------------------------------------------------
(* State machines. *)

ResolveLeaf[path \in Nodes] ==
  IF path \in DOMAIN InitialChild THEN ResolveLeaf[InitialChild[path]] ELSE path

\* dispatch_lifecycle_exit/enter_tasks_for_exact_membership_path
RunHook(h, hook, task) ==
  IF Trigger[task] = hook.trigger /\ Membership[task] = hook.path
    THEN DrainOnEvent(h, task) ELSE h

DispatchHook(h, trigger, path) ==
  ForEach(RunHook, [trigger |-> trigger, path |-> path], h, TaskOrder)

DispatchHooks(h, trigger, paths) == ForEach(DispatchHook, trigger, h, paths)

Exit(h, machine, newLeaf) ==
  DispatchHooks(h, "state_exit", ExitPaths(h.leaf[machine], newLeaf))

\* old_leaf_path is a reference to active_leaf_path, which has been assigned by
\* now: the sequence leads from the new leaf to itself.
EnterSequence(h, machine, newLeaf) == EnterPaths(h.leaf[machine], newLeaf)

EnterStates(h, paths) ==
  LET entered == {paths[i] : i \in DOMAIN paths} IN
  DispatchHooks([h EXCEPT !.entry = [path \in entered \cup DOMAIN h.entry |->
                                       IF path \in entered THEN h.total ELSE h.entry[path]]],
                "state_enter", paths)

Switched(h, machine, newLeaf) == [h EXCEPT !.leaf[machine] = newLeaf]

Enter(h, machine, newLeaf) == EnterStates(h, EnterSequence(h, machine, newLeaf))

\* apply_state_machine_leaf_transition
ApplyLeafTransition(h, machine, newLeaf) ==
  LET exited == Exit(h, machine, newLeaf) IN
  IF exited.outcome = "running"
    THEN Enter(Switched(exited, machine, newLeaf), machine, newLeaf) ELSE exited

\* The machine's own transitions (scope 0), then the leaf's, then those of its
\* ancestors.
TransitionsFrom(machine, leaf, scope) ==
  LET node == Ancestor(leaf, Len(leaf) - scope + 1) IN
  IF scope = 0 THEN GlobalTransitions[machine]
  ELSE IF node \in Nodes THEN LocalTransitions[node] ELSE << >>

MoveTo(h, machine, leaf) ==
  IF leaf = h.leaf[machine] THEN h ELSE ApplyLeafTransition(h, machine, leaf)

\* Conditions are evaluated until one holds, or throws.
Deciding(h, transitions) ==
  {i \in DOMAIN transitions :
     Throws(h, transitions[i].when.left) \/ Holds(h, transitions[i].when)}

Take(h, machine, transition) ==
  IF Throws(h, transition.when.left) THEN Thrown(h)
  ELSE MoveTo(h, machine, ResolveLeaf[transition.target])

TakeFirst(h, machine, transitions) ==
  Take(h, machine, transitions[Min(Deciding(h, transitions))])

RunStateMachineTick(h, machine) ==
  LET In(scope) == TransitionsFrom(machine, h.leaf[machine], scope)
      scopes == {scope \in 0..Len(h.leaf[machine]) : Deciding(h, In(scope)) # {}}
  IN  IF scopes = {} THEN h ELSE TakeFirst(h, machine, In(Min(scopes)))

\* One round of the while loop of advance_state_machines.
UseTick(h, machine, n) ==
  RunStateMachineTick([h EXCEPT !.ticked[machine] = @ - TickIntervalOf[machine]], machine)

ChargeMachine(h, milliseconds, machine) ==
  ForEach(UseTick, machine, [h EXCEPT !.ticked[machine] = @ + milliseconds],
          Times((h.ticked[machine] + milliseconds) \div TickIntervalOf[machine]))

TickMachine(h, milliseconds, machine) ==
  IF TickIntervalOf[machine] <= 0 THEN [h EXCEPT !.ticked[machine] = 0]
  ELSE ChargeMachine(h, milliseconds, machine)

AdvanceStateMachines(h, milliseconds) ==
  ForEach(TickMachine, milliseconds, h, MachineOrder)

------------------------------------------------------------------------------
(* The interface. *)

\* Mutant: the loops start before the every tasks run.
AdvanceLoopsFirst(h, milliseconds) ==
  AdvanceEvery(StartLoops(AdvanceStateMachines(
    ResumeWaiting(ResumeWaiting(h, "every"), "loop"), milliseconds)), milliseconds)

Advance(h, milliseconds) ==
  StartLoops(AdvanceEvery(AdvanceStateMachines(
    ResumeWaiting(ResumeWaiting(h, "every"), "loop"), milliseconds), milliseconds))

TickMilliseconds(milliseconds) ==
  /\ host.outcome = "running"
  /\ host' = IF milliseconds <= 0 THEN host
             ELSE Advance([host EXCEPT !.total = @ + milliseconds], milliseconds)

OfferEvent(h, name, task) ==
  IF Trigger[task] = "device_event" /\ EventOf[task] = name /\ Runnable(h, task)
    THEN DrainOnEvent(h, task) ELSE h

DispatchDeviceEvent(name) ==
  /\ host.outcome = "running"
  /\ host' = ForEach(OfferEvent, name, host, TaskOrder)

\* The constructor: initial values, entry times and enter tasks of the initial
\* states, and the first statements of the loops.
Loaded ==
  [total |-> 0, outcome |-> "running",
   accumulated |-> [task \in Tasks |-> 0],
   counter |-> [task \in Tasks |-> NoProgress],
   resumeAt |-> [task \in Tasks |-> NotWaiting],
   vars |-> InitialVars, shown |-> [device \in Observed |-> InitialDevices[device]],
   leaf |-> InitialLeaf, ticked |-> [machine \in Machines |-> 0],
   entry |-> [path \in UNION {PrefixSet(InitialLeaf[m]) : m \in Machines} |-> 0]]

EnterInitialStates(h, trigger, machine) ==
  DispatchHooks(h, trigger, EnumeratePrefixes(h.leaf[machine]))

Constructed == StartLoops(ForEach(EnterInitialStates, "state_enter", Loaded, MachineOrder))

Init == host = Constructed

Next ==
  \/ \E milliseconds \in Elapses : TickMilliseconds(milliseconds)
  \/ \E name \in Events : DispatchDeviceEvent(name)

Spec == Init /\ [][Next]_host

==============================================================================
