------------------------------- MODULE Lowering -------------------------------
(***************************************************************************)
(* From a bound and checked program to the one the runtime executes:       *)
(* src/src/compiler/lower-to-ir.ts.                                        *)
(***************************************************************************)
EXTENDS ScriptTree

\* A percentage is an integer from here on; everything else keeps its shape.
RECURSIVE LowerExpression(_)
LowerExpression(e) ==
  LET lowered == [e EXCEPT !.args = [i \in DOMAIN @ |-> LowerExpression(@[i])]]
  IN IF e.kind = "percent" THEN [lowered EXCEPT !.kind = "int"] ELSE lowered

RECURSIVE LowerBody(_)
LowerBody(body) ==
  [i \in DOMAIN body |->
     [body[i] EXCEPT !.args = [k \in DOMAIN @ |-> LowerExpression(@[k])],
                     !.branches = [b \in DOMAIN @ |-> LowerBody(@[b])]]]

LowerTask(task) ==
  [name |-> task.name, schedule |-> task.schedule, interval |-> task.interval,
   membership |-> task.membership, device |-> task.device, event |-> task.event,
   statements |-> LowerBody(task.statements)]

LowerTasks(tasks) == [i \in DOMAIN tasks |-> LowerTask(tasks[i])]

LowerTransitions(transitions) ==
  [i \in DOMAIN transitions |-> [condition |-> LowerExpression(transitions[i].condition),
                                 target |-> transitions[i].target]]

\* A number of degrees is taken as milliseconds: the unit goes no further
\* (lower-to-ir.ts:232-240).
LowerMachine(machine) ==
  [name |-> machine.name, interval |-> machine.interval, initial |-> machine.initial,
   transitions |-> LowerTransitions(machine.transitions),
   nodes |-> {[path |-> n.path, children |-> n.children, initial |-> n.initial,
               transitions |-> LowerTransitions(n.transitions)] : n \in ToSet(machine.nodes)}]

LowerAnimator(a) ==
  [name |-> a.name, ramp |-> a.ramp, from |-> a.from, to |-> a.to, duration |-> a.duration,
   ease |-> IF a.ease = "linear" THEN "linear" ELSE "ease_in_out"]

LowerValues(values) ==
  [i \in DOMAIN values |-> [name |-> values[i].name, initial |-> LowerExpression(values[i].initial)]]

\* The first task that assigns a variable is its writer.
WriterAssignments(tasks) ==
  FoldLeft(LAMBDA rows, task : rows @@ [v \in Assigned(task.statements) |-> task.name], <<>>, tasks)

\* Refs of the source become aliases, those of the runtime do not.
DeviceAliases(program) == [name \in program.declaredRefs |-> program.refs[name]]

Lower(program) ==
  LET every == LowerTasks(program.every)
      loops == LowerTasks(program.loops)
      on == LowerTasks(program.on)
      isVar(v) == v.kind = "var"
  IN [varInitializers |-> LowerValues(SelectSeq(program.values, isVar)),
      constInitializers |-> LowerValues(program.consts),
      animators |-> [i \in DOMAIN program.animators |-> LowerAnimator(program.animators[i])],
      machines |-> [i \in DOMAIN program.machines |-> LowerMachine(program.machines[i])],
      every |-> every, loops |-> loops, on |-> on,
      aliases |-> DeviceAliases(program),
      writers |-> WriterAssignments(every \o loops \o on)]
=============================================================================
