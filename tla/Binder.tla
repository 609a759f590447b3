-------------------------------- MODULE Binder --------------------------------
(***************************************************************************)
(* Name resolution of a script: src/src/compiler/binder.ts.  Declarations  *)
(* are bound in stages (refs, animators, values, machines, tasks); a stage *)
(* that reports ends the compilation.  An unknown name, or a wrong target, *)
(* ends its stage at once; a duplicate of a ref, an animator or a value is *)
(* collected with the others of its stage.                                 *)
(***************************************************************************)
EXTENDS ScriptTree

DeviceKinds == {"adc", "serial", "display", "led", "pwm", "button", "imu", "motor", "servo"}

UnknownName == "name.unknown_reference"
DuplicateName == "name.duplicate_declaration"
ConstAssigned == "bind.cannot_assign_to_const"
StackOverflow == "RangeError"

Declarations(program, kind) == SelectSeq(program, LAMBDA d : d.kind = kind)

-----------------------------------------------------------------------------
(* Expressions.  A scope says which names are refs, animators, variables,  *)
(* constants and, inside a body, temporaries.                              *)

\* The name one node of an expression fails to resolve.
UnknownAt(node, scope) ==
  CASE node.kind = "step" /\ node.name \notin scope.animators -> <<UnknownName>>
    [] node.kind = "name" /\ node.name \notin scope.temps \cup scope.consts \cup scope.vars
         -> <<UnknownName>>
    [] node.kind = "read" /\ node.device.kind \notin DeviceKinds -> <<UnknownName>>
    [] OTHER -> <<>>

Unknown(e, scope) ==
  LET nodes == Subexpressions(e)
  IN FlattenSeq([i \in DOMAIN nodes |-> UnknownAt(nodes[i], scope)])

UnknownInAll(es, scope) == FlattenSeq([i \in DOMAIN es |-> Unknown(es[i], scope)])

\* The property a read without one stands for.
DefaultReadProperty(device) ==
  CASE device.kind = "adc" -> "raw"
    [] device.kind = "motor" -> "power"
    [] device.kind = "servo" -> "angle"
    [] device.kind = "pwm" -> "level"
    [] device.kind = "imu" -> "roll"
    [] OTHER -> ""

\* What a name stands for: the innermost declaration wins.
NameKind(name, scope) ==
  IF name \in scope.temps THEN "temp" ELSE IF name \in scope.consts THEN "const" ELSE "var"

BoundNode(node, scope) ==
  CASE node.kind = "name" -> [node EXCEPT !.kind = NameKind(node.name, scope)]
    [] node.kind = "read" /\ node.property = ""
         -> [node EXCEPT !.property = DefaultReadProperty(node.device)]
    [] OTHER -> node

RECURSIVE Bound(_, _)
Bound(e, scope) ==
  [BoundNode(e, scope) EXCEPT !.args = [i \in DOMAIN e.args |-> Bound(e.args[i], scope)]]

BoundAll(es, scope) == [i \in DOMAIN es |-> Bound(es[i], scope)]

-----------------------------------------------------------------------------
(* Statements.                                                             *)

\* A receiver, or the target of an event, is a ref's name or a device.
TargetFaults(target, scope) ==
  LET known == IF target.kind = "ref" THEN target.name \in DOMAIN scope.refs
                                      ELSE target.device.kind \in DeviceKinds
  IN IF known THEN <<>> ELSE <<UnknownName>>

TargetDevice(target, scope) ==
  IF target.kind = "ref" THEN scope.refs[target.name] ELSE target.device

\* Mutant: the body of a branch sees, and leaves behind, every temporary.
ScopeWithBranches(statement, scope) ==
  [scope EXCEPT !.temps = @ \cup {s.name : s \in {t \in ToSet(AllStatements(<<statement>>)) :
                                                    t.kind = "temp"}}]

\* A temporary is known to the statements after its own; those of a branch
\* are not known after the branch.
ScopeAfter(statement, scope) ==
  IF statement.kind = "temp" THEN [scope EXCEPT !.temps = @ \cup {statement.name}] ELSE scope

AssignmentFaults(name, scope) ==
  CASE name \in scope.consts -> <<ConstAssigned>>
    [] name \notin scope.vars -> <<UnknownName>>
    [] OTHER -> <<>>

RECURSIVE BodyFaults(_, _)
StatementFaults(s, scope) ==
  (CASE s.kind = "do" -> TargetFaults(s.receiver, scope)
     [] s.kind = "set" -> AssignmentFaults(s.name, scope)
     [] OTHER -> <<>>)
  \o UnknownInAll(s.args, scope)
  \o FlattenSeq([b \in DOMAIN s.branches |-> BodyFaults(s.branches[b], scope)])

BodyFaults(body, scope) ==
  IF body = <<>> THEN <<>>
  ELSE StatementFaults(Head(body), scope) \o BodyFaults(Tail(body), ScopeAfter(Head(body), scope))

RECURSIVE BoundBody(_, _)
BoundStatement(s, scope) ==
  LET inside == [s EXCEPT !.args = BoundAll(@, scope),
                          !.branches = [b \in DOMAIN @ |-> BoundBody(@[b], scope)]]
  IN IF s.kind = "do"
     THEN [kind |-> "do", device |-> TargetDevice(s.receiver, scope), method |-> s.method,
           args |-> inside.args, branches |-> <<>>]
     ELSE inside

BoundBody(body, scope) ==
  IF body = <<>> THEN <<>>
  ELSE <<BoundStatement(Head(body), scope)>>
       \o BoundBody(Tail(body), ScopeAfter(Head(body), scope))

-----------------------------------------------------------------------------
(* State machines.  A machine's nodes are listed children before parents,  *)
(* in the order the walk meets them.                                       *)

NodeAt(nodes, path) == {nodes[i] : i \in {k \in DOMAIN nodes : nodes[k].path = path}}

RECURSIVE WalkState(_, _, _, _)
WalkItem(walk, item, path, scope) ==
  IF walk.report # <<>> THEN walk
  ELSE IF item.kind = "transition"
  THEN [walk EXCEPT !.report = FirstOf(Unknown(item.condition, scope))]
  ELSE WalkState(walk, item, path, scope)

WalkState(walk, block, parent, scope) ==
  LET path == Append(parent, block.name)
      inside == FoldLeft(LAMBDA w, item : WalkItem(w, item, path, scope), walk, block.items)
      isTransition(item) == item.kind = "transition"
      isState(item) == item.kind = "state"
      transitions == SelectSeq(block.items, isTransition)
      states == SelectSeq(block.items, isState)
  IN IF NodeAt(walk.nodes, path) # {} THEN [walk EXCEPT !.report = <<DuplicateName>>]
     ELSE IF inside.report # <<>> THEN inside
     ELSE [inside EXCEPT !.nodes = Append(@,
            [path |-> path,
             children |-> [i \in DOMAIN states |-> Append(path, states[i].name)],
             initial |-> block.initial,
             transitions |-> [i \in DOMAIN transitions |->
               [condition |-> Bound(transitions[i].condition, scope),
                target |-> transitions[i].target]]])]

\* The leaf a state stands for: `initial` is followed until a state has no
\* children.  Nothing stops a cycle of `initial`s: the recursion overflows.
RECURSIVE ConfiguredLeaf(_, _, _)
ConfiguredLeaf(nodes, path, visited) ==
  IF NodeAt(nodes, path) = {} THEN [outcome |-> "unresolved", path |-> path]
  ELSE LET node == CHOOSE n \in NodeAt(nodes, path) : TRUE
       IN CASE node.children = <<>> -> [outcome |-> "leaf", path |-> path]
            [] node.initial = <<>> -> [outcome |-> "unresolved", path |-> path]
            [] path \in visited -> [outcome |-> "overflow", path |-> path]
            [] OTHER -> ConfiguredLeaf(nodes, Head(node.initial), visited \cup {path})

\* Mutant: a target only has to be a state of the machine.
TargetFaultMerelyKnown(nodes, target) ==
  IF NodeAt(nodes, target) = {}
  THEN <<"semantic.state_machine_invalid_transition_target">> ELSE <<>>

TransitionTargetFault(nodes, target) ==
  LET leaf == ConfiguredLeaf(nodes, target, {})
  IN CASE leaf.outcome = "leaf" -> <<>>
       [] leaf.outcome = "overflow" -> <<StackOverflow>>
       [] OTHER -> <<"semantic.state_machine_invalid_transition_target">>

TransitionFaults(nodes, global) ==
  LET composite == SelectSeq(nodes, LAMBDA n : n.children # <<>> /\ n.initial = <<>>)
      faults(transitions) == FlattenSeq([i \in DOMAIN transitions |->
                               TransitionTargetFault(nodes, transitions[i].target)])
  IN [i \in DOMAIN composite |-> "semantic.state_machine_composite_requires_initial_child"]
     \o faults(global)
     \o FlattenSeq([i \in DOMAIN nodes |-> faults(nodes[i].transitions)])

\* An exception reaches the caller instead of the report.
Thrown(faults) == IF Contains(faults, StackOverflow) THEN <<StackOverflow>> ELSE faults

BindMachine(machine, scope) ==
  LET walk == FoldLeft(LAMBDA w, item : WalkItem(w, item, <<machine.name>>, scope),
                       [nodes |-> <<>>, report |-> <<>>], machine.items)
      items == SelectSeq(machine.items, LAMBDA item : item.kind = "transition")
      global == [i \in DOMAIN items |->
                   [condition |-> Bound(items[i].condition, scope), target |-> items[i].target]]
      leaf == ConfiguredLeaf(walk.nodes, machine.initial, {})
      report == CASE walk.report # <<>> -> walk.report
                  [] NodeAt(walk.nodes, machine.initial) = {} -> <<UnknownName>>
                  [] leaf.outcome = "overflow" -> <<StackOverflow>>
                  [] leaf.outcome = "unresolved" -> <<"semantic.state_machine_unresolved_initial_leaf">>
                  [] OTHER -> Thrown(TransitionFaults(walk.nodes, global))
  IN [report |-> report, name |-> machine.name, interval |-> machine.interval,
      unit |-> machine.unit, initial |-> leaf.path, nodes |-> walk.nodes,
      transitions |-> IF report = <<>> THEN global ELSE <<>>]

-----------------------------------------------------------------------------
(* The stages.  Each returns what it declares and its report.              *)

BindRef(acc, ref) ==
  CASE ref.device.kind \notin DeviceKinds -> [acc EXCEPT !.report = Append(@, UnknownName)]
    [] ref.name \in DOMAIN acc.refs -> [acc EXCEPT !.report = Append(@, DuplicateName)]
    [] OTHER -> [acc EXCEPT !.refs = @ @@ (ref.name :> ref.device)]

BindAnimator(acc, animator) ==
  IF Named(acc.animators, animator.name) THEN [acc EXCEPT !.report = Append(@, DuplicateName)]
  ELSE [acc EXCEPT !.animators = Append(@, animator)]

NamesOf(values, kind) == {values[i].name : i \in {k \in DOMAIN values : values[k].kind = kind}}

\* An initializer sees the values declared before its own.
ValueScope(acc, scope) ==
  [scope EXCEPT !.vars = NamesOf(acc.values, "var"), !.consts = NamesOf(acc.values, "const")]

\* The first unknown name of an initializer ends the stage, duplicates do not.
BindValue(acc, value, scope) ==
  LET inner == ValueScope(acc, scope)
      unknown == FirstOf(Unknown(value.initial, inner))
  IN CASE acc.ended # <<>> -> acc
       [] Named(acc.values, value.name) -> [acc EXCEPT !.report = Append(@, DuplicateName)]
       [] unknown # <<>> -> [acc EXCEPT !.ended = unknown]
       [] OTHER -> [acc EXCEPT !.values = Append(@, [kind |-> value.kind, name |-> value.name,
                                                     initial |-> Bound(value.initial, inner)])]

\* Names the runtime already holds become visible; a constant among them is
\* also listed among the constants of the source.
AmbientConsts(values, ambient) ==
  LET new == SelectSeq(ambient.consts, LAMBDA c :
               ~Named(values, c) /\ c \notin ambient.vars)
  IN [i \in DOMAIN new |->
        [kind |-> "const", name |-> new[i], initial |-> [kind |-> "int", value |-> 0, args |-> <<>>]]]

BindTask(task, scope) ==
  LET faults == FirstOf(BodyFaults(task.body, scope)
                        \o IF task.schedule = "device_event" THEN TargetFaults(task.target, scope)
                                                             ELSE <<>>)
  IN [report |-> faults,
      task |-> IF faults # <<>> THEN <<>>
               ELSE <<[name |-> task.name, schedule |-> task.schedule, interval |-> task.interval,
                       unit |-> task.unit, membership |-> task.membership, event |-> task.event,
                       device |-> IF task.schedule = "device_event"
                                  THEN <<TargetDevice(task.target, scope)>> ELSE <<>>,
                       statements |-> BoundBody(task.body, scope)]>>]

\* A stage of its own binds part after part, up to the first report.
NothingBound == [report |-> <<>>, bound |-> <<>>]
Extended(acc, part) == [report |-> part.report, bound |-> Append(acc.bound, part)]

BindNextMachine(acc, machine, scope) ==
  CASE acc.report # <<>> -> acc
    [] acc.report = <<>> /\ Named(acc.bound, machine.name) ->
         [acc EXCEPT !.report = <<"semantic.duplicate_state_machine_name">>]
    [] OTHER -> Extended(acc, BindMachine(machine, scope))

BindMachines(machines, scope) ==
  FoldLeft(LAMBDA acc, m : BindNextMachine(acc, m, scope), NothingBound, machines)

BindTasks(tasks, scope) ==
  FoldLeft(LAMBDA acc, t : IF acc.report # <<>> THEN acc ELSE Extended(acc, BindTask(t, scope)),
           NothingBound, tasks)

\* What the initializers see of the refs and the animators, and what the
\* machines and tasks see of everything.
OuterScope(names, ambient) ==
  [refs |-> names.refs.refs @@ ambient.refs, animators |-> {a.name : a \in ToSet(names.animators.animators)},
   vars |-> {}, consts |-> {}, temps |-> {}]

Constants(values, ambient) ==
  SelectSeq(values, LAMBDA v : v.kind = "const") \o AmbientConsts(values, ambient)

InnerScope(names, values, ambient) ==
  [OuterScope(names, ambient) EXCEPT
     !.vars = NamesOf(values, "var") \cup (ambient.vars \ NamesOf(values, "const")),
     !.consts = {c.name : c \in ToSet(Constants(values, ambient))}]

\* The bound program, or the report of the first stage that has one.
Link(names, values, consts, refs, machines, tasks) ==
  LET inOrder == FlattenSeq([i \in DOMAIN tasks.bound |-> tasks.bound[i].task])
      report == CASE names.refs.report # <<>> -> names.refs.report
                  [] names.animators.report # <<>> -> names.animators.report
                  [] values.ended # <<>> -> values.ended
                  [] values.report # <<>> -> values.report
                  [] machines.report # <<>> -> machines.report
                  [] OTHER -> tasks.report
  IN IF report # <<>> THEN [report |-> report, program |-> <<>>]
     ELSE [report |-> <<>>,
           program |-> <<[refs |-> refs, declaredRefs |-> DOMAIN names.refs.refs,
             values |-> values.values, consts |-> consts,
             animators |-> names.animators.animators, machines |-> machines.bound,
             every |-> SelectSeq(inOrder, LAMBDA t : t.schedule = "every"),
             loops |-> SelectSeq(inOrder, LAMBDA t : t.schedule = "loop"),
             on |-> SelectSeq(inOrder, LAMBDA t : t.schedule \notin {"loop", "every"})]>>]

BindBodies(program, ambient, names, values, scope) ==
  Link(names, values, Constants(values.values, ambient), scope.refs,
       BindMachines(Declarations(program, "machine"), scope),
       BindTasks(Declarations(program, "task"), scope))

BindAfterNames(program, ambient, names, values) ==
  BindBodies(program, ambient, names, values, InnerScope(names, values.values, ambient))

BindNamed(program, ambient, names) ==
  BindAfterNames(program, ambient, names,
    FoldLeft(LAMBDA acc, v : BindValue(acc, v, OuterScope(names, ambient)),
             [values |-> <<>>, report |-> <<>>, ended |-> <<>>],
             SelectSeq(program, LAMBDA d : d.kind \in {"var", "const"})))

Bind(program, ambient) ==
  BindNamed(program, ambient,
    [refs |-> FoldLeft(BindRef, [refs |-> <<>>, report |-> <<>>], Declarations(program, "ref")),
     animators |-> FoldLeft(BindAnimator, [animators |-> <<>>, report |-> <<>>],
                            Declarations(program, "animator"))])
=============================================================================
