--------------------------- MODULE SemanticChecker ---------------------------
(***************************************************************************)
(* Rules about whole programs: src/src/compiler/semantic-checker.ts.  Task *)
(* names are unique, periods positive, loops wait, memberships and elapsed *)
(* times name states, lifecycle tasks have a state, and a variable has one *)
(* writing task.  All faults are collected.                                *)
(***************************************************************************)
EXTENDS ScriptTree

TasksInOrder(program) == program.every \o program.loops \o program.on

\* A loop's wait counts in the branches of an `if`, not in those of a `match`.
RECURSIVE ContainsWait(_)
ContainsWait(body) ==
  \E i \in DOMAIN body :
    \/ body[i].kind = "wait"
    \/ /\ body[i].kind = "if"
       /\ \E b \in DOMAIN body[i].branches : ContainsWait(body[i].branches[b])

\* The name is taken, or the task breaks the rule of its own schedule.
TaskRuleFaults(tasks, i) ==
  LET task == tasks[i]
  IN CASE \E k \in 1..(i - 1) : tasks[k].name = task.name -> <<"semantic.duplicate_task_name">>
       [] task.schedule = "every" /\ task.unit = "ms" /\ task.interval <= 0
            -> <<"semantic.invalid_task_interval">>
       [] task.schedule = "loop" /\ ~ContainsWait(task.statements)
            -> <<"semantic.loop_task_requires_wait">>
       [] OTHER -> <<>>

\* A path is known when it is a state of a machine, encloses one, or does so
\* in the runtime the script is added to.
KnownPaths(program, ambientPaths) ==
  LET paths == ambientPaths \cup UNION {{n.path : n \in ToSet(m.nodes)} : m \in ToSet(program.machines)}
  IN UNION {Prefixes(path) \ {<<>>} : path \in paths}

MembershipFaults(tasks, known) ==
  LET unknown == SelectSeq(tasks, LAMBDA t : t.membership # <<>> /\ t.membership[1] \notin known)
  IN [i \in DOMAIN unknown |-> "semantic.unknown_state_membership_path"]

\* Conditions of the transitions of a machine, the machine's own first.
Conditions(machine) ==
  LET all == machine.transitions
             \o FlattenSeq([i \in DOMAIN machine.nodes |-> machine.nodes[i].transitions])
  IN [i \in DOMAIN all |-> all[i].condition]

ElapsedPaths(expressions) ==
  LET nodes == FlattenSeq([i \in DOMAIN expressions |-> Subexpressions(expressions[i])])
      elapsed == SelectSeq(nodes, LAMBDA e : e.kind = "elapsed")
  IN [i \in DOMAIN elapsed |-> elapsed[i].path]

ElapsedFaults(program, known) ==
  LET tasks == TasksInOrder(program)
      paths == ElapsedPaths(
                 FlattenSeq([i \in DOMAIN program.machines |-> Conditions(program.machines[i])])
                 \o FlattenSeq([i \in DOMAIN tasks |-> TopExpressions(tasks[i].statements)]))
      unknown == SelectSeq(paths, LAMBDA p : p \notin known)
  IN [i \in DOMAIN unknown |-> "semantic.unknown_state_elapsed_path"]

LifecycleFaults(tasks) ==
  LET homeless == SelectSeq(tasks, LAMBDA t : t.schedule \in {"enter", "exit"} /\ t.membership = <<>>)
  IN [i \in DOMAIN homeless |-> "semantic.lifecycle_requires_state_membership"]

\* Mutant: assignments in branches are overlooked.
ContestedAtTheTop(tasks) ==
  LET assigned(t) == {s.name : s \in {u \in ToSet(t.statements) : u.kind = "set"}}
  IN {name \in UNION {assigned(t) : t \in ToSet(tasks)} :
        Cardinality({t.name : t \in {u \in ToSet(tasks) : name \in assigned(u)}}) > 1}

\* The variables assigned by tasks of different names.
ContestedVariables(tasks) ==
  {name \in UNION {Assigned(t.statements) : t \in ToSet(tasks)} :
     \E i, k \in DOMAIN tasks : /\ tasks[i].name # tasks[k].name
                                /\ name \in Assigned(tasks[i].statements)
                                /\ name \in Assigned(tasks[k].statements)}

WriterFaults(tasks) ==
  [i \in 1..Cardinality(ContestedVariables(tasks)) |-> "ownership.multiple_writers"]

SemanticCheck(program, ambientPaths) ==
  LET tasks == TasksInOrder(program)
      known == KnownPaths(program, ambientPaths)
  IN FlattenSeq([i \in DOMAIN tasks |-> TaskRuleFaults(tasks, i)])
     \o MembershipFaults(tasks, known)
     \o ElapsedFaults(program, known)
     \o LifecycleFaults(tasks)
     \o WriterFaults(tasks)
=============================================================================
