----------------------------- MODULE RuntimeWorld -----------------------------
(***************************************************************************)
(* The registries of a running simulator and what changes them while it    *)
(* runs: scripts added or loaded in place of everything, terminal commands *)
(* that register a task or drop an entry (src/src/core/simulation-         *)
(* runtime.ts, compile-and-register-simulation-script.ts,                  *)
(* src/src/interactive/evaluate-interactive-command.ts).                   *)
(*                                                                         *)
(* Variables and constants are the names that hold a value; the scheduling *)
(* of what is registered is the subject of SimulationRuntime.  The         *)
(* compiler and the walks over statements are parameters: they are         *)
(* recursive, and the theorems about this module must not reach them.      *)
(***************************************************************************)
EXTENDS Integers, Sequences, FiniteSets, StatePaths

CONSTANTS
  Scripts,               \* the scripts the user may add or load
  TypedNames,            \* task names typed at the terminal
  TypedBodies,           \* bodies of those tasks: sequences of `do` lines
  CompileAgainst(_, _),  \* script, ambient world -> report and program
  CompileTyped(_),       \* typed body -> report and statements
  InitialNames(_, _, _), \* program, vars, consts -> those with a value after
                         \* its initializers
  AssignedBy(_),         \* body -> the variables it assigns
  DevicesIn(_),          \* body -> the devices it calls or reads
  VariablesIn(_),        \* body -> the variables it mentions
  PathsIn(_),            \* body -> the state paths whose elapsed time it reads
  RefNames, VarNames, ConstNames, Devices, Paths
                         \* the names, devices and state paths of the scripts

VARIABLES
  aliases,   \* deviceAliasByRefName
  names,     \* the variables and constants that hold a value
  writers,   \* varWriterTaskByVarName
  tasks,     \* the task registry
  machines,  \* compiledStateMachines
  active,    \* activeLeafPathByMachineName
  entered,   \* the paths with an entry time (statePathEntrySimulationMs)
  animators  \* compiledAnimatorDefinitionsByName

vars == <<aliases, names, writers, tasks, machines, active, entered, animators>>

\* Entries are set, or deleted, in a map.
Updated(f, entries) ==
  [x \in DOMAIN f \cup DOMAIN entries |-> IF x \in DOMAIN entries THEN entries[x] ELSE f[x]]
Without(f, dropped) == [x \in DOMAIN f \ dropped |-> f[x]]
Elements(sequence) == {sequence[i] : i \in DOMAIN sequence}
NamesIn(sequence) == {sequence[i].name : i \in DOMAIN sequence}

NodePaths(machine) == {n.path : n \in machine.nodes}
LeafPaths(machine) == {n.path : n \in {m \in machine.nodes : m.children = <<>>}}
KnownPrefixes(registered) == UNION {PrefixSet(path) : path \in UNION {NodePaths(m) : m \in registered}}

\* buildBinderAmbientWorld and getAmbientStatePathNodePathsForSemanticCheck.
Ambient ==
  [refs |-> aliases, vars |-> names.vars, consts |-> names.consts,
   paths |-> UNION {NodePaths(m) : m \in machines}]
NothingHeld == [refs |-> <<>>, vars |-> {}, consts |-> {}, paths |-> {}]

PartialFunctions(S, T) == UNION {[D -> T] : D \in SUBSET S}
Worlds == [refs : PartialFunctions(RefNames, Devices), vars : SUBSET VarNames,
           consts : SUBSET ConstNames, paths : SUBSET Paths]

-----------------------------------------------------------------------------
(* Registration of a program.                                              *)

RowsOf(program) == program.every \o program.loops \o program.on

\* Task names are unique within a program.
Records(program) ==
  LET rows == RowsOf(program)
  IN [name \in NamesIn(rows) |->
        LET row == rows[CHOOSE i \in DOMAIN rows : rows[i].name = name]
        IN [schedule |-> row.schedule, membership |-> row.membership, statements |-> row.statements]]

\* Mutant: a ref the runtime holds does not stop an addition.
RegisteredTwiceExceptRefs(program) ==
  (NamesIn(RowsOf(program)) \cap DOMAIN tasks)
    \cup (NamesIn(program.varInitializers) \cap names.vars)
    \cup (NamesIn(program.constInitializers) \cap names.consts)
    \cup (NamesIn(program.machines) \cap {m.name : m \in machines})
    \cup (NamesIn(program.animators) \cap animators)

\* The names a program brings that are registered already, as a thing of the
\* same kind.
RegisteredTwice(program) ==
  (NamesIn(RowsOf(program)) \cap DOMAIN tasks)
    \cup (DOMAIN program.aliases \cap DOMAIN aliases)
    \cup (NamesIn(program.varInitializers) \cap names.vars)
    \cup (NamesIn(program.constInitializers) \cap names.consts)
    \cup (NamesIn(program.machines) \cap {m.name : m \in machines})
    \cup (NamesIn(program.animators) \cap animators)

\* Mutant: only a variable whose writer is no longer registered is refused.
OrphanedVariables(program) ==
  {v \in DOMAIN program.writers \cap DOMAIN writers : writers[v] \notin DOMAIN tasks}

\* The variables whose writer on record is not the one the program brings.
SecondWriters(program) ==
  {v \in DOMAIN program.writers \cap DOMAIN writers : writers[v] # program.writers[v]}

InitialLeaves(program) == [name \in NamesIn(program.machines) |->
  (CHOOSE m \in Elements(program.machines) : m.name = name).initial]
SeededPaths(program) == UNION {PrefixSet(m.initial) : m \in Elements(program.machines)}

Runnable(task, leafOf) ==
  task.membership # <<>> => \E m \in DOMAIN leafOf : Encloses(task.membership[1], leafOf[m])

\* The tasks that run before a registration returns: enter tasks of the new
\* initial states and loops.  Any of their assignments may be executed.
RunsAtOnce(registry, leafOf, seeded) ==
  {name \in DOMAIN registry :
     \/ registry[name].schedule = "enter" /\ registry[name].membership[1] \in seeded
     \/ registry[name].schedule = "loop" /\ Runnable(registry[name], leafOf)}

\* The variables a set of tasks may leave with a value.
Assignments(registry, running) ==
  SUBSET UNION {AssignedBy(registry[name].statements) : name \in running}

\* applyAdditiveCompiledProgram
Apply(program, initial) ==
  /\ animators' = animators \cup NamesIn(program.animators)
  /\ aliases' = Updated(aliases, program.aliases)
  /\ writers' = Updated(writers, program.writers)
  /\ machines' = machines \cup Elements(program.machines)
  /\ active' = Updated(active, InitialLeaves(program))
  /\ entered' = entered \cup SeededPaths(program)
  /\ tasks' = Updated(tasks, Records(program))
  /\ \E assigned \in Assignments(tasks', RunsAtOnce(tasks', active', SeededPaths(program))) :
       names' = [vars |-> initial.vars \cup assigned, consts |-> initial.consts]

\* replaceCompiledProgram: nothing registered before remains.
ReplaceBy(program, initial) ==
  /\ animators' = NamesIn(program.animators)
  /\ aliases' = program.aliases
  /\ writers' = program.writers
  /\ machines' = Elements(program.machines)
  /\ active' = InitialLeaves(program)
  /\ entered' = SeededPaths(program)
  /\ tasks' = Records(program)
  /\ \E assigned \in Assignments(tasks', RunsAtOnce(tasks', active', entered')) :
       names' = [vars |-> initial.vars \cup assigned, consts |-> initial.consts]

\* tryRegisterCompiledProgramAdditive: as a whole or not at all.
TryRegister(program) ==
  /\ RegisteredTwice(program) \cup SecondWriters(program) = {}
  /\ Apply(program, InitialNames(program, names.vars, names.consts))

AddCompiled(result) == result.report = <<>> /\ TryRegister(result.program[1])

LoadCompiled(result) ==
  /\ result.report = <<>>
  /\ ReplaceBy(result.program[1], InitialNames(result.program[1], {}, {}))

\* compileSourceAndRegisterSimulationTasks in its modes "add" and "reset".
AddScript(script) == AddCompiled(CompileAgainst(script, Ambient))
LoadScript(script) == LoadCompiled(CompileAgainst(script, NothingHeld))

\* `task <name> every ..` at the terminal.  The registry's entry is replaced
\* without a look at the old one, whose writer rows remain.
RegisterTypedTask(name, body) ==
  /\ CompileTyped(body).report = <<>>
  /\ tasks' = Updated(tasks, [typed \in {name} |->
                 [schedule |-> "every", membership |-> <<>>,
                  statements |-> CompileTyped(body).statements]])
  /\ UNCHANGED <<aliases, names, writers, machines, active, entered, animators>>

-----------------------------------------------------------------------------
(* What the compiler promises of a program it accepts, and TLC checks of   *)
(* the compiler's modules.                                                 *)

\* BindMachine: names are unique, the walk puts a state below its machine, and
\* the initial state is followed down to a leaf.
MachinesAreBound(program) ==
  \A m \in Elements(program.machines) :
    /\ m.initial \in LeafPaths(m)
    /\ \A n \in m.nodes : n.path \in Paths /\ Head(n.path) = m.name
    /\ \A k \in Elements(program.machines) : k.name = m.name => k = m

\* SemanticCheck: paths are those of the program or of the runtime, and a
\* variable has one writer, which Lower notes.
TasksAreChecked(program, world) ==
  LET known == KnownPrefixes(Elements(program.machines))
                 \cup UNION {PrefixSet(path) : path \in world.paths}
  IN \A row \in Elements(RowsOf(program)) :
       /\ row.membership = <<>> \/ \E path \in known : row.membership = <<path>>
       /\ PathsIn(row.statements) \subseteq known
       /\ AssignedBy(row.statements) \subseteq VariablesIn(row.statements) \cap VarNames
       /\ \A v \in AssignedBy(row.statements) :
            v \in DOMAIN program.writers /\ program.writers[v] = row.name

\* An initializer gives a name its value and takes none away.
ValuesAreKept(world, initial) ==
  /\ initial.vars \subseteq VarNames /\ initial.consts \subseteq ConstNames
  /\ world.vars \subseteq initial.vars /\ world.consts \subseteq initial.consts

\* A line typed at the terminal knows no name and assigns nothing.
ASSUME CompilerAssumption ==
  /\ \A script \in Scripts, world \in Worlds :
       LET result == CompileAgainst(script, world)
       IN result.report = <<>> =>
            /\ result.program[1].aliases \in PartialFunctions(RefNames, Devices)
            /\ MachinesAreBound(result.program[1])
            /\ TasksAreChecked(result.program[1], world)
            /\ ValuesAreKept(world, InitialNames(result.program[1], world.vars, world.consts))
  /\ \A body \in TypedBodies :
       LET result == CompileTyped(body)
       IN result.report = <<>> =>
            AssignedBy(result.statements) = {} /\ PathsIn(result.statements) = {}

ASSUME PathsAssumption == Paths \subseteq Seq(STRING) \ {<<>>}

-----------------------------------------------------------------------------
(* Drops.                                                                  *)

\* removeTaskAndReleaseRuntimeWriters
DropTask(name) ==
  /\ name \in DOMAIN tasks
  /\ tasks' = Without(tasks, {name})
  /\ writers' = Without(writers, {v \in DOMAIN writers : writers[v] = name})
  /\ UNCHANGED <<aliases, names, machines, active, entered, animators>>

\* tryDropRef: a task that uses the device, through whatever name, blocks it.
DropRef(name) ==
  /\ name \in DOMAIN aliases
  /\ \A t \in DOMAIN tasks : aliases[name] \notin DevicesIn(tasks[t].statements)
  /\ aliases' = Without(aliases, {name})
  /\ UNCHANGED <<names, writers, tasks, machines, active, entered, animators>>

\* tryDropVar
DropVar(name) ==
  /\ name \in names.vars
  /\ \A t \in DOMAIN tasks : name \notin VariablesIn(tasks[t].statements)
  /\ names' = [names EXCEPT !.vars = @ \ {name}]
  /\ writers' = Without(writers, {name})
  /\ UNCHANGED <<aliases, tasks, machines, active, entered, animators>>

\* findTasksDependingOnStateMachineRoot: the tasks that live in a state of the
\* machine (as a mutant, these alone) or read how long one of them is active.
LivesIn(task, name) ==
  task.membership # <<>> /\ Head(task.membership[1]) = name
DependsOnMachine(task, name) ==
  LivesIn(task, name) \/ \E path \in PathsIn(task.statements) : Head(path) = name

\* Mutant: only the states without children lose their entry times.
EntriesOfLeaves(machine) == LeafPaths(machine)
EntriesOf(machine) == UNION {PrefixSet(path) : path \in NodePaths(machine)}

\* tryDropStatePath and removeStateMachineRootByMachineName
DropMachine(name) ==
  /\ name \in DOMAIN active
  /\ \A t \in DOMAIN tasks : ~DependsOnMachine(tasks[t], name)
  /\ machines' = {m \in machines : m.name # name}
  /\ active' = Without(active, {name})
  /\ entered' = entered \ UNION {EntriesOf(m) : m \in {k \in machines : k.name = name}}
  /\ UNCHANGED <<aliases, names, writers, tasks, animators>>

-----------------------------------------------------------------------------
(* What running does to the registries.                                    *)

\* A leaf transition with the lifecycle tasks of the states left and entered.
MoveMachine(machine) ==
  \E leaf \in LeafPaths(machine) \ {active[machine.name]} :
    LET from == active[machine.name]
        touched == Elements(EnterPaths(from, leaf)) \cup Elements(ExitPaths(from, leaf))
        hooks == {t \in DOMAIN tasks : tasks[t].schedule \in {"enter", "exit"}
                                       /\ tasks[t].membership[1] \in touched}
    IN /\ active' = [active EXCEPT ![machine.name] = leaf]
       /\ entered' = entered \cup Elements(EnterPaths(from, leaf))
       /\ \E assigned \in Assignments(tasks, hooks) :
            names' = [names EXCEPT !.vars = @ \cup assigned]
       /\ UNCHANGED <<aliases, writers, tasks, machines, animators>>

\* A task's body is executed, as far as it gets.
RunTask(name) ==
  /\ Runnable(tasks[name], active)
  /\ \E assigned \in Assignments(tasks, {name}) :
       names' = [names EXCEPT !.vars = @ \cup assigned]
  /\ UNCHANGED <<aliases, writers, tasks, machines, active, entered, animators>>

Init ==
  /\ aliases = <<>> /\ writers = <<>> /\ tasks = <<>> /\ active = <<>>
  /\ names = [vars |-> {}, consts |-> {}]
  /\ machines = {} /\ entered = {} /\ animators = {}

Replace ==
  \/ \E script \in Scripts : LoadScript(script)
  \/ \E name \in TypedNames, body \in TypedBodies : RegisterTypedTask(name, body)

Drop ==
  \/ \E name \in DOMAIN tasks : DropTask(name)
  \/ \E name \in DOMAIN aliases : DropRef(name)
  \/ \E name \in names.vars : DropVar(name)
  \/ \E name \in DOMAIN active : DropMachine(name)

Next ==
  \/ \E script \in Scripts : AddScript(script)
  \/ Replace
  \/ Drop
  \/ \E name \in DOMAIN tasks : RunTask(name)
  \/ \E machine \in machines : MoveMachine(machine)

Spec == Init /\ [][Next]_vars

-----------------------------------------------------------------------------
(* Properties.                                                             *)

\* Whatever is added, dropped and registered over: a task that assigns a
\* variable is the writer the runtime has on record for it, so that no
\* variable ever has two.
SingleWriter ==
  \A t \in DOMAIN tasks : \A v \in AssignedBy(tasks[t].statements) :
    v \in DOMAIN writers /\ writers[v] = t

\* Every state a registered task lives in, or whose elapsed time its body
\* reads, belongs to a registered machine.
TasksFindTheirStates ==
  \A t \in DOMAIN tasks :
    (Elements(tasks[t].membership) \cup PathsIn(tasks[t].statements)) \subseteq KnownPrefixes(machines)

\* The tables of the machines agree, however machines come and go: each
\* registered machine has one active leaf, a leaf of its own, and nothing else
\* has one.  Entry times exist for states of registered machines only, and for
\* every state a machine is in: a machine that is dropped and added again
\* starts with no elapsed time of its earlier life.
MachineTablesAgree ==
  /\ \A m \in machines : m.name \in DOMAIN active /\ active[m.name] \in LeafPaths(m)
  /\ \A name \in DOMAIN active : \E m \in machines : m.name = name
  /\ \A m, k \in machines : m.name = k.name => m = k
  /\ entered \subseteq KnownPrefixes(machines)
  /\ \A name \in DOMAIN active : PrefixSet(active[name]) \subseteq entered

Extends(new, old) == \A x \in DOMAIN old : x \in DOMAIN new /\ new[x] = old[x]

NothingOverwritten ==
  /\ Extends(tasks', tasks) /\ Extends(aliases', aliases) /\ Extends(writers', writers)
  /\ machines \subseteq machines' /\ animators \subseteq animators'
  /\ names.vars \subseteq names'.vars /\ names.consts \subseteq names'.consts
  /\ machines' # machines => Extends(active', active)

\* Only a drop, a load in place of everything and a task typed over another
\* take something away.  An addition leaves what is registered as it was: no
\* task, ref, writer or machine is replaced, and no machine leaves its state.
AdditionsOverwriteNothing == [][Drop \/ Replace \/ NothingOverwritten]_vars
=============================================================================
