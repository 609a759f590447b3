-------------------------- MODULE RuntimeWorldProofs --------------------------
(***************************************************************************)
(* Proofs about the registries of a running simulator, for any scripts and *)
(* any compiler that keeps CompilerAssumption: variables keep one writer,  *)
(* tasks find their states, the tables of the machines agree, and          *)
(* additions overwrite nothing.                                            *)
(***************************************************************************)
EXTENDS RuntimeWorld, WellFoundedInduction, TLAPS

\* What a task mentions is registered, and droppable only after the task.
TaskIsSound(task, known) ==
  /\ task.membership = <<>> \/ \E path \in known : task.membership = <<path>>
  /\ PathsIn(task.statements) \subseteq known
  /\ AssignedBy(task.statements) \subseteq VariablesIn(task.statements) \cap VarNames

RegistriesAreSound ==
  /\ aliases \in PartialFunctions(RefNames, Devices)
  /\ names \in [vars : SUBSET VarNames, consts : SUBSET ConstNames]
  /\ \A m \in machines : \A n \in m.nodes : n.path \in Paths /\ Head(n.path) = m.name
  /\ \A t \in DOMAIN tasks : TaskIsSound(tasks[t], KnownPrefixes(machines))

WorldInvariant == RegistriesAreSound /\ SingleWriter /\ MachineTablesAgree

------------------------------------------------------------------------------
\* Operators

\* A known path is the beginning of a state of a registered machine.
LEMMA KnownPrefixesOfStates ==
  ASSUME NEW registered, NEW path
  PROVE  path \in KnownPrefixes(registered) <=>
           \E m \in registered : \E n \in m.nodes : path \in PrefixSet(n.path)
BY DEF KnownPrefixes, NodePaths

\* Two sets of machines together know what each of them knows.
LEMMA KnownPrefixesOfUnion ==
  ASSUME NEW left, NEW right
  PROVE  KnownPrefixes(left \cup right) = KnownPrefixes(left) \cup KnownPrefixes(right)
<1>1. \A path : path \in KnownPrefixes(left \cup right) <=>
                  path \in KnownPrefixes(left) \/ path \in KnownPrefixes(right)
  BY KnownPrefixesOfStates
<1> QED BY <1>1

\* The states that enclose a state have its machine's name at their head.
LEMMA HeadOfPrefix ==
  ASSUME NEW path \in Paths, NEW prefix \in PrefixSet(path)
  PROVE  Head(prefix) = Head(path)
<1>1. path \in Seq(STRING) /\ path # <<>>
  BY PathsAssumption
<1>2. PICK n \in 1..Len(path) : prefix = SubSeq(path, 1, n)
  BY DEF PrefixSet, Ancestor
<1>3. Head(SubSeq(path, 1, n)) = path[1]
  BY <1>1, <1>2
<1>4. Head(path) = path[1]
  BY <1>1
<1> QED BY <1>2, <1>3, <1>4

\* Two paths share as many leading segments as the path arithmetic says: of the
\* shared lengths, which none of the paths exceeds, there is a greatest.
LEMMA CommonLengthIsShared ==
  ASSUME NEW left \in Seq(STRING), NEW right \in Seq(STRING)
  PROVE  CommonLength(left, right) \in SharedLengths(left, right)
<1>1. PICK n \in Nat : n = Len(left)
  OBVIOUS
<1>2. PICK shared : shared = SharedLengths(left, right)
  OBVIOUS
<1>3. shared \subseteq 0..n /\ 0 \in shared
  BY <1>1, <1>2 DEF SharedLengths
<1> DEFINE Distances == {n - k : k \in shared}
<1>4. Distances \subseteq Nat /\ n - 0 \in Distances
  BY <1>3
<1>5. PICK d \in Distances : \A e \in Distances : ~ (<<e, d>> \in OpToRel(<, Nat))
  <2> HIDE DEF Distances
  <2> QED  BY <1>4, WFMin, NatLessThanWellFounded
<1>6. PICK m \in shared : d = n - m
  OBVIOUS
<1>7. ASSUME NEW k \in shared
      PROVE  k <= m
  <2>1. n - k \in Distances /\ n - k \in Nat /\ d \in Nat
    BY <1>3, <1>4
  <2>2. ~ (n - k < d)
    <3> HIDE DEF Distances
    <3> QED  BY <1>5, <2>1 DEF OpToRel
  <2> QED  BY <1>3, <1>6, <2>1, <2>2
<1> QED  BY <1>2, <1>6, <1>7 DEF CommonLength

\* A transition enters states of the new leaf only, and of these all that the
\* old leaf does not lie in.
LEMMA EnteredOrSharedStates ==
  ASSUME NEW old \in Seq(STRING), NEW new \in Seq(STRING)
  PROVE  /\ Elements(EnterPaths(old, new)) \subseteq PrefixSet(new)
         /\ PrefixSet(new) \subseteq PrefixSet(old) \cup Elements(EnterPaths(old, new))
<1> DEFINE common == CommonLength(old, new)
           entering == EnterPaths(old, new)
<1>1. common \in SharedLengths(old, new) /\ common \in 0..Len(old) /\ common \in 0..Len(new)
  BY CommonLengthIsShared DEF SharedLengths
<1>2. /\ DOMAIN entering = 1..(Len(new) - common)
      /\ \A i \in DOMAIN entering : entering[i] = Ancestor(new, common + i)
  BY DEF EnterPaths
<1>3. Len(old) \in Nat /\ Len(new) \in Nat
  OBVIOUS
<1> HIDE DEF common, entering
<1>4. ASSUME NEW i \in DOMAIN entering
      PROVE  entering[i] \in PrefixSet(new)
  <2>1. common + i \in 1..Len(new)
    BY <1>1, <1>2, <1>3
  <2> QED BY <1>2, <2>1 DEF PrefixSet
<1>5. ASSUME NEW n \in 1..Len(new)
      PROVE  Ancestor(new, n) \in PrefixSet(old) \cup Elements(entering)
  <2>1. CASE n <= common
    <3>1. n \in 1..Len(old) /\ \A i \in 1..n : old[i] = new[i]
      BY <1>1, <1>3, <2>1 DEF SharedLengths
    <3>2. Ancestor(new, n) = Ancestor(old, n)
      BY <3>1 DEF Ancestor
    <3> QED BY <3>1, <3>2 DEF PrefixSet
  <2>2. CASE n > common
    <3>1. n - common \in DOMAIN entering /\ common + (n - common) = n
      BY <1>1, <1>2, <1>3, <2>2
    <3>2. entering[n - common] = Ancestor(new, n)
      BY <1>2, <3>1
    <3> QED BY <3>1, <3>2 DEF Elements
  <2> QED BY <1>1, <1>3, <2>1, <2>2
<1> QED BY <1>4, <1>5 DEF Elements, PrefixSet, entering

\* What the compiler is told of the runtime is one of the worlds the
\* assumption speaks of.
LEMMA AmbientIsAWorld ==
  ASSUME RegistriesAreSound
  PROVE  /\ Ambient \in Worlds
         /\ UNION {PrefixSet(path) : path \in Ambient.paths} = KnownPrefixes(machines)
<1>1. UNION {NodePaths(m) : m \in machines} \subseteq Paths
  BY DEF RegistriesAreSound, NodePaths
<1> QED BY <1>1 DEF RegistriesAreSound, Ambient, Worlds, KnownPrefixes

\* The empty runtime is a world a script can be compiled against.
LEMMA NothingIsAWorld ==
  /\ NothingHeld \in Worlds
  /\ UNION {PrefixSet(path) : path \in NothingHeld.paths} = {}
<1>1. <<>> \in [{} -> Devices]
  OBVIOUS
<1>2. <<>> \in PartialFunctions(RefNames, Devices)
  BY <1>1 DEF PartialFunctions
<1> QED BY <1>2 DEF NothingHeld, Worlds

\* An entry of the task registry is a row of the program.
LEMMA RecordsAreRows ==
  ASSUME NEW program, NEW name \in DOMAIN Records(program)
  PROVE  \E row \in Elements(RowsOf(program)) :
           /\ row.name = name /\ Records(program)[name].membership = row.membership
           /\ Records(program)[name].statements = row.statements
<1> DEFINE rows == RowsOf(program)
           index == CHOOSE i \in DOMAIN rows : rows[i].name = name
<1>1. name \in NamesIn(rows)
  BY DEF Records
<1>2. index \in DOMAIN rows /\ rows[index].name = name
  BY <1>1 DEF NamesIn
<1>3. /\ Records(program)[name].membership = rows[index].membership
      /\ Records(program)[name].statements = rows[index].statements
  BY <1>1 DEF Records
<1> QED BY <1>2, <1>3 DEF Elements

\* The tasks of an accepted script find their states in the new registries.
LEMMA NewTasksAreSound ==
  ASSUME NEW program, NEW world, TasksAreChecked(program, world), NEW known,
         known = KnownPrefixes(Elements(program.machines))
                   \cup UNION {PrefixSet(path) : path \in world.paths}
  PROVE  \A t \in DOMAIN Records(program) :
           /\ TaskIsSound(Records(program)[t], known)
           /\ \A v \in AssignedBy(Records(program)[t].statements) :
                v \in DOMAIN program.writers /\ program.writers[v] = t
<1> SUFFICES ASSUME NEW t \in DOMAIN Records(program)
             PROVE  /\ TaskIsSound(Records(program)[t], known)
                    /\ \A v \in AssignedBy(Records(program)[t].statements) :
                         v \in DOMAIN program.writers /\ program.writers[v] = t
  OBVIOUS
<1>1. PICK row \in Elements(RowsOf(program)) :
        /\ row.name = t /\ Records(program)[t].membership = row.membership
        /\ Records(program)[t].statements = row.statements
  BY RecordsAreRows
<1> QED BY <1>1 DEF TasksAreChecked, TaskIsSound

\* A machine is registered with a leaf of its own, whose states are seeded.
LEMMA NewMachinesAreSound ==
  ASSUME NEW program, MachinesAreBound(program)
  PROVE  LET new == Elements(program.machines)  leaves == InitialLeaves(program)
         IN  /\ \A m \in new : m.name \in DOMAIN leaves /\ leaves[m.name] \in LeafPaths(m)
             /\ \A name \in DOMAIN leaves : \E m \in new : m.name = name
             /\ SeededPaths(program) \subseteq KnownPrefixes(new)
             /\ \A name \in DOMAIN leaves : PrefixSet(leaves[name]) \subseteq SeededPaths(program)
<1> DEFINE new == Elements(program.machines)
           leaves == InitialLeaves(program)
           named(name) == CHOOSE m \in new : m.name = name
<1>1. DOMAIN leaves = {m.name : m \in new} /\ \A name \in DOMAIN leaves : leaves[name] = named(name).initial
  BY DEF InitialLeaves, NamesIn, Elements
<1>2. \A m \in new : named(m.name) = m
  BY DEF MachinesAreBound
<1>3. \A m \in new : m.name \in DOMAIN leaves /\ leaves[m.name] = m.initial
  BY <1>1, <1>2
<1>4. \A m \in new : m.initial \in LeafPaths(m) /\ PrefixSet(m.initial) \subseteq KnownPrefixes(new)
  <2> SUFFICES ASSUME NEW m \in new
               PROVE  m.initial \in LeafPaths(m) /\ PrefixSet(m.initial) \subseteq KnownPrefixes(new)
    OBVIOUS
  <2>1. m.initial \in LeafPaths(m)
    BY DEF MachinesAreBound
  <2>2. PICK n \in m.nodes : m.initial = n.path
    BY <2>1 DEF LeafPaths
  <2> HIDE DEF new
  <2> QED BY <2>1, <2>2, KnownPrefixesOfStates
<1> HIDE DEF leaves
<1>5. /\ \A name \in DOMAIN leaves : \E m \in new : m.name = name /\ leaves[name] = m.initial
      /\ SeededPaths(program) = UNION {PrefixSet(m.initial) : m \in new}
  BY <1>1, <1>3 DEF SeededPaths
<1> HIDE DEF new, named
<1>6. SeededPaths(program) \subseteq KnownPrefixes(new)
  BY <1>4, <1>5
<1>7. \A name \in DOMAIN leaves : PrefixSet(leaves[name]) \subseteq SeededPaths(program)
  BY <1>5
<1> QED BY <1>3, <1>4, <1>5, <1>6, <1>7 DEF new, leaves

\* Whatever of their assignments tasks execute, variables get a value.
LEMMA AssignmentsAreVariables ==
  ASSUME NEW registry, NEW known, \A t \in DOMAIN registry : TaskIsSound(registry[t], known),
         NEW running, running \subseteq DOMAIN registry,
         NEW assigned \in Assignments(registry, running)
  PROVE  assigned \subseteq VarNames
BY DEF Assignments, TaskIsSound

\* More states that are known change nothing for a task.
LEMMA SoundnessIsMonotonic ==
  ASSUME NEW task, NEW known, NEW more, known \subseteq more, TaskIsSound(task, known)
  PROVE  TaskIsSound(task, more)
BY DEF TaskIsSound

\* What an addition may not bring keeps it apart from what is registered.
LEMMA NothingRegisteredTwice ==
  ASSUME MachineTablesAgree, NEW program, RegisteredTwice(program) \cup SecondWriters(program) = {}
  PROVE  /\ DOMAIN Records(program) \cap DOMAIN tasks = {}
         /\ DOMAIN InitialLeaves(program) \cap DOMAIN active = {}
         /\ DOMAIN program.aliases \cap DOMAIN aliases = {}
         /\ \A v \in DOMAIN program.writers \cap DOMAIN writers : writers[v] = program.writers[v]
<1>1. DOMAIN Records(program) = NamesIn(RowsOf(program))
  BY DEF Records
<1>2. DOMAIN InitialLeaves(program) = NamesIn(program.machines)
  BY DEF InitialLeaves
<1>3. RegisteredTwice(program) = {} /\ SecondWriters(program) = {}
  OBVIOUS
<1>4. /\ NamesIn(RowsOf(program)) \cap DOMAIN tasks = {}
      /\ NamesIn(program.machines) \cap {m.name : m \in machines} = {}
      /\ DOMAIN program.aliases \cap DOMAIN aliases = {}
  BY <1>3 DEF RegisteredTwice
<1>5. \A v \in DOMAIN program.writers \cap DOMAIN writers : writers[v] = program.writers[v]
  BY <1>3 DEF SecondWriters
<1>6. DOMAIN active \subseteq {m.name : m \in machines}
  BY DEF MachineTablesAgree
<1> QED BY <1>1, <1>2, <1>4, <1>5, <1>6

\* The tasks that run at once are registered.
LEMMA RunningTasksAreRegistered ==
  ASSUME NEW registry, NEW leafOf, NEW seeded
  PROVE  RunsAtOnce(registry, leafOf, seeded) \subseteq DOMAIN registry
BY DEF RunsAtOnce

------------------------------------------------------------------------------
\* Additions and loads

\* An accepted addition keeps the registries sound, one writer for a variable
\* and the tables of the machines in agreement.
LEMMA AdditionKeepsTheWorld ==
  ASSUME WorldInvariant, NEW program, NEW initial,
         RegisteredTwice(program) \cup SecondWriters(program) = {},
         program.aliases \in PartialFunctions(RefNames, Devices),
         MachinesAreBound(program), TasksAreChecked(program, Ambient),
         ValuesAreKept(Ambient, initial), Apply(program, initial)
  PROVE  WorldInvariant'
<1> DEFINE new == Elements(program.machines)
           leaves == InitialLeaves(program)
           added == Records(program)
           known == KnownPrefixes(machines')
<1>1. /\ RegistriesAreSound /\ SingleWriter /\ MachineTablesAgree
      /\ DOMAIN added \cap DOMAIN tasks = {}
      /\ DOMAIN leaves \cap DOMAIN active = {}
      /\ \A v \in DOMAIN program.writers \cap DOMAIN writers : writers[v] = program.writers[v]
  BY NothingRegisteredTwice DEF WorldInvariant
<1>2. /\ machines' = machines \cup new
      /\ active' = Updated(active, leaves)
      /\ entered' = entered \cup SeededPaths(program)
      /\ tasks' = Updated(tasks, added)
      /\ writers' = Updated(writers, program.writers)
      /\ aliases' = Updated(aliases, program.aliases)
      /\ \E assigned \in Assignments(tasks', RunsAtOnce(tasks', active', SeededPaths(program))) :
           names' = [vars |-> initial.vars \cup assigned, consts |-> initial.consts]
  BY DEF Apply
<1>3. known = KnownPrefixes(new) \cup KnownPrefixes(machines)
  BY <1>2, KnownPrefixesOfUnion
<1>4. known = KnownPrefixes(new) \cup UNION {PrefixSet(path) : path \in Ambient.paths}
  BY <1>1, <1>3, AmbientIsAWorld
<1>5. \A t \in DOMAIN added :
        /\ TaskIsSound(added[t], known)
        /\ \A v \in AssignedBy(added[t].statements) :
             v \in DOMAIN program.writers /\ program.writers[v] = t
  <2> HIDE DEF known
  <2> QED BY <1>4, NewTasksAreSound
<1>6. /\ \A m \in new : m.name \in DOMAIN leaves /\ leaves[m.name] \in LeafPaths(m)
      /\ \A name \in DOMAIN leaves : \E m \in new : m.name = name
      /\ SeededPaths(program) \subseteq KnownPrefixes(new)
      /\ \A name \in DOMAIN leaves : PrefixSet(leaves[name]) \subseteq SeededPaths(program)
  BY NewMachinesAreSound
<1>7. \A t \in DOMAIN tasks :
        /\ TaskIsSound(tasks[t], known)
        /\ \A v \in AssignedBy(tasks[t].statements) : v \in DOMAIN writers /\ writers[v] = t
  BY <1>1, <1>3, SoundnessIsMonotonic DEF RegistriesAreSound, SingleWriter
<1>8. \A t \in DOMAIN tasks' :
        \/ t \in DOMAIN added /\ tasks'[t] = added[t]
        \/ t \in DOMAIN tasks /\ tasks'[t] = tasks[t]
  BY <1>2 DEF Updated
<1>9. \A v : /\ v \in DOMAIN writers => v \in DOMAIN writers' /\ writers'[v] = writers[v]
             /\ v \in DOMAIN program.writers => v \in DOMAIN writers' /\ writers'[v] = program.writers[v]
  BY <1>1, <1>2 DEF Updated
<1>10. /\ DOMAIN active' = DOMAIN active \cup DOMAIN leaves
       /\ \A name \in DOMAIN active : active'[name] = active[name]
       /\ \A name \in DOMAIN leaves : active'[name] = leaves[name]
  BY <1>1, <1>2 DEF Updated
<1> HIDE DEF leaves, added, known
<1>11. SingleWriter'
  <2>1. \A t \in DOMAIN tasks' : \A v \in AssignedBy(tasks'[t].statements) :
          v \in DOMAIN writers' /\ writers'[v] = t
    BY <1>5, <1>7, <1>8, <1>9
  <2> QED BY <2>1 DEF SingleWriter
<1>12. MachineTablesAgree'
  <2>1. /\ \A m \in machines : m.name \in DOMAIN active /\ active[m.name] \in LeafPaths(m)
        /\ \A name \in DOMAIN active : \E m \in machines : m.name = name
        /\ \A m, k \in machines : m.name = k.name => m = k
        /\ entered \subseteq KnownPrefixes(machines)
        /\ \A name \in DOMAIN active : PrefixSet(active[name]) \subseteq entered
    BY <1>1 DEF MachineTablesAgree
  <2>2. \A m \in machines' : m.name \in DOMAIN active' /\ active'[m.name] \in LeafPaths(m)
    BY <1>2, <1>6, <1>10, <2>1
  <2>3. \A name \in DOMAIN active' : \E m \in machines' : m.name = name
    BY <1>2, <1>6, <1>10, <2>1
  <2>4. \A m, k \in new : m.name = k.name => m = k
    BY DEF MachinesAreBound
  <2>5. \A m, k \in machines' : m.name = k.name => m = k
    BY <1>1, <1>2, <1>6, <2>1, <2>4
  <2>6. entered' \subseteq known
    BY <1>2, <1>3, <1>6, <2>1
  <2>7. \A name \in DOMAIN active' : PrefixSet(active'[name]) \subseteq entered'
    BY <1>2, <1>6, <1>10, <2>1
  <2> QED BY <2>2, <2>3, <2>5, <2>6, <2>7 DEF MachineTablesAgree, known
<1>13. RegistriesAreSound'
  <2>1. \A t \in DOMAIN tasks' : TaskIsSound(tasks'[t], known)
    BY <1>5, <1>7, <1>8
  <2>2. \A m \in machines' : \A n \in m.nodes : n.path \in Paths /\ Head(n.path) = m.name
    BY <1>1, <1>2 DEF RegistriesAreSound, MachinesAreBound
  <2>3. aliases' \in PartialFunctions(RefNames, Devices)
    BY <1>1, <1>2 DEF RegistriesAreSound, PartialFunctions, Updated
  <2>4. names' \in [vars : SUBSET VarNames, consts : SUBSET ConstNames]
    <3>1. PICK assigned \in Assignments(tasks', RunsAtOnce(tasks', active', SeededPaths(program))) :
            names' = [vars |-> initial.vars \cup assigned, consts |-> initial.consts]
      BY <1>2
    <3>2. assigned \subseteq VarNames
      BY <2>1, RunningTasksAreRegistered, AssignmentsAreVariables
    <3> QED BY <3>1, <3>2 DEF ValuesAreKept
  <2> QED BY <2>1, <2>2, <2>3, <2>4 DEF RegistriesAreSound, known
<1> QED BY <1>11, <1>12, <1>13 DEF WorldInvariant

\* A load in place of everything establishes them whatever was there before.
LEMMA LoadEstablishesTheWorld ==
  ASSUME NEW program, NEW initial,
         program.aliases \in PartialFunctions(RefNames, Devices),
         MachinesAreBound(program), TasksAreChecked(program, NothingHeld),
         ValuesAreKept(NothingHeld, initial), ReplaceBy(program, initial)
  PROVE  WorldInvariant'
<1> DEFINE new == Elements(program.machines)
           leaves == InitialLeaves(program)
           added == Records(program)
           known == KnownPrefixes(machines')
<1>1. /\ machines' = new /\ active' = leaves /\ tasks' = added
      /\ entered' = SeededPaths(program)
      /\ writers' = program.writers /\ aliases' = program.aliases
      /\ \E assigned \in Assignments(tasks', RunsAtOnce(tasks', active', entered')) :
           names' = [vars |-> initial.vars \cup assigned, consts |-> initial.consts]
  BY DEF ReplaceBy
<1>2. known = KnownPrefixes(new) \cup UNION {PrefixSet(path) : path \in NothingHeld.paths}
  BY <1>1, NothingIsAWorld
<1>3. \A t \in DOMAIN added :
        /\ TaskIsSound(added[t], known)
        /\ \A v \in AssignedBy(added[t].statements) :
             v \in DOMAIN program.writers /\ program.writers[v] = t
  <2> HIDE DEF known
  <2> QED BY <1>2, NewTasksAreSound
<1>4. /\ \A m \in new : m.name \in DOMAIN leaves /\ leaves[m.name] \in LeafPaths(m)
      /\ \A name \in DOMAIN leaves : \E m \in new : m.name = name
      /\ SeededPaths(program) \subseteq KnownPrefixes(new)
      /\ \A name \in DOMAIN leaves : PrefixSet(leaves[name]) \subseteq SeededPaths(program)
  BY NewMachinesAreSound
<1>5. \A m, k \in new : m.name = k.name => m = k
  BY DEF MachinesAreBound
<1>6. \A m \in new : \A n \in m.nodes : n.path \in Paths /\ Head(n.path) = m.name
  BY DEF MachinesAreBound
<1> HIDE DEF new, leaves, added, known
<1>7. MachineTablesAgree'
  BY <1>1, <1>4, <1>5 DEF MachineTablesAgree
<1>8. \A t \in DOMAIN tasks' : TaskIsSound(tasks'[t], known)
  BY <1>1, <1>3
<1>9. names' \in [vars : SUBSET VarNames, consts : SUBSET ConstNames]
  <2>1. PICK assigned \in Assignments(tasks', RunsAtOnce(tasks', active', entered')) :
          names' = [vars |-> initial.vars \cup assigned, consts |-> initial.consts]
    BY <1>1
  <2>2. assigned \subseteq VarNames
    BY <1>8, <2>1, RunningTasksAreRegistered, AssignmentsAreVariables
  <2> QED BY <2>1, <2>2 DEF ValuesAreKept
<1>10. RegistriesAreSound'
  BY <1>1, <1>6, <1>8, <1>9 DEF RegistriesAreSound, known
<1>11. SingleWriter'
  BY <1>1, <1>3 DEF SingleWriter
<1> QED BY <1>7, <1>10, <1>11 DEF WorldInvariant

\* What an accepted script brings, compiled against any world of the runtime.
LEMMA AcceptedScript ==
  ASSUME NEW script \in Scripts, NEW world \in Worlds,
         CompileAgainst(script, world).report = <<>>, NEW program,
         program = CompileAgainst(script, world).program[1]
  PROVE  /\ program.aliases \in PartialFunctions(RefNames, Devices)
         /\ MachinesAreBound(program)
         /\ TasksAreChecked(program, world)
         /\ ValuesAreKept(world, InitialNames(program, world.vars, world.consts))
BY CompilerAssumption

\* An addition that is accepted keeps the registries in agreement.
LEMMA AddScriptKeepsTheWorld ==
  ASSUME WorldInvariant, NEW script \in Scripts, AddScript(script)
  PROVE  WorldInvariant'
<1> DEFINE program == CompileAgainst(script, Ambient).program[1]
           initial == InitialNames(program, names.vars, names.consts)
<1>1. /\ CompileAgainst(script, Ambient).report = <<>>
      /\ RegisteredTwice(program) \cup SecondWriters(program) = {}
      /\ Apply(program, initial)
  BY DEF AddScript, AddCompiled, TryRegister
<1>2. Ambient \in Worlds
  BY AmbientIsAWorld DEF WorldInvariant
<1>3. Ambient.vars = names.vars /\ Ambient.consts = names.consts
  BY DEF Ambient
<1>4. /\ program.aliases \in PartialFunctions(RefNames, Devices)
      /\ MachinesAreBound(program)
      /\ TasksAreChecked(program, Ambient)
      /\ ValuesAreKept(Ambient, initial)
  <2> HIDE DEF initial
  <2>1. ValuesAreKept(Ambient, InitialNames(program, Ambient.vars, Ambient.consts))
    BY <1>1, <1>2, AcceptedScript
  <2>2. ValuesAreKept(Ambient, initial)
    BY <1>3, <2>1 DEF initial
  <2> QED BY <1>1, <1>2, <2>2, AcceptedScript
<1> HIDE DEF program, initial
<1> QED BY <1>1, <1>4, AdditionKeepsTheWorld

\* So does a load, which starts from the empty runtime.
LEMMA LoadScriptKeepsTheWorld ==
  ASSUME NEW script \in Scripts, LoadScript(script)
  PROVE  WorldInvariant'
<1> DEFINE program == CompileAgainst(script, NothingHeld).program[1]
           initial == InitialNames(program, {}, {})
<1>1. CompileAgainst(script, NothingHeld).report = <<>> /\ ReplaceBy(program, initial)
  BY DEF LoadScript, LoadCompiled
<1>2. NothingHeld \in Worlds
  BY NothingIsAWorld
<1>3. NothingHeld.vars = {} /\ NothingHeld.consts = {}
  BY DEF NothingHeld
<1>4. /\ program.aliases \in PartialFunctions(RefNames, Devices)
      /\ MachinesAreBound(program)
      /\ TasksAreChecked(program, NothingHeld)
      /\ ValuesAreKept(NothingHeld, initial)
  <2> HIDE DEF initial
  <2>1. ValuesAreKept(NothingHeld, InitialNames(program, NothingHeld.vars, NothingHeld.consts))
    BY <1>1, <1>2, AcceptedScript
  <2>2. ValuesAreKept(NothingHeld, initial)
    BY <1>3, <2>1 DEF initial
  <2> QED BY <1>1, <1>2, <2>2, AcceptedScript
<1> HIDE DEF program, initial
<1> QED BY <1>1, <1>4, LoadEstablishesTheWorld

\* A task typed at the terminal assigns nothing and reads no state's clock,
\* whatever entry it replaces.
LEMMA RegisterTypedTaskKeepsTheWorld ==
  ASSUME WorldInvariant, NEW name, NEW body \in TypedBodies, RegisterTypedTask(name, body)
  PROVE  WorldInvariant'
<1> DEFINE typed == [schedule |-> "every", membership |-> <<>>,
                     statements |-> CompileTyped(body).statements]
<1>1. /\ CompileTyped(body).report = <<>>
      /\ tasks' = Updated(tasks, [x \in {name} |-> typed])
      /\ UNCHANGED <<aliases, names, writers, machines, active, entered, animators>>
  BY DEF RegisterTypedTask
<1>2. AssignedBy(typed.statements) = {} /\ PathsIn(typed.statements) = {}
  BY <1>1, CompilerAssumption
<1>3. typed.membership = <<>>
  OBVIOUS
<1> HIDE DEF typed
<1>4. \A t \in DOMAIN tasks' :
        tasks'[t] = typed \/ (t \in DOMAIN tasks /\ tasks'[t] = tasks[t])
  BY <1>1 DEF Updated
<1>5. \A known : TaskIsSound(typed, known)
  BY <1>2, <1>3 DEF TaskIsSound
<1>6. SingleWriter'
  BY <1>1, <1>2, <1>4 DEF WorldInvariant, SingleWriter
<1>7. RegistriesAreSound'
  BY <1>1, <1>4, <1>5 DEF WorldInvariant, RegistriesAreSound
<1>8. MachineTablesAgree'
  BY <1>1 DEF WorldInvariant, MachineTablesAgree
<1> QED BY <1>6, <1>7, <1>8 DEF WorldInvariant

------------------------------------------------------------------------------
\* Drops

\* A task goes with the rows that name it a writer, and no others.
LEMMA DropTaskKeepsTheWorld ==
  ASSUME WorldInvariant, NEW name, DropTask(name)
  PROVE  WorldInvariant'
<1>1. /\ tasks' = Without(tasks, {name})
      /\ writers' = Without(writers, {v \in DOMAIN writers : writers[v] = name})
      /\ UNCHANGED <<aliases, names, machines, active, entered, animators>>
  BY DEF DropTask
<1>2. \A t \in DOMAIN tasks' : t \in DOMAIN tasks /\ tasks'[t] = tasks[t] /\ t # name
  BY <1>1 DEF Without
<1>3. \A v \in DOMAIN writers : writers[v] # name =>
        v \in DOMAIN writers' /\ writers'[v] = writers[v]
  BY <1>1 DEF Without
<1>4. SingleWriter'
  BY <1>2, <1>3 DEF WorldInvariant, SingleWriter
<1>5. RegistriesAreSound'
  BY <1>1, <1>2 DEF WorldInvariant, RegistriesAreSound
<1>6. MachineTablesAgree'
  BY <1>1 DEF WorldInvariant, MachineTablesAgree
<1> QED BY <1>4, <1>5, <1>6 DEF WorldInvariant

\* A dropped ref leaves the other registries alone.
LEMMA DropRefKeepsTheWorld ==
  ASSUME WorldInvariant, NEW name, DropRef(name)
  PROVE  WorldInvariant'
<1>1. /\ aliases' = Without(aliases, {name})
      /\ UNCHANGED <<names, writers, tasks, machines, active, entered, animators>>
  BY DEF DropRef
<1>2. aliases' \in PartialFunctions(RefNames, Devices)
  BY <1>1 DEF WorldInvariant, RegistriesAreSound, PartialFunctions, Without
<1>3. RegistriesAreSound'
  BY <1>1, <1>2 DEF WorldInvariant, RegistriesAreSound
<1>4. SingleWriter' /\ MachineTablesAgree'
  BY <1>1 DEF WorldInvariant, SingleWriter, MachineTablesAgree
<1> QED BY <1>3, <1>4 DEF WorldInvariant

\* Only a variable that no task mentions goes, so that no writer is forgotten.
LEMMA DropVarKeepsTheWorld ==
  ASSUME WorldInvariant, NEW name, DropVar(name)
  PROVE  WorldInvariant'
<1>1. /\ \A t \in DOMAIN tasks : name \notin VariablesIn(tasks[t].statements)
      /\ names' = [names EXCEPT !.vars = @ \ {name}]
      /\ writers' = Without(writers, {name})
      /\ UNCHANGED <<aliases, tasks, machines, active, entered, animators>>
  BY DEF DropVar
<1>2. \A t \in DOMAIN tasks : name \notin AssignedBy(tasks[t].statements)
  BY <1>1 DEF WorldInvariant, RegistriesAreSound, TaskIsSound
<1>3. \A v \in DOMAIN writers \ {name} : v \in DOMAIN writers' /\ writers'[v] = writers[v]
  BY <1>1 DEF Without
<1>4. SingleWriter'
  BY <1>1, <1>2, <1>3 DEF WorldInvariant, SingleWriter
<1>5. names' \in [vars : SUBSET VarNames, consts : SUBSET ConstNames]
  BY <1>1 DEF WorldInvariant, RegistriesAreSound
<1>6. RegistriesAreSound'
  BY <1>1, <1>5 DEF WorldInvariant, RegistriesAreSound
<1>7. MachineTablesAgree'
  BY <1>1 DEF WorldInvariant, MachineTablesAgree
<1> QED BY <1>4, <1>6, <1>7 DEF WorldInvariant

\* The states of a machine that goes have its name at their head: no task that
\* stays needs them, and no other machine has one of them.
LEMMA DropMachineKeepsTheWorld ==
  ASSUME WorldInvariant, NEW name, DropMachine(name)
  PROVE  WorldInvariant'
<1> DEFINE known == KnownPrefixes(machines)
           left == KnownPrefixes(machines')
<1>1. /\ \A t \in DOMAIN tasks : ~DependsOnMachine(tasks[t], name)
      /\ machines' = {m \in machines : m.name # name}
      /\ active' = Without(active, {name})
      /\ entered' = entered \ UNION {EntriesOf(m) : m \in {k \in machines : k.name = name}}
      /\ UNCHANGED <<aliases, names, writers, tasks, animators>>
  BY DEF DropMachine
<1>2. RegistriesAreSound /\ SingleWriter /\ MachineTablesAgree
  BY DEF WorldInvariant
<1>3. \A m \in machines : \A n \in m.nodes : \A path \in PrefixSet(n.path) : Head(path) = m.name
  BY <1>2, HeadOfPrefix DEF RegistriesAreSound
<1>4. \A path \in known : Head(path) # name => path \in left
  BY <1>1, <1>3, KnownPrefixesOfStates
<1>5. \A m \in machines : \A path \in EntriesOf(m) : Head(path) = m.name
  BY <1>3 DEF EntriesOf, NodePaths
<1>6. \A t \in DOMAIN tasks : TaskIsSound(tasks[t], left)
  <2> SUFFICES ASSUME NEW t \in DOMAIN tasks
               PROVE  TaskIsSound(tasks[t], left)
    OBVIOUS
  <2>1. TaskIsSound(tasks[t], known)
    BY <1>2 DEF RegistriesAreSound
  <2>2. ~LivesIn(tasks[t], name) /\ \A path \in PathsIn(tasks[t].statements) : Head(path) # name
    BY <1>1 DEF DependsOnMachine
  <2> HIDE DEF known, left
  <2>3. PathsIn(tasks[t].statements) \subseteq left
    BY <1>4, <2>1, <2>2 DEF TaskIsSound
  <2>4. tasks[t].membership = <<>> \/ \E path \in left : tasks[t].membership = <<path>>
    <3>1. CASE tasks[t].membership # <<>>
      <4>1. PICK path \in known : tasks[t].membership = <<path>>
        BY <2>1, <3>1 DEF TaskIsSound
      <4>2. tasks[t].membership[1] = path
        BY <4>1
      <4>3. Head(path) # name
        BY <2>2, <3>1, <4>2 DEF LivesIn
      <4> QED BY <1>4, <4>1, <4>3
    <3> QED BY <3>1
  <2> QED BY <2>1, <2>3, <2>4 DEF TaskIsSound
<1>7. RegistriesAreSound'
  BY <1>1, <1>2, <1>6 DEF RegistriesAreSound
<1>8. SingleWriter'
  BY <1>1, <1>2 DEF SingleWriter
<1>9. MachineTablesAgree'
  <2>1. /\ \A m \in machines : m.name \in DOMAIN active /\ active[m.name] \in LeafPaths(m)
        /\ \A other \in DOMAIN active : \E m \in machines : m.name = other
        /\ \A m, k \in machines : m.name = k.name => m = k
        /\ entered \subseteq known
        /\ \A other \in DOMAIN active : PrefixSet(active[other]) \subseteq entered
    BY <1>2 DEF MachineTablesAgree
  <2>2. \A other : /\ other \in DOMAIN active' <=> other \in DOMAIN active /\ other # name
                   /\ other \in DOMAIN active' => active'[other] = active[other]
    BY <1>1 DEF Without
  <2>3. entered' \subseteq left
    <3> SUFFICES ASSUME NEW path \in entered'
                 PROVE  path \in left
      OBVIOUS
    <3>1. PICK m \in machines : \E n \in m.nodes : path \in PrefixSet(n.path)
      BY <1>1, <2>1, KnownPrefixesOfStates
    <3>2. path \in EntriesOf(m)
      BY <3>1 DEF EntriesOf, NodePaths
    <3>3. m.name # name
      BY <1>1, <3>2
    <3> QED BY <1>1, <3>1, <3>3, KnownPrefixesOfStates
  <2>4. ASSUME NEW other \in DOMAIN active'
        PROVE  PrefixSet(active'[other]) \subseteq entered'
    <3>1. PICK m \in machines : m.name = other /\ other # name
      BY <2>1, <2>2
    <3>2. PICK n \in m.nodes : n.path = active[other]
      BY <2>1, <3>1 DEF LeafPaths
    <3>3. \A path \in PrefixSet(active[other]) : Head(path) = other
      BY <1>3, <3>1, <3>2
    <3>4. \A path \in PrefixSet(active[other]) :
            path \notin UNION {EntriesOf(k) : k \in {l \in machines : l.name = name}}
      BY <1>5, <3>1, <3>3
    <3> QED BY <1>1, <2>1, <2>2, <3>4
  <2> HIDE DEF known, left
  <2>5. \A m \in machines' : m.name \in DOMAIN active' /\ active'[m.name] \in LeafPaths(m)
    BY <1>1, <2>1, <2>2
  <2>6. \A other \in DOMAIN active' : \E m \in machines' : m.name = other
    BY <1>1, <2>1, <2>2
  <2>7. \A m, k \in machines' : m.name = k.name => m = k
    BY <1>1, <2>1
  <2> QED BY <2>3, <2>4, <2>5, <2>6, <2>7 DEF MachineTablesAgree, left
<1> QED BY <1>7, <1>8, <1>9 DEF WorldInvariant

------------------------------------------------------------------------------
\* Running

\* A transition keeps an entry time for every state the machine is then in.
LEMMA MoveMachineKeepsTheWorld ==
  ASSUME WorldInvariant, NEW machine \in machines, MoveMachine(machine)
  PROVE  WorldInvariant'
<1>1. RegistriesAreSound /\ SingleWriter /\ MachineTablesAgree
  BY DEF WorldInvariant
<1> DEFINE name == machine.name
           from == active[name]
<1>2. PICK leaf \in LeafPaths(machine) :
        /\ active' = [active EXCEPT ![name] = leaf]
        /\ entered' = entered \cup Elements(EnterPaths(from, leaf))
        /\ \E running \in SUBSET DOMAIN tasks : \E assigned \in Assignments(tasks, running) :
             names' = [names EXCEPT !.vars = @ \cup assigned]
        /\ UNCHANGED <<aliases, writers, tasks, machines, animators>>
  BY DEF MoveMachine
<1>3. /\ \A m \in machines : m.name \in DOMAIN active /\ active[m.name] \in LeafPaths(m)
      /\ \A other \in DOMAIN active : \E m \in machines : m.name = other
      /\ \A m, k \in machines : m.name = k.name => m = k
      /\ entered \subseteq KnownPrefixes(machines)
      /\ \A other \in DOMAIN active : PrefixSet(active[other]) \subseteq entered
  BY <1>1 DEF MachineTablesAgree
<1>4. \A m \in machines : \A path \in LeafPaths(m) :
        path \in Seq(STRING) /\ PrefixSet(path) \subseteq KnownPrefixes(machines)
  BY <1>1, PathsAssumption, KnownPrefixesOfStates DEF RegistriesAreSound, LeafPaths
<1>5. /\ Elements(EnterPaths(from, leaf)) \subseteq PrefixSet(leaf)
      /\ PrefixSet(leaf) \subseteq PrefixSet(from) \cup Elements(EnterPaths(from, leaf))
  BY <1>3, <1>4, EnteredOrSharedStates
<1>6. MachineTablesAgree'
  <2>1. DOMAIN active' = DOMAIN active /\ name \in DOMAIN active
    BY <1>2, <1>3
  <2>2. \A other \in DOMAIN active : active'[other] = IF other = name THEN leaf ELSE active[other]
    BY <1>2, <1>3
  <2>3. \A m \in machines : m.name = name => m = machine
    BY <1>3
  <2>4. \A m \in machines : active'[m.name] \in LeafPaths(m)
    BY <1>3, <2>2, <2>3
  <2>5. entered' \subseteq KnownPrefixes(machines)
    BY <1>2, <1>3, <1>4, <1>5
  <2>6. \A other \in DOMAIN active : PrefixSet(active'[other]) \subseteq entered'
    BY <1>2, <1>3, <1>5, <2>2
  <2> HIDE DEF name, from
  <2> QED BY <1>2, <1>3, <2>1, <2>4, <2>5, <2>6 DEF MachineTablesAgree
<1>7. names' \in [vars : SUBSET VarNames, consts : SUBSET ConstNames]
  <2>1. PICK running \in SUBSET DOMAIN tasks : \E assigned \in Assignments(tasks, running) :
          names' = [names EXCEPT !.vars = @ \cup assigned]
    BY <1>2
  <2>2. PICK assigned \in Assignments(tasks, running) :
          names' = [names EXCEPT !.vars = @ \cup assigned]
    BY <2>1
  <2>3. assigned \subseteq VarNames
    BY <1>1, <2>1, AssignmentsAreVariables DEF RegistriesAreSound
  <2> QED BY <1>1, <2>2, <2>3 DEF RegistriesAreSound
<1>8. RegistriesAreSound' /\ SingleWriter'
  BY <1>1, <1>2, <1>7 DEF RegistriesAreSound, SingleWriter
<1> QED BY <1>6, <1>8 DEF WorldInvariant

\* A body gives values to its own variables only.
LEMMA RunTaskKeepsTheWorld ==
  ASSUME WorldInvariant, NEW name \in DOMAIN tasks, RunTask(name)
  PROVE  WorldInvariant'
<1>1. /\ \E assigned \in Assignments(tasks, {name}) :
           names' = [names EXCEPT !.vars = @ \cup assigned]
      /\ UNCHANGED <<aliases, writers, tasks, machines, active, entered, animators>>
  BY DEF RunTask
<1>2. names' \in [vars : SUBSET VarNames, consts : SUBSET ConstNames]
  <2>1. PICK assigned \in Assignments(tasks, {name}) :
          names' = [names EXCEPT !.vars = @ \cup assigned]
    BY <1>1
  <2>2. assigned \subseteq VarNames
    BY AssignmentsAreVariables DEF WorldInvariant, RegistriesAreSound
  <2> QED BY <2>1, <2>2 DEF WorldInvariant, RegistriesAreSound
<1> QED BY <1>1, <1>2 DEF WorldInvariant, RegistriesAreSound, SingleWriter, MachineTablesAgree

------------------------------------------------------------------------------
\* The theorems

\* The runtime starts empty.
LEMMA WorldInvariantInit == Init => WorldInvariant
<1> SUFFICES ASSUME Init PROVE WorldInvariant
  OBVIOUS
<1>1. <<>> \in PartialFunctions(RefNames, Devices)
  BY NothingIsAWorld DEF NothingHeld, Worlds
<1>2. /\ DOMAIN tasks = {} /\ DOMAIN active = {}
      /\ names = [vars |-> {}, consts |-> {}] /\ machines = {} /\ entered = {} /\ aliases = <<>>
  BY DEF Init
<1> QED BY <1>1, <1>2 DEF WorldInvariant, RegistriesAreSound, SingleWriter, MachineTablesAgree

\* Every operation keeps the registries in agreement.
LEMMA WorldInvariantStep == WorldInvariant /\ [Next]_vars => WorldInvariant'
<1> SUFFICES ASSUME WorldInvariant, [Next]_vars
             PROVE  WorldInvariant'
  OBVIOUS
<1>1. CASE \E script \in Scripts : AddScript(script)
  BY <1>1, AddScriptKeepsTheWorld
<1>2. CASE Replace
  BY <1>2, LoadScriptKeepsTheWorld, RegisterTypedTaskKeepsTheWorld DEF Replace
<1>3. CASE Drop
  BY <1>3, DropTaskKeepsTheWorld, DropRefKeepsTheWorld, DropVarKeepsTheWorld,
     DropMachineKeepsTheWorld DEF Drop
<1>4. CASE \E name \in DOMAIN tasks : RunTask(name)
  BY <1>4, RunTaskKeepsTheWorld
<1>5. CASE \E machine \in machines : MoveMachine(machine)
  BY <1>5, MoveMachineKeepsTheWorld
<1>6. CASE UNCHANGED vars
  BY <1>6 DEF vars, WorldInvariant, RegistriesAreSound, SingleWriter, MachineTablesAgree
<1> QED BY <1>1, <1>2, <1>3, <1>4, <1>5, <1>6 DEF Next

\* The inductive invariant of the registries, for every behaviour.
LEMMA WorldInvariantHolds == Spec => []WorldInvariant
<1> QED BY WorldInvariantInit, WorldInvariantStep, PTL DEF Spec

\* However scripts are added, loaded, typed over and dropped, a task that
\* assigns a variable is the writer on record for it: the check of an addition
\* against that record is enough.
THEOREM OneWriterForEver == Spec => []SingleWriter
<1>1. WorldInvariant => SingleWriter
  BY DEF WorldInvariant
<1> QED BY <1>1, WorldInvariantHolds, PTL

\* A machine is dropped only when no task lives in one of its states or reads
\* one's clock: every state a registered task needs stays registered.
THEOREM StatesOutliveTheirTasks == Spec => []TasksFindTheirStates
<1>1. WorldInvariant => TasksFindTheirStates
  <2> SUFFICES ASSUME WorldInvariant, NEW t \in DOMAIN tasks
               PROVE  (Elements(tasks[t].membership) \cup PathsIn(tasks[t].statements))
                        \subseteq KnownPrefixes(machines)
    BY DEF TasksFindTheirStates
  <2>1. TaskIsSound(tasks[t], KnownPrefixes(machines))
    BY DEF WorldInvariant, RegistriesAreSound
  <2> QED BY <2>1 DEF TaskIsSound, Elements
<1> QED BY <1>1, WorldInvariantHolds, PTL

\* A registered machine has an active leaf of its own and entry times of its
\* own states for all it is in, and nothing is left of a dropped one.
THEOREM MachinesComeAndGoWhole == Spec => []MachineTablesAgree
<1>1. WorldInvariant => MachineTablesAgree
  BY DEF WorldInvariant
<1> QED BY <1>1, WorldInvariantHolds, PTL

\* An accepted addition leaves what is registered as it was.
LEMMA AdditionOverwritesNothing ==
  ASSUME WorldInvariant, NEW script \in Scripts, AddScript(script)
  PROVE  NothingOverwritten
<1> DEFINE program == CompileAgainst(script, Ambient).program[1]
           initial == InitialNames(program, names.vars, names.consts)
<1>1. /\ CompileAgainst(script, Ambient).report = <<>>
      /\ RegisteredTwice(program) \cup SecondWriters(program) = {}
      /\ Apply(program, initial)
  BY DEF AddScript, AddCompiled, TryRegister
<1>2. Ambient \in Worlds
  BY AmbientIsAWorld DEF WorldInvariant
<1>3. Ambient.vars = names.vars /\ Ambient.consts = names.consts
  BY DEF Ambient
<1>4. names.vars \subseteq initial.vars /\ names.consts \subseteq initial.consts
  <2> HIDE DEF initial
  <2>1. ValuesAreKept(Ambient, InitialNames(program, Ambient.vars, Ambient.consts))
    BY <1>1, <1>2, AcceptedScript
  <2> QED BY <1>3, <2>1 DEF ValuesAreKept, initial
<1> HIDE DEF program, initial
<1>5. /\ DOMAIN Records(program) \cap DOMAIN tasks = {}
      /\ DOMAIN InitialLeaves(program) \cap DOMAIN active = {}
      /\ DOMAIN program.aliases \cap DOMAIN aliases = {}
      /\ \A v \in DOMAIN program.writers \cap DOMAIN writers : writers[v] = program.writers[v]
  BY <1>1, NothingRegisteredTwice DEF WorldInvariant
<1>6. Extends(tasks', tasks) /\ Extends(aliases', aliases) /\ Extends(active', active)
  BY <1>1, <1>5 DEF Apply, Extends, Updated
<1>7. Extends(writers', writers)
  BY <1>1, <1>5 DEF Apply, Extends, Updated
<1>8. machines \subseteq machines' /\ animators \subseteq animators'
  BY <1>1 DEF Apply
<1>9. names.vars \subseteq names'.vars /\ names.consts \subseteq names'.consts
  BY <1>1, <1>4 DEF Apply
<1> QED BY <1>6, <1>7, <1>8, <1>9 DEF NothingOverwritten

\* Only a drop, a load in place of everything and a task typed over another
\* take something away: what an addition brings collides with nothing, or the
\* addition is refused as a whole.
THEOREM AdditionsAreSafe == Spec => AdditionsOverwriteNothing
<1>1. WorldInvariant /\ [Next]_vars => [Drop \/ Replace \/ NothingOverwritten]_vars
  <2> SUFFICES ASSUME WorldInvariant, Next, ~Drop, ~Replace
               PROVE  NothingOverwritten
    OBVIOUS
  <2>1. CASE \E script \in Scripts : AddScript(script)
    BY <2>1, AdditionOverwritesNothing
  <2>2. CASE \E name \in DOMAIN tasks : RunTask(name)
    BY <2>2 DEF RunTask, NothingOverwritten, Extends, WorldInvariant, RegistriesAreSound
  <2>3. CASE \E machine \in machines : MoveMachine(machine)
    BY <2>3 DEF MoveMachine, NothingOverwritten, Extends, WorldInvariant, RegistriesAreSound
  <2> QED BY <2>1, <2>2, <2>3 DEF Next
<1> QED BY <1>1, WorldInvariantHolds, PTL DEF Spec, AdditionsOverwriteNothing

==============================================================================
