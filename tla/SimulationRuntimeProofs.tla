------------------------ MODULE SimulationRuntimeProofs ------------------------
(***************************************************************************)
(* Theorems about SimulationRuntime that hold for every program, every     *)
(* sequence of calls and every bound: types, bodies and their waits, the   *)
(* abstract scheduler, the accumulators, which keep the ticks of state     *)
(* machines and of every tasks on the multiples of their intervals however *)
(* time is cut into calls of tick, and leaf transitions: the lifecycle     *)
(* tasks find the state they are bound to, the clocks of enclosing states  *)
(* are older, and those of shared states run on.                           *)
(***************************************************************************)
EXTENDS SimulationRuntime, WellFoundedInduction, TLAPS

------------------------------------------------------------------------------
(* Paths.  What the path arithmetic of a leaf transition returns, for paths *)
(* of any length: the paths left are the states of the old leaf below the   *)
(* common ancestors, those entered the states of the new leaf below them.   *)

\* A bounded, non-empty set of naturals has a greatest element.
LEMMA MaximumExists ==
  ASSUME NEW n \in Nat, NEW S, S \subseteq 0..n, S # {}
  PROVE  \E m \in S : \A k \in S : k <= m
<1> DEFINE Distances == {n - k : k \in S}
<1>1. Distances \subseteq Nat /\ Distances # {}
  <2>1. \A k \in S : n - k \in Nat
    OBVIOUS
  <2>2. PICK k \in S : TRUE
    OBVIOUS
  <2>3. n - k \in Distances
    OBVIOUS
  <2> QED  BY <2>1, <2>3
<1>2. PICK d \in Distances : \A e \in Distances : ~ (<<e, d>> \in OpToRel(<, Nat))
  <2> HIDE DEF Distances
  <2> QED  BY <1>1, WFMin, NatLessThanWellFounded
<1>3. PICK m \in S : d = n - m
  OBVIOUS
<1>4. ASSUME NEW k \in S
      PROVE  k <= m
  <2>1. n - k \in Distances /\ n - k \in Nat /\ d \in Nat
    BY <1>1
  <2>2. ~ (n - k < d)
    <3> HIDE DEF Distances
    <3> QED  BY <1>2, <2>1 DEF OpToRel
  <2> QED  BY <1>3, <2>1, <2>2
<1> QED  BY <1>4

\* The common length is one of the shared lengths, and no shared length is
\* greater (longestCommonDotPrefix always has a result, if only the empty one).
LEMMA CommonLengthIsGreatest ==
  ASSUME NEW left \in Seq(STRING), NEW right \in Seq(STRING)
  PROVE  /\ CommonLength(left, right) \in SharedLengths(left, right)
         /\ \A k \in SharedLengths(left, right) : k <= CommonLength(left, right)
<1>1. 0 \in SharedLengths(left, right)
  BY DEF SharedLengths
<1>2. SharedLengths(left, right) \subseteq 0..Len(left) /\ Len(left) \in Nat
  BY DEF SharedLengths
<1>3. \E m \in SharedLengths(left, right) :
        \A k \in SharedLengths(left, right) : k <= m
  BY <1>1, <1>2, MaximumExists
<1> QED  BY <1>3 DEF CommonLength

\* The common length lies within both paths.
LEMMA CommonLengthBounds ==
  ASSUME NEW left \in Seq(STRING), NEW right \in Seq(STRING)
  PROVE  /\ CommonLength(left, right) \in 0..Len(left)
         /\ CommonLength(left, right) \in 0..Len(right)
BY CommonLengthIsGreatest DEF SharedLengths

\* The states left are states of the old leaf ...
LEMMA ExitPathsType ==
  ASSUME NEW old \in Seq(STRING), NEW new \in Seq(STRING)
  PROVE  ExitPaths(old, new) \in Seq(PrefixSet(old))
<1> DEFINE n == Len(old) - CommonLength(old, new)
<1>1. n \in Nat
  BY CommonLengthBounds
<1>2. ASSUME NEW i \in 1..n
      PROVE  Ancestor(old, Len(old) - i + 1) \in PrefixSet(old)
  <2>1. Len(old) - i + 1 \in 1..Len(old)
    BY <1>2, CommonLengthBounds
  <2> QED  BY <2>1 DEF PrefixSet
<1> QED  BY <1>1, <1>2 DEF ExitPaths

\* ... and the states entered are states of the new leaf.
LEMMA EnterPathsType ==
  ASSUME NEW old \in Seq(STRING), NEW new \in Seq(STRING)
  PROVE  EnterPaths(old, new) \in Seq(PrefixSet(new))
<1> DEFINE n == Len(new) - CommonLength(old, new)
<1>1. n \in Nat
  BY CommonLengthBounds
<1>2. ASSUME NEW i \in 1..n
      PROVE  Ancestor(new, CommonLength(old, new) + i) \in PrefixSet(new)
  <2>1. CommonLength(old, new) + i \in 1..Len(new)
    BY <1>2, CommonLengthBounds
  <2> QED  BY <2>1 DEF PrefixSet
<1> QED  BY <1>1, <1>2 DEF EnterPaths

\* Every state a path lies in is returned by the prefix enumeration.
LEMMA EnumeratePrefixesType ==
  ASSUME NEW path \in Seq(STRING)
  PROVE  EnumeratePrefixes(path) \in Seq(PrefixSet(path))
BY DEF EnumeratePrefixes, PrefixSet

\* `path` is a state of `leaf` exactly when the membership test says so.
LEMMA EnclosesIsPrefix ==
  ASSUME NEW path \in Seq(STRING), NEW leaf \in Seq(STRING), Len(path) > 0
  PROVE  Encloses(path, leaf) <=> path \in PrefixSet(leaf)
<1>1. ASSUME Encloses(path, leaf)
      PROVE  path \in PrefixSet(leaf)
  <2>1. Len(path) \in 1..Len(leaf) /\ \A i \in 1..Len(path) : path[i] = leaf[i]
    BY <1>1 DEF Encloses
  <2>2. Ancestor(leaf, Len(path)) = path
    BY <2>1 DEF Ancestor
  <2> QED  BY <2>1, <2>2 DEF PrefixSet
<1>2. ASSUME path \in PrefixSet(leaf)
      PROVE  Encloses(path, leaf)
  <2>1. PICK n \in 1..Len(leaf) : path = Ancestor(leaf, n)
    BY <1>2 DEF PrefixSet
  <2> QED  BY <2>1 DEF Ancestor, Encloses
<1> QED  BY <1>1, <1>2

------------------------------------------------------------------------------
(* The inductive invariant. *)

\* A body that is being executed has reached a statement and is not waiting.
DrainedTaskMoves ==
  draining # NoTask =>
    programCounter[draining] >= 1 /\ resumeAt[draining] = NotWaiting

\* Only lifecycle tasks are started by a leaf transition.
HooksStartLifecycleTasks ==
  \A position \in hookTasks : TaskOrder[position] \in LifecycleTaskSet

IndInv ==
  /\ TypeOK
  /\ DrainedTaskMoves
  /\ HooksStartLifecycleTasks
  /\ ParkedTasksHaveAWakeUp

------------------------------------------------------------------------------
(* Types of what the actions are built from. *)

LEMMA QuotientType ==
  ASSUME NEW n \in Int, NEW d \in Int, d # 0
  PROVE  Quotient(n, d) \in Int
<1>1. Magnitude(n) \in Int /\ Magnitude(d) \in Int /\ Magnitude(d) > 0
  BY DEF Magnitude
<1>2. Magnitude(n) \div Magnitude(d) \in Int
  BY <1>1
<1> QED  BY <1>2 DEF Quotient

\* A defined expression has an integer value.
LEMMA ValueType ==
  ASSUME TypeOK, NEW expr \in Expressions, Defined(expr)
  PROVE  Value(expr) \in Int
<1>1. CASE expr \in [kind : {"integer"}, value : Int]
  BY <1>1 DEF Value
<1>2. CASE expr \in [kind : {"var"}, name : Vars]
  BY <1>2 DEF Value, TypeOK
<1>3. CASE expr \in [kind : {"read"}, device : Devices]
  BY <1>3 DEF Value, TypeOK
<1>4. CASE expr \in [kind : {"elapsed"}, path : Paths]
  <2>1. Elapsed(expr.path) \in Int
    BY EnvironmentAssumption DEF Elapsed, TypeOK, NeverEntered
  <2> QED  BY <1>4, <2>1 DEF Value
<1>5. CASE expr \in [kind : {"quotient"}, of : Int, by : Vars]
  <2>1. expr.of \in Int /\ varValues[expr.by] \in Int
    BY <1>5 DEF TypeOK
  <2>2. varValues[expr.by] # 0
    BY <1>5 DEF Defined
  <2>3. Quotient(expr.of, varValues[expr.by]) \in Int
    BY <2>1, <2>2, QuotientType
  <2> QED  BY <1>5, <2>3 DEF Value
<1> QED  BY <1>1, <1>2, <1>3, <1>4, <1>5 DEF Expressions

\* The states of a node are paths.
LEMMA PrefixesArePaths ==
  ASSUME NEW node \in Nodes
  PROVE  node \in Seq(STRING) /\ PrefixSet(node) \subseteq Paths
BY MachinesAssumption DEF Paths

\* A loop over tasks stands at a task, one over machines at a machine.
LEMMA CursorType ==
  ASSUME TypeOK
  PROVE  /\ AtTask => Current \in Tasks
         /\ AtMachine => Machine \in Machines
BY DEF TypeOK, AtTask, Current, AtMachine, Machine, Tasks, Machines

LEMMA HooksType ==
  ASSUME NEW hook \in {"exit", "enter"}, NEW paths \in Seq(Paths)
  PROVE  Hooks(hook, paths) \in Seq(PlanSteps)
<1>1. \A i \in 1..Len(paths) : [hook |-> hook, path |-> paths[i]] \in PlanSteps
  BY DEF PlanSteps
<1>2. Len(paths) \in Nat
  OBVIOUS
<1> QED  BY <1>1, <1>2 DEF Hooks

\* The plan of a transition between two leaves.
LEMMA TransitionPlanType ==
  ASSUME NEW old \in Leaves, NEW new \in Leaves
  PROVE  TransitionPlan(old, new) \in Seq(PlanSteps)
<1>1. /\ old \in Seq(STRING) /\ PrefixSet(old) \subseteq Paths
      /\ new \in Seq(STRING) /\ PrefixSet(new) \subseteq Paths
  BY PrefixesArePaths DEF Leaves
<1>2. ExitPaths(old, new) \in Seq(Paths) /\ EnterPaths(old, new) \in Seq(Paths)
  <2>1. ExitPaths(old, new) \in Seq(PrefixSet(old))
    BY <1>1, ExitPathsType
  <2>2. EnterPaths(old, new) \in Seq(PrefixSet(new))
    BY <1>1, EnterPathsType
  <2> QED  BY <1>1, <2>1, <2>2
<1> DEFINE exits == Hooks("exit", ExitPaths(old, new))
           switch == << [hook |-> "switch", path |-> new] >>
           enters == Hooks("enter", EnterPaths(old, new))
<1>3. exits \in Seq(PlanSteps) /\ enters \in Seq(PlanSteps)
  BY <1>2, HooksType
<1>4. switch \in Seq(PlanSteps)
  <2>1. [hook |-> "switch", path |-> new] \in PlanSteps
    BY DEF PlanSteps
  <2> QED  BY <2>1
<1>5. (exits \o switch) \o enters \in Seq(PlanSteps)
  <2> HIDE DEF exits, switch, enters
  <2> QED  BY <1>3, <1>4
<1> QED  BY <1>5 DEF TransitionPlan

\* Whatever transition is taken, it leads to a leaf.
LEMMA TargetLeafType ==
  ASSUME TypeOK, NEW machine \in Machines, NEW taken \in Taken(machine)
  PROVE  TargetLeaf(machine, taken) \in Leaves
<1>1. taken \in Firing(machine)
  BY DEF Taken
<1>2. PICK scope \in 0..Len(activeLeaf[machine]) :
        \E i \in DOMAIN TransitionsIn(machine, scope) : taken = <<scope, i>>
  <2> DEFINE At(scope) ==
        {<<scope, i>> : i \in {k \in DOMAIN TransitionsIn(machine, scope) :
                                Holds(TransitionsIn(machine, scope)[k].when)}}
  <2>1. PICK scope \in 0..Len(activeLeaf[machine]) : taken \in At(scope)
    BY <1>1 DEF Firing
  <2>2. \E i \in DOMAIN TransitionsIn(machine, scope) : taken = <<scope, i>>
    BY <2>1
  <2> QED  BY <2>2
<1>3. TransitionsIn(machine, scope) \in Seq(TransitionRecords)
  <2> DEFINE node == Ancestor(activeLeaf[machine], Len(activeLeaf[machine]) - scope + 1)
  <2>1. TransitionsIn(machine, scope) =
          IF scope = 0 THEN GlobalTransitions[machine]
          ELSE IF node \in Nodes THEN LocalTransitions[node] ELSE << >>
    BY DEF TransitionsIn
  <2>2. GlobalTransitions[machine] \in Seq(TransitionRecords)
    BY MachinesAssumption
  <2>3. node \in Nodes => LocalTransitions[node] \in Seq(TransitionRecords)
    BY MachinesAssumption
  <2> HIDE DEF node
  <2> QED  BY <2>1, <2>2, <2>3
<1>4. TransitionsIn(machine, scope)[taken[2]].target \in Nodes
  <2>1. PICK i \in DOMAIN TransitionsIn(machine, scope) : taken = <<scope, i>>
    BY <1>2
  <2>2. TransitionsIn(machine, scope)[i] \in TransitionRecords
    BY <1>3
  <2> QED  BY <2>1, <2>2 DEF TransitionRecords
<1> QED  BY <1>2, <1>4, ResolutionAssumption DEF TargetLeaf, LeavesOf

\* The statement a body stands at.
LEMMA StatementType ==
  ASSUME TypeOK, DrainedTaskMoves, AtStatement
  PROVE  /\ draining \in Tasks /\ Statement \in Statements
         /\ Statement.kind # "wait" => ChosenStatement \in SimpleStatements
<1>1. draining \in Tasks
  BY DEF TypeOK, AtStatement
<1>2. programCounter[draining] \in 1..Len(Body[draining])
  BY <1>1 DEF TypeOK, AtStatement, DrainedTaskMoves
<1>3. Statement \in Statements
  BY <1>1, <1>2, TasksAssumption DEF Statement
<1>4. ASSUME Statement.kind # "wait"
      PROVE  ChosenStatement \in SimpleStatements
  <2>1. CASE Statement.kind = "if"
    <3>1. Statement \in [kind : {"if"}, when : Conditions, then : SimpleStatements,
                         otherwise : SimpleStatements]
      BY <1>3, <2>1 DEF Statements, SimpleStatements
    <3> QED  BY <2>1, <3>1 DEF ChosenStatement
  <2>2. CASE Statement.kind # "if"
    <3>1. Statement \in SimpleStatements
      BY <1>3, <1>4, <2>2 DEF Statements
    <3> QED  BY <2>2, <3>1 DEF ChosenStatement
  <2> QED  BY <2>1, <2>2
<1> QED  BY <1>1, <1>3, <1>4

\* What the devices read after a flush.
LEMMA FlushedType ==
  ASSUME TypeOK, NEW device \in Devices,
         NEW i \in 1..Len(pendingEffects), pendingEffects[i].device = device
  PROVE  pendingEffects[LastEffectOn(device)].value \in Int
<1> DEFINE queued == {k \in 1..Len(pendingEffects) : pendingEffects[k].device = device}
<1>1. Len(pendingEffects) \in Nat /\ queued \subseteq 0..Len(pendingEffects)
  BY DEF TypeOK
<1>2. queued # {}
  OBVIOUS
<1>3. \E m \in queued : \A k \in queued : k <= m
  <2> HIDE DEF queued
  <2> QED  BY <1>1, <1>2, MaximumExists
<1>4. LastEffectOn(device) \in queued
  BY <1>3 DEF LastEffectOn
<1>5. LastEffectOn(device) \in 1..Len(pendingEffects)
  BY <1>4
<1>6. pendingEffects[LastEffectOn(device)] \in Effects
  BY <1>5 DEF TypeOK
<1> QED  BY <1>6 DEF Effects

------------------------------------------------------------------------------
(* The invariant holds at the start and is preserved by every action. *)

LEMMA InitInvariant == Init => IndInv
<1> SUFFICES ASSUME Init PROVE IndInv
  OBVIOUS
<1>1. TypeOK
  <2>1. total \in 0..MaxTime /\ entryTime \in [Paths -> 0..MaxTime \cup {NeverEntered}]
    <3> DEFINE time(path) ==
          IF \E machine \in Machines : path \in PrefixSet(InitialLeaf[machine])
            THEN 0 ELSE NeverEntered
    <3>1. \A path \in Paths : time(path) \in 0..MaxTime \cup {NeverEntered}
      BY EnvironmentAssumption
    <3>2. entryTime = [path \in Paths |-> time(path)] /\ total = 0
      BY DEF Init
    <3> HIDE DEF time
    <3> QED  BY <3>1, <3>2, EnvironmentAssumption
  <2>2. /\ running \in [Tasks -> BOOLEAN] /\ accumulated \in [Tasks -> Nat]
        /\ programCounter \in [Tasks -> Nat] /\ resumeAt \in [Tasks -> Nat]
    BY DEF Init, NoProgress, NotWaiting
  <2>3. /\ varValues \in [Vars -> Int] /\ devices \in [Devices -> Int]
        /\ pendingEffects \in Seq(Effects)
    BY EnvironmentAssumption DEF Init
  <2>4. activeLeaf \in [Machines -> Leaves] /\ machineAccumulated \in [Machines -> Nat]
    BY MachinesAssumption DEF Init
  <2>5. phase \in DOMAIN Following
    BY DEF Init, Following
  <2>6. /\ cursor \in Nat \ {0} /\ elapsed \in Nat
        /\ event \in Events
    <3>1. cursor = 1 /\ elapsed = 0 /\ event \in Events
      BY Zenon DEF Init
    <3> QED  BY <3>1
  <2>8. charged \in BOOLEAN
    BY Zenon DEF Init
  <2>7. /\ plan \in Seq(PlanSteps) /\ hookTasks \subseteq 1..Len(TaskOrder)
        /\ draining \in Tasks \cup {NoTask} /\ budget \in Nat
    BY DEF Init
  <2> QED  BY <2>1, <2>2, <2>3, <2>4, <2>5, <2>6, <2>7, <2>8 DEF TypeOK
<1>2. DrainedTaskMoves
  BY DEF Init, DrainedTaskMoves
<1>3. HooksStartLifecycleTasks
  BY DEF Init, HooksStartLifecycleTasks
<1>4. ParkedTasksHaveAWakeUp
  BY DEF Init, ParkedTasksHaveAWakeUp
<1> QED  BY <1>1, <1>2, <1>3, <1>4 DEF IndInv

LEMMA ExecuteStatementInvariant == IndInv /\ ExecuteStatement => IndInv'
<1> SUFFICES ASSUME IndInv, ExecuteStatement PROVE IndInv'
  OBVIOUS
<1> USE DEF taskVars, dataVars, machineVars, callVars, runVars
<1>1. /\ draining \in Tasks /\ draining' = draining /\ draining # NoTask
      /\ programCounter' = [programCounter EXCEPT ![draining] = @ + 1]
      /\ programCounter[draining] \in Nat
  BY StatementType DEF IndInv, TypeOK, ExecuteStatement, AtStatement
<1>2. TypeOK'
  <2>1. ChosenStatement \in SimpleStatements
    BY StatementType DEF IndInv, ExecuteStatement
  <2>2. varValues' \in [Vars -> Int]
    <3>1. CASE ChosenStatement.kind = "set" /\ Defined(ChosenStatement.value)
      <4>1. ChosenStatement.value \in Expressions
        BY <2>1 DEF SimpleStatements
      <4>2. Value(ChosenStatement.value) \in Int
        BY <3>1, <4>1, ValueType DEF IndInv
      <4> QED  BY <3>1, <4>2 DEF IndInv, TypeOK, ExecuteStatement
    <3>2. CASE ~(ChosenStatement.kind = "set" /\ Defined(ChosenStatement.value))
      BY <3>2 DEF IndInv, TypeOK, ExecuteStatement
    <3> QED  BY <3>1, <3>2
  <2>3. pendingEffects' \in Seq(Effects)
    <3>1. CASE ChosenStatement.kind = "do" /\ Defined(ChosenStatement.value)
      <4>1. ChosenStatement.value \in Expressions /\ ChosenStatement.device \in Devices
        BY <2>1, <3>1 DEF SimpleStatements
      <4>2. Value(ChosenStatement.value) \in Int
        BY <3>1, <4>1, ValueType DEF IndInv
      <4>3. [device |-> ChosenStatement.device,
             value |-> Value(ChosenStatement.value)] \in Effects
        BY <4>1, <4>2 DEF Effects
      <4> QED  BY <3>1, <4>3 DEF IndInv, TypeOK, ExecuteStatement
    <3>2. CASE ~(ChosenStatement.kind = "do" /\ Defined(ChosenStatement.value))
      BY <3>2 DEF IndInv, TypeOK, ExecuteStatement
    <3> QED  BY <3>1, <3>2
  <2>4. programCounter' \in [Tasks -> Nat]
    BY <1>1 DEF IndInv, TypeOK
  <2>5. budget' \in Nat
    BY DEF IndInv, TypeOK, ExecuteStatement
  <2> QED  BY <2>2, <2>3, <2>4, <2>5 DEF IndInv, TypeOK, ExecuteStatement
<1>3. DrainedTaskMoves'
  BY <1>1 DEF IndInv, TypeOK, DrainedTaskMoves, ExecuteStatement
<1>4. HooksStartLifecycleTasks'
  BY DEF IndInv, HooksStartLifecycleTasks, ExecuteStatement
<1>5. ParkedTasksHaveAWakeUp'
  BY <1>1 DEF IndInv, TypeOK, ParkedTasksHaveAWakeUp, ExecuteStatement
<1> QED  BY <1>2, <1>3, <1>4, <1>5 DEF IndInv

LEMMA ExecuteWaitInvariant == IndInv /\ ExecuteWait => IndInv'
<1> SUFFICES ASSUME IndInv, ExecuteWait PROVE IndInv'
  OBVIOUS
<1> USE DEF taskVars, dataVars, machineVars, callVars, runVars
<1> DEFINE duration == Value(Statement.duration)
<1>1. /\ draining \in Tasks /\ draining' = NoTask
      /\ programCounter[draining] \in Nat \ {0} /\ total \in Nat
      /\ duration \in Int /\ duration > 0
  <2>1. draining \in Tasks /\ Statement \in Statements /\ Statement.kind = "wait"
    BY StatementType DEF IndInv, ExecuteWait
  <2>2. Statement.duration \in Expressions /\ Defined(Statement.duration)
    BY <2>1 DEF Statements, SimpleStatements, ExecuteWait, ValidWait
  <2>3. duration \in Int
    BY <2>2, ValueType DEF IndInv
  <2> QED
    BY <2>1, <2>3, EnvironmentAssumption
    DEF IndInv, TypeOK, DrainedTaskMoves, AtStatement, ExecuteWait, ValidWait
<1>2. /\ resumeAt' = [resumeAt EXCEPT ![draining] = total + duration]
      /\ programCounter' = [programCounter EXCEPT ![draining] = @ + 1]
  BY DEF ExecuteWait
<1> HIDE DEF duration
<1>3. TypeOK'
  BY <1>1, <1>2 DEF IndInv, TypeOK, ExecuteWait
<1>4. DrainedTaskMoves'
  BY <1>1 DEF DrainedTaskMoves
<1>5. HooksStartLifecycleTasks'
  BY DEF IndInv, HooksStartLifecycleTasks, ExecuteWait
<1>6. ParkedTasksHaveAWakeUp'
  BY <1>1, <1>2 DEF IndInv, TypeOK, ParkedTasksHaveAWakeUp, NotWaiting, NoProgress
<1> QED  BY <1>3, <1>4, <1>5, <1>6 DEF IndInv

LEMMA StopDrainedTaskInvariant == IndInv /\ StopDrainedTask => IndInv'
<1> SUFFICES ASSUME IndInv, StopDrainedTask PROVE IndInv'
  OBVIOUS
<1> USE DEF taskVars, dataVars, machineVars, callVars, runVars
<1>1. draining \in Tasks /\ draining' = NoTask /\ resumeAt[draining] = NotWaiting
  BY DEF IndInv, TypeOK, DrainedTaskMoves, AtStatement, StopDrainedTask
<1>2. TypeOK'
  BY <1>1 DEF IndInv, TypeOK, StopDrainedTask, NoProgress
<1>3. DrainedTaskMoves'
  BY <1>1 DEF DrainedTaskMoves
<1>4. HooksStartLifecycleTasks'
  BY DEF IndInv, HooksStartLifecycleTasks, StopDrainedTask
<1>5. ParkedTasksHaveAWakeUp'
  BY <1>1 DEF IndInv, TypeOK, ParkedTasksHaveAWakeUp, StopDrainedTask
<1> QED  BY <1>2, <1>3, <1>4, <1>5 DEF IndInv

LEMMA FinishBodyInvariant == IndInv /\ FinishBody => IndInv'
<1> SUFFICES ASSUME IndInv, FinishBody PROVE IndInv'
  OBVIOUS
<1> USE DEF taskVars, dataVars, machineVars, callVars, runVars
<1>1. draining \in Tasks /\ draining' = NoTask /\ resumeAt[draining] = NotWaiting
  BY DEF IndInv, TypeOK, DrainedTaskMoves, FinishBody
<1>2. TypeOK'
  BY <1>1 DEF IndInv, TypeOK, FinishBody, ProgressAfterEnd, NoProgress
<1>3. DrainedTaskMoves'
  BY <1>1 DEF DrainedTaskMoves
<1>4. HooksStartLifecycleTasks'
  BY DEF IndInv, HooksStartLifecycleTasks, FinishBody
<1>5. ParkedTasksHaveAWakeUp'
  BY <1>1 DEF IndInv, TypeOK, ParkedTasksHaveAWakeUp, FinishBody, ProgressAfterEnd
<1> QED  BY <1>2, <1>3, <1>4, <1>5 DEF IndInv

\* A step that starts no body and moves none keeps the task invariants.
LEMMA TasksAtRest ==
  ASSUME IndInv, UNCHANGED <<programCounter, resumeAt, draining, hookTasks>>
  PROVE  DrainedTaskMoves' /\ HooksStartLifecycleTasks' /\ ParkedTasksHaveAWakeUp'
BY DEF IndInv, DrainedTaskMoves, HooksStartLifecycleTasks, ParkedTasksHaveAWakeUp

\* A step that starts or continues the body of one task.
LEMMA TaskBegins ==
  ASSUME IndInv, draining = NoTask, NEW task \in Tasks, BeginDrain(task),
         UNCHANGED programCounter
           \/ programCounter' = [programCounter EXCEPT ![task] = 1],
         programCounter'[task] >= 1,
         UNCHANGED resumeAt \/ resumeAt' = [resumeAt EXCEPT ![task] = NotWaiting],
         resumeAt'[task] = NotWaiting,
         hookTasks' \subseteq hookTasks
  PROVE  /\ DrainedTaskMoves' /\ HooksStartLifecycleTasks' /\ ParkedTasksHaveAWakeUp'
         /\ programCounter' \in [Tasks -> Nat] /\ resumeAt' \in [Tasks -> Nat]
         /\ draining' \in Tasks \cup {NoTask} /\ budget' \in Nat
<1>1. draining' = task /\ budget' = StatementBudget
  BY DEF BeginDrain
<1>2. programCounter' \in [Tasks -> Nat] /\ resumeAt' \in [Tasks -> Nat]
  <2>1. programCounter \in [Tasks -> Nat] /\ resumeAt \in [Tasks -> Nat]
    BY DEF IndInv, TypeOK
  <2>2. programCounter' \in [Tasks -> Nat]
    BY <2>1
  <2>3. resumeAt' \in [Tasks -> Nat]
    BY <2>1 DEF NotWaiting
  <2> QED  BY <2>2, <2>3
<1>3. DrainedTaskMoves'
  BY <1>1 DEF DrainedTaskMoves
<1>4. HooksStartLifecycleTasks'
  BY DEF IndInv, HooksStartLifecycleTasks
<1>5. ParkedTasksHaveAWakeUp'
  <2> SUFFICES ASSUME NEW other \in Tasks \ {task}
               PROVE  \/ /\ programCounter'[other] = NoProgress
                         /\ resumeAt'[other] = NotWaiting
                      \/ /\ programCounter'[other] > 1
                         /\ resumeAt'[other] # NotWaiting
                      \/ /\ RunMode[other] = "loop"
                         /\ programCounter'[other] = 1
                         /\ resumeAt'[other] = NotWaiting
    BY <1>1 DEF ParkedTasksHaveAWakeUp
  <2>1. programCounter'[other] = programCounter[other] /\ resumeAt'[other] = resumeAt[other]
    BY DEF IndInv, TypeOK
  <2>2. other \in Tasks \ {draining}
    BY TasksAssumption
  <2> QED  BY <2>1, <2>2 DEF IndInv, ParkedTasksHaveAWakeUp
<1> QED  BY <1>1, <1>2, <1>3, <1>4, <1>5, EnvironmentAssumption

LEMMA ResumeWaitingTaskInvariant == IndInv /\ ResumeWaitingTask => IndInv'
<1> SUFFICES ASSUME IndInv, ResumeWaitingTask PROVE IndInv'
  OBVIOUS
<1> USE DEF taskVars, dataVars, machineVars, callVars, runVars
<1>1. Current \in Tasks /\ draining = NoTask
  BY CursorType DEF IndInv, ResumeWaitingTask, AtTask, Quiet
<1>2. CASE UNCHANGED <<resumeAt, draining, budget>>
  <2>1. TypeOK'
    BY <1>2 DEF IndInv, TypeOK, ResumeWaitingTask
  <2>2. UNCHANGED <<programCounter, resumeAt, draining, hookTasks>>
    BY <1>2 DEF ResumeWaitingTask
  <2> QED  BY <2>1, <2>2, TasksAtRest DEF IndInv
<1>3. CASE /\ resumeAt[Current] # NotWaiting
           /\ resumeAt' = [resumeAt EXCEPT ![Current] = NotWaiting]
           /\ BeginDrain(Current)
  <2>1. programCounter' = programCounter /\ hookTasks' = hookTasks
    BY DEF ResumeWaitingTask
  <2>2. programCounter'[Current] >= 1 /\ resumeAt'[Current] = NotWaiting
    <3>1. Current \in Tasks \ {draining}
      BY <1>1, TasksAssumption
    <3>2. programCounter[Current] >= 1
      <4>1. programCounter[Current] > 1
        BY <1>3, <3>1 DEF IndInv, ParkedTasksHaveAWakeUp
      <4>2. programCounter[Current] \in Nat
        BY <1>1 DEF IndInv, TypeOK
      <4> QED  BY <4>1, <4>2
    <3>3. resumeAt \in [Tasks -> Nat]
      BY DEF IndInv, TypeOK
    <3> QED  BY <1>1, <1>3, <2>1, <3>2, <3>3
  <2>3. /\ DrainedTaskMoves' /\ HooksStartLifecycleTasks' /\ ParkedTasksHaveAWakeUp'
        /\ programCounter' \in [Tasks -> Nat] /\ resumeAt' \in [Tasks -> Nat]
        /\ draining' \in Tasks \cup {NoTask} /\ budget' \in Nat
    BY <1>1, <1>3, <2>1, <2>2, TaskBegins
  <2>4. TypeOK'
    BY <2>3 DEF IndInv, TypeOK, ResumeWaitingTask
  <2> QED  BY <2>3, <2>4 DEF IndInv
<1> QED  BY <1>2, <1>3 DEF ResumeWaitingTask, CanResume

LEMMA ChargeEveryTaskInvariant == IndInv /\ ChargeEveryTask => IndInv'
<1> SUFFICES ASSUME IndInv, ChargeEveryTask PROVE IndInv'
  OBVIOUS
<1> USE DEF taskVars, dataVars, machineVars, callVars, runVars
<1>1. Current \in Tasks
  BY CursorType DEF IndInv, ChargeEveryTask
<1>2. accumulated' \in [Tasks -> Nat]
  BY <1>1 DEF IndInv, TypeOK, ChargeEveryTask
<1>3. TypeOK'
  BY <1>2 DEF IndInv, TypeOK, ChargeEveryTask
<1>4. UNCHANGED <<programCounter, resumeAt, draining, hookTasks>>
  BY DEF ChargeEveryTask
<1> QED  BY <1>3, <1>4, TasksAtRest DEF IndInv

LEMMA FireEveryTaskInvariant == IndInv /\ FireEveryTask => IndInv'
<1> SUFFICES ASSUME IndInv, FireEveryTask PROVE IndInv'
  OBVIOUS
<1> USE DEF taskVars, dataVars, machineVars, callVars, runVars
<1>1. Current \in Tasks /\ draining = NoTask
  BY CursorType DEF IndInv, FireEveryTask, AtTask, Quiet
<1>2. accumulated' \in [Tasks -> Nat]
  <2>1. accumulated \in [Tasks -> Nat]
    BY DEF IndInv, TypeOK
  <2>2. accumulated[Current] \in Nat /\ IntervalOf[Current] \in Nat
    BY <1>1, <2>1, TasksAssumption
  <2>3. /\ accumulated[Current] >= IntervalOf[Current]
        /\ accumulated' =
             [accumulated EXCEPT ![Current] = accumulated[Current] - IntervalOf[Current]]
    BY DEF FireEveryTask, CarryOver
  <2>4. accumulated[Current] - IntervalOf[Current] \in Nat
    BY <2>2, <2>3
  <2> QED  BY <2>1, <2>3, <2>4
<1>3. CASE UNCHANGED <<programCounter, draining, budget>>
  <2>1. TypeOK'
    BY <1>2, <1>3 DEF IndInv, TypeOK, FireEveryTask
  <2>2. UNCHANGED <<programCounter, resumeAt, draining, hookTasks>>
    BY <1>3 DEF FireEveryTask
  <2> QED  BY <2>1, <2>2, TasksAtRest DEF IndInv
<1>4. CASE /\ programCounter[Current] = NoProgress
           /\ programCounter' = [programCounter EXCEPT ![Current] = 1]
           /\ BeginDrain(Current)
  <2>1. resumeAt' = resumeAt /\ hookTasks' = hookTasks
    BY DEF FireEveryTask
  <2>2. programCounter'[Current] >= 1 /\ resumeAt'[Current] = NotWaiting
    <3>1. Current \in Tasks \ {draining}
      BY <1>1, TasksAssumption
    <3>2. resumeAt[Current] = NotWaiting
      BY <1>4, <3>1 DEF IndInv, ParkedTasksHaveAWakeUp, NoProgress
    <3>3. programCounter \in [Tasks -> Nat]
      BY DEF IndInv, TypeOK
    <3> QED  BY <1>1, <1>4, <2>1, <3>2, <3>3
  <2>3. /\ DrainedTaskMoves' /\ HooksStartLifecycleTasks' /\ ParkedTasksHaveAWakeUp'
        /\ programCounter' \in [Tasks -> Nat] /\ resumeAt' \in [Tasks -> Nat]
        /\ draining' \in Tasks \cup {NoTask} /\ budget' \in Nat
    BY <1>1, <1>4, <2>1, <2>2, TaskBegins
  <2>4. TypeOK'
    BY <1>2, <2>3 DEF IndInv, TypeOK, FireEveryTask
  <2> QED  BY <2>3, <2>4 DEF IndInv
<1> QED  BY <1>3, <1>4 DEF FireEveryTask, CanFire

LEMMA LeaveEveryTaskInvariant == IndInv /\ LeaveEveryTask => IndInv'
<1> SUFFICES ASSUME IndInv, LeaveEveryTask PROVE IndInv'
  OBVIOUS
<1> USE DEF taskVars, dataVars, machineVars, callVars, runVars
<1>1. TypeOK'
  <2>1. charged' \in BOOLEAN
    BY Zenon DEF LeaveEveryTask
  <2>2. cursor' \in Nat \ {0}
    BY DEF IndInv, TypeOK, LeaveEveryTask
  <2> QED  BY <2>1, <2>2 DEF IndInv, TypeOK, LeaveEveryTask
<1>2. UNCHANGED <<programCounter, resumeAt, draining, hookTasks>>
  BY DEF LeaveEveryTask
<1> QED  BY <1>1, <1>2, TasksAtRest DEF IndInv

LEMMA StartLoopTaskInvariant == IndInv /\ StartLoopTask => IndInv'
<1> SUFFICES ASSUME IndInv, StartLoopTask PROVE IndInv'
  OBVIOUS
<1> USE DEF taskVars, dataVars, machineVars, callVars, runVars
<1>1. Current \in Tasks /\ draining = NoTask
  BY CursorType DEF IndInv, StartLoopTask, AtTask, Quiet
<1>2. CASE UNCHANGED <<programCounter, draining, budget>>
  <2>1. TypeOK'
    BY <1>2 DEF IndInv, TypeOK, StartLoopTask
  <2>2. UNCHANGED <<programCounter, resumeAt, draining, hookTasks>>
    BY <1>2 DEF StartLoopTask
  <2> QED  BY <2>1, <2>2, TasksAtRest DEF IndInv
<1>3. CASE /\ \/ programCounter[Current] = NoProgress
              \/ resumeAt[Current] = NotWaiting
           /\ programCounter' = [programCounter EXCEPT ![Current] = 1]
           /\ BeginDrain(Current)
  <2>1. resumeAt' = resumeAt /\ hookTasks' = hookTasks
    BY DEF StartLoopTask
  <2>2. programCounter'[Current] >= 1 /\ resumeAt'[Current] = NotWaiting
    <3>1. Current \in Tasks \ {draining}
      BY <1>1, TasksAssumption
    <3>2. resumeAt[Current] = NotWaiting
      BY <1>3, <3>1 DEF IndInv, ParkedTasksHaveAWakeUp, NoProgress
    <3>3. programCounter \in [Tasks -> Nat]
      BY DEF IndInv, TypeOK
    <3> QED  BY <1>1, <1>3, <2>1, <3>2, <3>3
  <2>3. /\ DrainedTaskMoves' /\ HooksStartLifecycleTasks' /\ ParkedTasksHaveAWakeUp'
        /\ programCounter' \in [Tasks -> Nat] /\ resumeAt' \in [Tasks -> Nat]
        /\ draining' \in Tasks \cup {NoTask} /\ budget' \in Nat
    BY <1>1, <1>3, <2>1, <2>2, TaskBegins
  <2>4. TypeOK'
    BY <2>3 DEF IndInv, TypeOK, StartLoopTask
  <2> QED  BY <2>3, <2>4 DEF IndInv
<1> QED  BY <1>2, <1>3 DEF StartLoopTask, CanStartLoop

LEMMA OfferEventToTaskInvariant == IndInv /\ OfferEventToTask => IndInv'
<1> SUFFICES ASSUME IndInv, OfferEventToTask PROVE IndInv'
  OBVIOUS
<1> USE DEF taskVars, dataVars, machineVars, callVars, runVars
<1>1. Current \in Tasks /\ draining = NoTask
  BY CursorType DEF IndInv, OfferEventToTask, AtTask, Quiet
<1>2. CASE UNCHANGED <<programCounter, draining, budget>>
  <2>1. TypeOK'
    BY <1>2 DEF IndInv, TypeOK, OfferEventToTask
  <2>2. UNCHANGED <<programCounter, resumeAt, draining, hookTasks>>
    BY <1>2 DEF OfferEventToTask
  <2> QED  BY <2>1, <2>2, TasksAtRest DEF IndInv
<1>3. CASE /\ programCounter[Current] = NoProgress
           /\ programCounter' = [programCounter EXCEPT ![Current] = 1]
           /\ BeginDrain(Current)
  <2>1. resumeAt' = resumeAt /\ hookTasks' = hookTasks
    BY DEF OfferEventToTask
  <2>2. programCounter'[Current] >= 1 /\ resumeAt'[Current] = NotWaiting
    <3>1. Current \in Tasks \ {draining}
      BY <1>1, TasksAssumption
    <3>2. resumeAt[Current] = NotWaiting
      BY <1>3, <3>1 DEF IndInv, ParkedTasksHaveAWakeUp, NoProgress
    <3>3. programCounter \in [Tasks -> Nat]
      BY DEF IndInv, TypeOK
    <3> QED  BY <1>1, <1>3, <2>1, <3>2, <3>3
  <2>3. /\ DrainedTaskMoves' /\ HooksStartLifecycleTasks' /\ ParkedTasksHaveAWakeUp'
        /\ programCounter' \in [Tasks -> Nat] /\ resumeAt' \in [Tasks -> Nat]
        /\ draining' \in Tasks \cup {NoTask} /\ budget' \in Nat
    BY <1>1, <1>3, <2>1, <2>2, TaskBegins
  <2>4. TypeOK'
    <3>1. /\ cursor' = cursor + 1
          /\ UNCHANGED <<total, running, accumulated, resumeAt, dataVars, machineVars,
                         phase, charged, elapsed, event, plan, hookTasks>>
      BY DEF OfferEventToTask
    <3> QED  BY <2>3, <3>1 DEF IndInv, TypeOK
  <2> QED  BY <2>3, <2>4 DEF IndInv
<1> QED  BY <1>2, <1>3 DEF OfferEventToTask, CanBeOffered

LEMMA ChargeMachineInvariant == IndInv /\ ChargeMachine => IndInv'
<1> SUFFICES ASSUME IndInv, ChargeMachine PROVE IndInv'
  OBVIOUS
<1> USE DEF taskVars, dataVars, machineVars, callVars, runVars
<1>1. Machine \in Machines
  BY CursorType DEF IndInv, ChargeMachine
<1>2. machineAccumulated' \in [Machines -> Nat]
  BY <1>1 DEF IndInv, TypeOK, ChargeMachine
<1>3. TypeOK'
  BY <1>2 DEF IndInv, TypeOK, ChargeMachine
<1>4. UNCHANGED <<programCounter, resumeAt, draining, hookTasks>>
  BY DEF ChargeMachine
<1> QED  BY <1>3, <1>4, TasksAtRest DEF IndInv

LEMMA LeaveMachineInvariant == IndInv /\ LeaveMachine => IndInv'
<1> SUFFICES ASSUME IndInv, LeaveMachine PROVE IndInv'
  OBVIOUS
<1> USE DEF taskVars, dataVars, machineVars, callVars, runVars
<1>1. machineAccumulated' \in [Machines -> Nat]
  BY DEF IndInv, TypeOK, LeaveMachine
<1>2. charged' \in BOOLEAN
  BY Zenon DEF LeaveMachine
<1>3. cursor' \in Nat \ {0}
  BY DEF IndInv, TypeOK, LeaveMachine
<1>4. TypeOK'
  <2>1. UNCHANGED <<total, taskVars, dataVars, activeLeaf, entryTime, phase,
                    elapsed, event, runVars>>
    BY DEF LeaveMachine
  <2> QED  BY <1>1, <1>2, <1>3, <2>1 DEF IndInv, TypeOK
<1>5. UNCHANGED <<programCounter, resumeAt, draining, hookTasks>>
  BY DEF LeaveMachine
<1> QED  BY <1>4, <1>5, TasksAtRest DEF IndInv

LEMMA TickMachineInvariant == IndInv /\ TickMachine => IndInv'
<1> SUFFICES ASSUME IndInv, TickMachine PROVE IndInv'
  OBVIOUS
<1> USE DEF taskVars, dataVars, machineVars, callVars, runVars
<1>1. Machine \in Machines
  BY CursorType DEF IndInv, TickMachine
<1>2. machineAccumulated' \in [Machines -> Nat]
  <2>1. machineAccumulated \in [Machines -> Nat]
    BY DEF IndInv, TypeOK
  <2>2. machineAccumulated[Machine] \in Nat /\ TickIntervalOf[Machine] \in Int
    BY <1>1, <2>1, MachinesAssumption
  <2>3. /\ machineAccumulated[Machine] >= TickIntervalOf[Machine]
        /\ machineAccumulated' =
             [machineAccumulated EXCEPT ![Machine] =
                machineAccumulated[Machine] - TickIntervalOf[Machine]]
    BY DEF TickMachine, CarryOver
  <2>4. machineAccumulated[Machine] - TickIntervalOf[Machine] \in Nat
    BY <2>2, <2>3
  <2> QED  BY <2>1, <2>3, <2>4
<1>3. plan' \in Seq(PlanSteps)
  <2>1. CASE plan' = << >>
    BY <2>1
  <2>2. ASSUME NEW taken \in Taken(Machine),
               plan' = TransitionPlan(activeLeaf[Machine], TargetLeaf(Machine, taken))
        PROVE  plan' \in Seq(PlanSteps)
    <3>1. TargetLeaf(Machine, taken) \in Leaves
      BY <1>1, TargetLeafType DEF IndInv
    <3>2. activeLeaf[Machine] \in Leaves
      BY <1>1 DEF IndInv, TypeOK
    <3> QED  BY <2>2, <3>1, <3>2, TransitionPlanType
  <2> QED  BY <2>1, <2>2 DEF TickMachine
<1>4. TypeOK'
  BY <1>2, <1>3 DEF IndInv, TypeOK, TickMachine
<1>5. UNCHANGED <<programCounter, resumeAt, draining, hookTasks>>
  BY DEF TickMachine
<1> QED  BY <1>4, <1>5, TasksAtRest DEF IndInv

\* A plan is carried out from its front.
LEMMA PlanStepType ==
  ASSUME TypeOK, plan # << >>
  PROVE  plan[1] \in PlanSteps /\ Tail(plan) \in Seq(PlanSteps)
BY DEF TypeOK

LEMMA SwitchLeafInvariant == IndInv /\ SwitchLeaf => IndInv'
<1> SUFFICES ASSUME IndInv, SwitchLeaf PROVE IndInv'
  OBVIOUS
<1> USE DEF taskVars, dataVars, machineVars, callVars, runVars
<1>1. plan[1].path \in Leaves /\ plan' \in Seq(PlanSteps)
  <2>1. plan[1] \in PlanSteps /\ Tail(plan) \in Seq(PlanSteps)
    BY PlanStepType DEF IndInv, SwitchLeaf
  <2> QED  BY <2>1 DEF PlanSteps, SwitchLeaf
<1>2. activeLeaf' \in [Machines -> Leaves]
  BY <1>1 DEF IndInv, TypeOK, SwitchLeaf
<1>3. entryTime' \in [Paths -> 0..MaxTime \cup {NeverEntered}]
  <2>1. /\ total \in 0..MaxTime
        /\ entryTime \in [Paths -> 0..MaxTime \cup {NeverEntered}]
    BY DEF IndInv, TypeOK
  <2>2. entryTime' = [path \in Paths |->
                        IF path \in StatesEntered
                          THEN total ELSE entryTime[path]]
    BY DEF SwitchLeaf
  <2> QED  BY <2>1, <2>2
<1>4. UNCHANGED <<total, taskVars, dataVars, machineAccumulated, callVars,
                  hookTasks, draining, budget>>
  BY DEF SwitchLeaf
<1>5. TypeOK'
  BY <1>1, <1>2, <1>3, <1>4 DEF IndInv, TypeOK
<1> QED  BY <1>4, <1>5, TasksAtRest DEF IndInv

LEMMA DispatchHookInvariant == IndInv /\ DispatchHook => IndInv'
<1> SUFFICES ASSUME IndInv, DispatchHook PROVE IndInv'
  OBVIOUS
<1> USE DEF taskVars, dataVars, machineVars, callVars, runVars
<1>1. plan' \in Seq(PlanSteps)
  BY PlanStepType DEF IndInv, DispatchHook
<1>2. /\ hookTasks' \subseteq 1..Len(TaskOrder)
      /\ \A position \in hookTasks' :
           Trigger[TaskOrder[position]] \in {"state_enter", "state_exit"}
  BY DEF DispatchHook, HookTasks
<1>3. UNCHANGED <<total, taskVars, dataVars, machineVars, callVars, draining, budget>>
  BY DEF DispatchHook
<1>4. TypeOK'
  BY <1>1, <1>2, <1>3 DEF IndInv, TypeOK
<1>5. HooksStartLifecycleTasks'
  BY <1>2 DEF HooksStartLifecycleTasks, LifecycleTaskSet, Tasks
<1>6. DrainedTaskMoves' /\ ParkedTasksHaveAWakeUp'
  BY <1>3 DEF IndInv, DrainedTaskMoves, ParkedTasksHaveAWakeUp
<1> QED  BY <1>4, <1>5, <1>6 DEF IndInv

LEMMA StartLifecycleTaskInvariant == IndInv /\ StartLifecycleTask => IndInv'
<1> SUFFICES ASSUME IndInv, StartLifecycleTask PROVE IndInv'
  OBVIOUS
<1> USE DEF taskVars, dataVars, machineVars, callVars, runVars
<1>1. PICK next \in hookTasks :
        /\ hookTasks' = hookTasks \ {next}
        /\ IF running[TaskOrder[next]]
             THEN StartHookTask(TaskOrder[next])
             ELSE UNCHANGED <<resumeAt, programCounter, draining, budget>>
  BY DEF StartLifecycleTask
<1> DEFINE task == TaskOrder[next]
<1>2. /\ task \in Tasks /\ draining = NoTask
      /\ hookTasks' \subseteq hookTasks /\ hookTasks' \subseteq 1..Len(TaskOrder)
      /\ UNCHANGED <<total, running, accumulated, dataVars, machineVars, callVars,
                     plan>>
  BY <1>1 DEF IndInv, TypeOK, StartLifecycleTask, Tasks
<1> HIDE DEF task
<1>3. CASE UNCHANGED <<resumeAt, programCounter, draining, budget>>
  <2>1. TypeOK'
    BY <1>2, <1>3 DEF IndInv, TypeOK
  <2>2. DrainedTaskMoves' /\ HooksStartLifecycleTasks' /\ ParkedTasksHaveAWakeUp'
    BY <1>2, <1>3
    DEF IndInv, DrainedTaskMoves, HooksStartLifecycleTasks, ParkedTasksHaveAWakeUp
  <2> QED  BY <2>1, <2>2 DEF IndInv
<1>4. CASE /\ resumeAt' = [resumeAt EXCEPT ![task] = NotWaiting]
           /\ programCounter' = [programCounter EXCEPT ![task] = 1]
           /\ BeginDrain(task)
  <2>1. programCounter'[task] >= 1 /\ resumeAt'[task] = NotWaiting
    BY <1>2, <1>4 DEF IndInv, TypeOK
  <2>2. /\ DrainedTaskMoves' /\ HooksStartLifecycleTasks' /\ ParkedTasksHaveAWakeUp'
        /\ programCounter' \in [Tasks -> Nat] /\ resumeAt' \in [Tasks -> Nat]
        /\ draining' \in Tasks \cup {NoTask} /\ budget' \in Nat
    BY <1>2, <1>4, <2>1, TaskBegins
  <2>3. TypeOK'
    BY <1>2, <2>2 DEF IndInv, TypeOK
  <2> QED  BY <2>2, <2>3 DEF IndInv
<1>5. CASE /\ resumeAt' = [resumeAt EXCEPT ![task] = NotWaiting]
           /\ programCounter' = [programCounter EXCEPT ![task] = NoProgress]
           /\ UNCHANGED <<draining, budget>>
  <2>1. programCounter' \in [Tasks -> Nat] /\ resumeAt' \in [Tasks -> Nat]
    BY <1>2, <1>5 DEF IndInv, TypeOK, NoProgress, NotWaiting
  <2>2. TypeOK'
    BY <1>2, <1>5, <2>1 DEF IndInv, TypeOK
  <2>3. DrainedTaskMoves' /\ HooksStartLifecycleTasks'
    BY <1>2, <1>5 DEF IndInv, DrainedTaskMoves, HooksStartLifecycleTasks
  <2>4. ParkedTasksHaveAWakeUp'
    BY <1>2, <1>5 DEF IndInv, TypeOK, ParkedTasksHaveAWakeUp
  <2> QED  BY <2>2, <2>3, <2>4 DEF IndInv
<1> QED  BY <1>1, <1>3, <1>4, <1>5 DEF StartHookTask, task

LEMMA BootMachineInvariant == IndInv /\ BootMachine => IndInv'
<1> SUFFICES ASSUME IndInv, BootMachine PROVE IndInv'
  OBVIOUS
<1> USE DEF taskVars, dataVars, machineVars, callVars, runVars
<1>1. activeLeaf[Machine] \in Nodes
  BY CursorType DEF IndInv, TypeOK, BootMachine, Leaves
<1>2. EnumeratePrefixes(activeLeaf[Machine]) \in Seq(Paths)
  <2>1. EnumeratePrefixes(activeLeaf[Machine]) \in Seq(PrefixSet(activeLeaf[Machine]))
    BY <1>1, PrefixesArePaths, EnumeratePrefixesType
  <2> QED  BY <1>1, <2>1, PrefixesArePaths
<1>3. plan' \in Seq(PlanSteps)
  BY <1>2, HooksType DEF BootMachine
<1>4. TypeOK'
  BY <1>3 DEF IndInv, TypeOK, BootMachine
<1>5. UNCHANGED <<programCounter, resumeAt, draining, hookTasks>>
  BY DEF BootMachine
<1> QED  BY <1>4, <1>5, TasksAtRest DEF IndInv

LEMMA NextPhaseInvariant == IndInv /\ NextPhase => IndInv'
<1> SUFFICES ASSUME IndInv, NextPhase PROVE IndInv'
  OBVIOUS
<1> USE DEF taskVars, dataVars, machineVars, callVars, runVars
<1>1. phase' \in DOMAIN Following \cup {"flush", "idle"}
  BY DEF NextPhase, Following
<1>2. TypeOK'
  BY <1>1 DEF IndInv, TypeOK, NextPhase
<1>3. UNCHANGED <<programCounter, resumeAt, draining, hookTasks>>
  BY DEF NextPhase
<1> QED  BY <1>2, <1>3, TasksAtRest DEF IndInv

LEMMA FlushPendingEffectsInvariant == IndInv /\ FlushPendingEffects => IndInv'
<1> SUFFICES ASSUME IndInv, FlushPendingEffects PROVE IndInv'
  OBVIOUS
<1> USE DEF taskVars, dataVars, machineVars, callVars, runVars
<1>1. devices' \in [Devices -> Int]
  <2> DEFINE value(device) ==
        IF \E i \in 1..Len(pendingEffects) : pendingEffects[i].device = device
          THEN pendingEffects[LastEffectOn(device)].value
          ELSE devices[device]
  <2>1. ASSUME NEW device \in Devices
        PROVE  value(device) \in Int
    BY <2>1, FlushedType DEF IndInv, TypeOK
  <2>2. devices' = [device \in Devices |-> value(device)]
    BY DEF FlushPendingEffects
  <2> HIDE DEF value
  <2> QED  BY <2>1, <2>2
<1>2. /\ pendingEffects' = << >> /\ phase' = "idle" /\ elapsed' = 0
      /\ UNCHANGED <<total, taskVars, varValues, machineVars, cursor, charged, event,
                     runVars>>
  BY DEF FlushPendingEffects
<1>3. TypeOK'
  BY <1>1, <1>2 DEF IndInv, TypeOK
<1> QED  BY <1>2, <1>3, TasksAtRest DEF IndInv

\* A call of tick may be as long as it likes.
LEMMA BeginTickInvariant ==
  ASSUME IndInv, NEW milliseconds \in Nat, NEW queued \in Seq(Effects),
         BeginTick(milliseconds, queued)
  PROVE  IndInv'
<1> USE DEF taskVars, dataVars, machineVars, callVars, runVars
<1>1. /\ total' \in 0..MaxTime /\ pendingEffects' \in Seq(Effects)
      /\ phase' \in DOMAIN Following
  BY EnvironmentAssumption DEF IndInv, TypeOK, BeginTick, Following
<1>2. TypeOK'
  BY <1>1 DEF IndInv, TypeOK, BeginTick
<1>3. UNCHANGED <<programCounter, resumeAt, draining, hookTasks>>
  BY DEF BeginTick
<1> QED  BY <1>2, <1>3, TasksAtRest DEF IndInv

\* The calls from outside.
LEMMA ExternalInvariant == IndInv /\ External => IndInv'
<1> SUFFICES ASSUME IndInv, External PROVE IndInv'
  OBVIOUS
<1> USE DEF taskVars, dataVars, machineVars, callVars, runVars
<1>1. ASSUME NEW milliseconds \in Nat, NEW queued \in Seq(Effects),
             BeginTick(milliseconds, queued)
      PROVE  IndInv'
  BY <1>1, BeginTickInvariant
<1>2. ASSUME NEW name \in Events, DispatchScriptEvent(name)
      PROVE  IndInv'
  <2>1. phase' \in DOMAIN Following
    BY <1>2 DEF DispatchScriptEvent, Following
  <2>2. TypeOK'
    BY <1>2, <2>1 DEF IndInv, TypeOK, DispatchScriptEvent
  <2>3. UNCHANGED <<programCounter, resumeAt, draining, hookTasks>>
    BY <1>2 DEF DispatchScriptEvent
  <2> QED  BY <2>2, <2>3, TasksAtRest DEF IndInv
<1>3. ASSUME NEW task \in Commanded, StartTask(task) \/ StopTask(task)
      PROVE  IndInv'
  <2>1. running' \in [Tasks -> BOOLEAN]
    BY <1>3 DEF IndInv, TypeOK, StartTask, StopTask
  <2>2. accumulated' \in [Tasks -> Nat]
    <3>1. accumulated' = accumulated \/ accumulated' = [accumulated EXCEPT ![task] = 0]
      BY <1>3 DEF StartTask, StopTask
    <3>2. accumulated \in [Tasks -> Nat]
      BY DEF IndInv, TypeOK
    <3> QED  BY <3>1, <3>2
  <2>3. TypeOK'
    BY <1>3, <2>1, <2>2 DEF IndInv, TypeOK, StartTask, StopTask
  <2>4. UNCHANGED <<programCounter, resumeAt, draining, hookTasks>>
    BY <1>3 DEF StartTask, StopTask
  <2> QED  BY <2>3, <2>4, TasksAtRest DEF IndInv
<1>4. ASSUME NEW device \in DOMAIN Sensed, NEW value \in Sensed[device],
             SenseDevice(device, value)
      PROVE  IndInv'
  <2>1. devices' \in [Devices -> Int]
    BY <1>4, EnvironmentAssumption DEF IndInv, TypeOK, SenseDevice
  <2>2. TypeOK'
    BY <1>4, <2>1 DEF IndInv, TypeOK, SenseDevice
  <2>3. UNCHANGED <<programCounter, resumeAt, draining, hookTasks>>
    BY <1>4 DEF SenseDevice
  <2> QED  BY <2>2, <2>3, TasksAtRest DEF IndInv
<1>5. /\ \A milliseconds \in Elapses : milliseconds \in Nat
      /\ << >> \in Seq(Effects)
      /\ \A effect \in TerminalEffects : <<effect>> \in Seq(Effects)
  BY EnvironmentAssumption
<1> QED  BY <1>1, <1>2, <1>3, <1>4, <1>5 DEF External

LEMMA NextInvariant == IndInv /\ [Next]_vars => IndInv'
<1> SUFFICES ASSUME IndInv, [Next]_vars PROVE IndInv'
  OBVIOUS
<1>1. CASE Internal
  BY <1>1, ExecuteStatementInvariant, ExecuteWaitInvariant, StopDrainedTaskInvariant,
     FinishBodyInvariant, ResumeWaitingTaskInvariant, ChargeEveryTaskInvariant,
     FireEveryTaskInvariant, LeaveEveryTaskInvariant, StartLoopTaskInvariant,
     OfferEventToTaskInvariant, ChargeMachineInvariant, LeaveMachineInvariant,
     TickMachineInvariant, SwitchLeafInvariant, DispatchHookInvariant,
     StartLifecycleTaskInvariant, BootMachineInvariant, NextPhaseInvariant,
     FlushPendingEffectsInvariant
  DEF Internal, Drain
<1>2. CASE External
  BY <1>2, ExternalInvariant
<1>3. CASE UNCHANGED vars
  BY <1>3 DEF vars, taskVars, dataVars, machineVars, callVars, runVars, IndInv, TypeOK,
     DrainedTaskMoves, HooksStartLifecycleTasks, ParkedTasksHaveAWakeUp
<1> QED  BY <1>1, <1>2, <1>3 DEF Next

\* The invariant holds in every reachable state of every program.
THEOREM Invariant == Spec => []IndInv
<1>1. Init => IndInv
  BY InitInvariant
<1>2. IndInv /\ [Next]_vars => IndInv'
  BY NextInvariant
<1> QED  BY <1>1, <1>2, PTL DEF Spec

\* Every state the runtime can reach is well typed: accumulators are never
\* negative, a plan only names states of the program, the active leaf of every
\* machine is a leaf.
THEOREM TypeCorrectness == Spec => []TypeOK
<1>1. IndInv => TypeOK
  BY DEF IndInv
<1> QED  BY <1>1, Invariant, PTL

\* No task is ever left in the middle of its body without a wake-up time, for
\* any bodies, waits, stops, restarts, events and state changes.
THEOREM NoTaskIsStranded == Spec => []ParkedTasksHaveAWakeUp
<1>1. IndInv => ParkedTasksHaveAWakeUp
  BY DEF IndInv
<1> QED  BY <1>1, Invariant, PTL

------------------------------------------------------------------------------
(* Waits, and the abstract scheduler. *)

\* While no call is being served, and while the effects are flushed, no body,
\* no transition and no lifecycle task is under way.
IdleIsQuiet == phase \in {"idle", "flush"} => Quiet

LEMMA IdleIsQuietStep == IdleIsQuiet /\ [Next]_vars => IdleIsQuiet'
<1> SUFFICES ASSUME IdleIsQuiet, [Next]_vars PROVE IdleIsQuiet'
  OBVIOUS
<1> USE DEF taskVars, dataVars, machineVars, callVars, runVars, IdleIsQuiet, Quiet
<1>1. CASE Drain \/ DispatchHook \/ SwitchLeaf \/ StartLifecycleTask
  BY <1>1
  DEF Drain, ExecuteStatement, ExecuteWait, StopDrainedTask, FinishBody, AtStatement,
      DispatchHook, SwitchLeaf, StartLifecycleTask
<1>2. CASE ResumeWaitingTask \/ FireEveryTask \/ StartLoopTask \/ OfferEventToTask
  BY <1>2 DEF ResumeWaitingTask, FireEveryTask, StartLoopTask, OfferEventToTask
<1>3. CASE ChargeEveryTask \/ LeaveEveryTask \/ ChargeMachine \/ LeaveMachine
  BY <1>3 DEF ChargeEveryTask, LeaveEveryTask, ChargeMachine, LeaveMachine
<1>4. CASE TickMachine \/ BootMachine
  BY <1>4 DEF TickMachine, BootMachine
<1>5. CASE NextPhase \/ FlushPendingEffects
  BY <1>5 DEF NextPhase, FlushPendingEffects
<1>6. CASE External
  BY <1>6 DEF External, BeginTick, DispatchScriptEvent, StartTask, StopTask, SenseDevice
<1>7. CASE UNCHANGED vars
  BY <1>7 DEF vars
<1> QED  BY <1>1, <1>2, <1>3, <1>4, <1>5, <1>6, <1>7 DEF Next, Internal

\* What one step does to the bodies: either none moves, ...
OthersRest(task) ==
  \A other \in Tasks \ {task} : programCounter'[other] = programCounter[other]

BodiesRest ==
  /\ UNCHANGED <<programCounter, resumeAt, draining>>
  /\ \/ total' = total
     \/ phase = "idle" /\ total' \in Nat /\ total' >= total

\* ... or one that executes moves on or ends, ...
BodyMoves ==
  /\ draining \in Tasks /\ UNCHANGED <<total, resumeAt>>
  /\ draining' \in {draining, NoTask}
  /\ OthersRest(draining)

\* ... or begins to wait, ...
BodyParks ==
  /\ draining \in Tasks /\ draining' = NoTask /\ total' = total
  /\ \E time \in Nat :
       time > total /\ resumeAt' = [resumeAt EXCEPT ![draining] = time]
  /\ OthersRest(draining)

\* ... or one is begun, continued or, being a lifecycle task, given up.
BodyBegins(task) ==
  /\ draining = NoTask /\ total' = total
  /\ draining' = task \/ (draining' = NoTask /\ task \in LifecycleTaskSet)
  /\ resumeAt[task] <= total \/ task \in LifecycleTaskSet
  /\ resumeAt' = [resumeAt EXCEPT ![task] = NotWaiting]
  /\ OthersRest(task)

LEMMA StepsOfBodies ==
  ASSUME IndInv, [Next]_vars
  PROVE  BodiesRest \/ BodyMoves \/ BodyParks \/ \E task \in Tasks : BodyBegins(task)
<1> USE DEF taskVars, dataVars, machineVars, callVars, runVars
<1>0. /\ programCounter \in [Tasks -> Nat] /\ resumeAt \in [Tasks -> Nat]
      /\ total \in Nat /\ draining \in Tasks \cup {NoTask}
  BY EnvironmentAssumption DEF IndInv, TypeOK
<1>1. ASSUME ExecuteStatement \/ StopDrainedTask \/ FinishBody
      PROVE  BodyMoves
  BY <1>0, <1>1
  DEF ExecuteStatement, StopDrainedTask, FinishBody, AtStatement, BodyMoves, OthersRest
<1>2. ASSUME ExecuteWait
      PROVE  BodyParks
  <2> DEFINE duration == Value(Statement.duration)
  <2>1. draining \in Tasks /\ Statement \in Statements /\ Statement.kind = "wait"
    BY <1>2, StatementType DEF IndInv, ExecuteWait
  <2>2. Statement.duration \in Expressions /\ Defined(Statement.duration)
    BY <1>2, <2>1 DEF Statements, SimpleStatements, ExecuteWait, ValidWait
  <2>3. duration \in Int /\ duration > 0
    BY <1>2, <2>2, ValueType DEF IndInv, ExecuteWait, ValidWait
  <2>4. /\ resumeAt' = [resumeAt EXCEPT ![draining] = total + duration]
        /\ programCounter' = [programCounter EXCEPT ![draining] = @ + 1]
        /\ draining' = NoTask /\ total' = total
    BY <1>2 DEF ExecuteWait
  <2> HIDE DEF duration
  <2>5. total + duration \in Nat /\ total + duration > total
    BY <1>0, <2>3
  <2> QED  BY <1>0, <2>1, <2>4, <2>5 DEF BodyParks, OthersRest
<1>3. ASSUME ResumeWaitingTask
      PROVE  BodiesRest \/ \E task \in Tasks : BodyBegins(task)
  <2>1. Current \in Tasks /\ draining = NoTask
    BY <1>3, CursorType DEF IndInv, ResumeWaitingTask, AtTask, Quiet
  <2>2. CASE UNCHANGED <<resumeAt, draining, budget>>
    BY <1>3, <2>2 DEF ResumeWaitingTask, BodiesRest
  <2>3. CASE ~ UNCHANGED <<resumeAt, draining, budget>>
    <3>1. BodyBegins(Current)
      BY <1>0, <1>3, <2>1, <2>3 DEF ResumeWaitingTask, CanResume, BeginDrain, BodyBegins,
        OthersRest
    <3> QED  BY <2>1, <3>1
  <2> QED  BY <2>2, <2>3
<1>4. ASSUME FireEveryTask \/ StartLoopTask \/ OfferEventToTask
      PROVE  BodiesRest \/ \E task \in Tasks : BodyBegins(task)
  <2>1. Current \in Tasks /\ draining = NoTask /\ resumeAt' = resumeAt /\ total' = total
    BY <1>4, CursorType
    DEF IndInv, FireEveryTask, StartLoopTask, OfferEventToTask, AtTask, Quiet
  <2>2. CASE UNCHANGED <<programCounter, draining, budget>>
    BY <2>1, <2>2 DEF BodiesRest
  <2>3. CASE ~ UNCHANGED <<programCounter, draining, budget>>
    <3>1. /\ programCounter[Current] = NoProgress \/ resumeAt[Current] = NotWaiting
          /\ programCounter' = [programCounter EXCEPT ![Current] = 1]
          /\ draining' = Current
      BY <1>4, <2>3
      DEF FireEveryTask, StartLoopTask, OfferEventToTask, BeginDrain, CanFire,
          CanStartLoop, CanBeOffered
    <3>2. Current \in Tasks \ {draining}
      BY <2>1, TasksAssumption
    <3>3. resumeAt[Current] = NotWaiting
      BY <3>1, <3>2 DEF IndInv, ParkedTasksHaveAWakeUp, NoProgress
    <3>4. BodyBegins(Current)
      BY <1>0, <2>1, <3>1, <3>3 DEF NotWaiting, BodyBegins, OthersRest
    <3> QED  BY <2>1, <3>4
  <2> QED  BY <2>2, <2>3
<1>5. ASSUME StartLifecycleTask
      PROVE  BodiesRest \/ \E task \in Tasks : BodyBegins(task)
  <2>1. PICK next \in hookTasks :
          IF running[TaskOrder[next]]
            THEN StartHookTask(TaskOrder[next])
            ELSE UNCHANGED <<resumeAt, programCounter, draining, budget>>
    BY <1>5 DEF StartLifecycleTask
  <2> DEFINE task == TaskOrder[next]
  <2>2. task \in Tasks /\ task \in LifecycleTaskSet
    BY DEF IndInv, HooksStartLifecycleTasks, LifecycleTaskSet
  <2>3. draining = NoTask /\ total' = total
    BY <1>5 DEF StartLifecycleTask
  <2>4. CASE UNCHANGED <<resumeAt, programCounter, draining, budget>>
    BY <2>3, <2>4 DEF BodiesRest
  <2>5. CASE StartHookTask(task)
    <3>1. /\ resumeAt' = [resumeAt EXCEPT ![task] = NotWaiting]
          /\ \/ /\ programCounter' = [programCounter EXCEPT ![task] = 1]
                /\ draining' = task
             \/ /\ programCounter' = [programCounter EXCEPT ![task] = NoProgress]
                /\ draining' = draining
      BY <2>5 DEF StartHookTask, BeginDrain
    <3> HIDE DEF task
    <3>2. BodyBegins(task)
      BY <1>0, <2>2, <2>3, <3>1 DEF BodyBegins, OthersRest
    <3> QED  BY <2>2, <3>2
  <2> QED  BY <2>1, <2>4, <2>5
<1>6. ASSUME \/ ChargeEveryTask \/ LeaveEveryTask
             \/ ChargeMachine \/ LeaveMachine \/ TickMachine
             \/ SwitchLeaf \/ DispatchHook \/ BootMachine
             \/ NextPhase \/ FlushPendingEffects
      PROVE  BodiesRest
  BY <1>6
  DEF ChargeEveryTask, LeaveEveryTask, ChargeMachine, LeaveMachine, TickMachine,
      SwitchLeaf, DispatchHook, BootMachine, NextPhase, FlushPendingEffects, BodiesRest
<1>7. ASSUME External
      PROVE  BodiesRest
  <2>1. ASSUME NEW milliseconds \in Nat, NEW queued, BeginTick(milliseconds, queued)
        PROVE  BodiesRest
    BY <1>0, <2>1 DEF BeginTick, BodiesRest
  <2>2. ASSUME \/ \E name \in Events : DispatchScriptEvent(name)
               \/ \E task \in Commanded : StartTask(task) \/ StopTask(task)
               \/ \E device \in DOMAIN Sensed : \E value \in Sensed[device] :
                    SenseDevice(device, value)
        PROVE  BodiesRest
    BY <2>2 DEF DispatchScriptEvent, StartTask, StopTask, SenseDevice, BodiesRest
  <2>3. Elapses \subseteq Nat /\ 0 \in Nat
    BY EnvironmentAssumption
  <2> QED  BY <1>7, <2>1, <2>2, <2>3 DEF External
<1>8. ASSUME UNCHANGED vars
      PROVE  BodiesRest
  BY <1>8 DEF vars, BodiesRest
<1>9. ASSUME Drain
      PROVE  BodyMoves \/ BodyParks
  BY <1>1, <1>2, <1>9 DEF Drain
<1> QED  BY <1>3, <1>4, <1>5, <1>6, <1>7, <1>8, <1>9 DEF Next, Internal

\* A wait that is not over is never cut short, except that a lifecycle task is
\* started over when its hook comes round again.
THEOREM WaitsAreNeverCutShort == Spec => WaitsAreHonoured
<1>1. IndInv /\ [Next]_vars =>
        [\A task \in Tasks :
           (resumeAt[task] > total /\ Trigger[task] \in {"none", "device_event"}) =>
             UNCHANGED <<programCounter[task], resumeAt[task]>>]_vars
  <2> SUFFICES ASSUME IndInv, [Next]_vars, NEW task \in Tasks,
                      resumeAt[task] > total, task \notin LifecycleTaskSet
               PROVE  /\ programCounter'[task] = programCounter[task]
                      /\ resumeAt'[task] = resumeAt[task]
    BY DEF LifecycleTaskSet
  <2>0. total \in Nat /\ resumeAt \in [Tasks -> Nat]
    BY EnvironmentAssumption DEF IndInv, TypeOK
  <2>1. CASE BodiesRest
    BY <2>1 DEF BodiesRest
  <2>2. ASSUME draining \in Tasks
        PROVE  task # draining
    BY <2>0, <2>2, TasksAssumption DEF IndInv, DrainedTaskMoves, NotWaiting
  <2>3. CASE BodyMoves
    BY <2>2, <2>3 DEF BodyMoves, OthersRest
  <2>4. CASE BodyParks
    BY <2>0, <2>2, <2>4 DEF BodyParks, OthersRest
  <2>5. ASSUME NEW other \in Tasks, BodyBegins(other)
        PROVE  /\ programCounter'[task] = programCounter[task]
               /\ resumeAt'[task] = resumeAt[task]
    <3>1. task # other
      BY <2>0, <2>5 DEF BodyBegins
    <3> QED  BY <2>0, <2>5, <3>1 DEF BodyBegins, OthersRest
  <2> QED  BY <2>1, <2>3, <2>4, <2>5, StepsOfBodies
<1> QED  BY <1>1, Invariant, PTL DEF Spec, WaitsAreHonoured

\* The scheduler implements the abstract one: one body at a time, time stands
\* still meanwhile, and a waiting body is continued, once, after its time.
THEOREM Refinement == Spec => RefinesCooperativeTasks
<1>1. Init => Cooperative!Init
  BY EnvironmentAssumption DEF Init, Cooperative!Init, NotWaiting
<1>2. IndInv /\ IdleIsQuiet /\ [Next]_vars => [Cooperative!Next]_(Cooperative!vars)
  <2> SUFFICES ASSUME IndInv, IdleIsQuiet, [Next]_vars
               PROVE  Cooperative!Next \/ UNCHANGED Cooperative!vars
    OBVIOUS
  <2>0. /\ total \in Nat /\ resumeAt \in [Tasks -> Nat]
        /\ draining \in Tasks \cup {NoTask} /\ NoTask \notin Tasks
    BY EnvironmentAssumption, TasksAssumption DEF IndInv, TypeOK
  <2>1. CASE BodiesRest
    <3>1. CASE total' = total
      BY <2>1, <3>1 DEF BodiesRest, Cooperative!vars
    <3>2. CASE phase = "idle" /\ total' \in Nat /\ total' >= total
      <4>1. draining = NoTask
        BY <3>2 DEF IdleIsQuiet, Quiet
      <4>2. Cooperative!Advance
        BY <2>1, <3>2, <4>1 DEF BodiesRest, Cooperative!Advance
      <4> QED  BY <4>2 DEF Cooperative!Next
    <3> QED  BY <2>1, <3>1, <3>2 DEF BodiesRest
  <2>2. CASE BodyMoves
    <3>1. CASE draining' = draining
      BY <2>2, <3>1 DEF BodyMoves, Cooperative!vars
    <3>2. CASE draining' = NoTask
      <4>1. Cooperative!End(draining) /\ draining \in Tasks
        BY <2>0, <2>2, <3>2 DEF BodyMoves, Cooperative!End
      <4> QED  BY <4>1 DEF Cooperative!Next
    <3> QED  BY <2>2, <3>1, <3>2 DEF BodyMoves
  <2>3. CASE BodyParks
    <3>1. Cooperative!WaitFor(draining) /\ draining \in Tasks
      BY <2>0, <2>3 DEF BodyParks, Cooperative!WaitFor
    <3> QED  BY <3>1 DEF Cooperative!Next
  <2>4. ASSUME NEW task \in Tasks, BodyBegins(task)
        PROVE  Cooperative!Next
    <3>1. CASE draining' = task
      <4>1. Cooperative!Begin(task) \/ Cooperative!Continue(task)
        BY <2>0, <2>4, <3>1
        DEF BodyBegins, Cooperative!Begin, Cooperative!Continue, NotWaiting
      <4> QED  BY <4>1 DEF Cooperative!Next
    <3>2. CASE draining' = NoTask /\ task \in LifecycleTaskSet
      <4>1. Cooperative!GiveUp(task)
        BY <2>0, <2>4, <3>2 DEF BodyBegins, Cooperative!GiveUp, NotWaiting
      <4> QED  BY <4>1 DEF Cooperative!Next
    <3> QED  BY <2>4, <3>1, <3>2 DEF BodyBegins
  <2> QED  BY <2>1, <2>2, <2>3, <2>4, StepsOfBodies
<1>3. Init => IdleIsQuiet
  BY DEF Init, IdleIsQuiet
<1>4. Spec => []IdleIsQuiet
  BY <1>3, IdleIsQuietStep, PTL DEF Spec
<1> QED  BY <1>1, <1>2, <1>4, Invariant, PTL DEF Spec, RefinesCooperativeTasks, Cooperative!Spec

------------------------------------------------------------------------------
(* Bodies and states. *)

\* The executing task passed its membership test, and the active leaves do not
\* change before its body pauses or ends.
DrainedTaskIsRunnable == draining # NoTask => Runnable(draining)

LEMMA DrainedTaskIsRunnableStep ==
  IndInv /\ DrainedTaskIsRunnable /\ [Next]_vars => DrainedTaskIsRunnable'
<1> SUFFICES ASSUME IndInv, DrainedTaskIsRunnable, [Next]_vars, draining' # NoTask
             PROVE  Runnable(draining)'
  BY DEF DrainedTaskIsRunnable
<1> USE DEF taskVars, dataVars, machineVars, callVars, runVars
<1>1. ASSUME draining' = draining, activeLeaf' = activeLeaf
      PROVE  Runnable(draining)'
  BY <1>1 DEF DrainedTaskIsRunnable, Runnable
<1>2. ASSUME NEW task, draining' = task, activeLeaf' = activeLeaf, Runnable(task)
      PROVE  Runnable(draining)'
  BY <1>2 DEF Runnable
<1>3. CASE Drain
  BY <1>1, <1>3 DEF Drain, ExecuteStatement, ExecuteWait, StopDrainedTask, FinishBody
<1>4. CASE ResumeWaitingTask
  BY <1>1, <1>2, <1>4 DEF ResumeWaitingTask, CanResume, BeginDrain
<1>5. CASE FireEveryTask
  BY <1>1, <1>2, <1>5 DEF FireEveryTask, CanFire, BeginDrain
<1>6. CASE StartLoopTask
  BY <1>1, <1>2, <1>6 DEF StartLoopTask, CanStartLoop, BeginDrain
<1>7. CASE OfferEventToTask
  BY <1>1, <1>2, <1>7 DEF OfferEventToTask, CanBeOffered, BeginDrain
<1>8. CASE StartLifecycleTask
  BY <1>1, <1>2, <1>8 DEF StartLifecycleTask, StartHookTask, BeginDrain
<1>9. CASE SwitchLeaf
  BY <1>9 DEF SwitchLeaf
<1>10. CASE \/ ChargeEveryTask \/ LeaveEveryTask
            \/ ChargeMachine \/ LeaveMachine \/ TickMachine
            \/ DispatchHook \/ BootMachine \/ NextPhase \/ FlushPendingEffects
  BY <1>1, <1>10
  DEF ChargeEveryTask, LeaveEveryTask, ChargeMachine, LeaveMachine, TickMachine,
      DispatchHook, BootMachine, NextPhase, FlushPendingEffects
<1>11. CASE External
  BY <1>1, <1>11
  DEF External, BeginTick, DispatchScriptEvent, StartTask, StopTask, SenseDevice
<1>12. CASE UNCHANGED vars
  BY <1>1, <1>12 DEF vars
<1> QED
  BY <1>3, <1>4, <1>5, <1>6, <1>7, <1>8, <1>9, <1>10, <1>11, <1>12 DEF Next, Internal

\* No statement of a task is executed outside the state the task is bound to.
THEOREM BodiesRunOnlyInTheirState == Spec => []BodiesRunInTheirState
<1>1. Init => DrainedTaskIsRunnable
  BY DEF Init, DrainedTaskIsRunnable
<1>2. IndInv /\ DrainedTaskIsRunnable => BodiesRunInTheirState
  <2> SUFFICES ASSUME IndInv, DrainedTaskIsRunnable, draining # NoTask,
                      Membership[draining] # NoPath
               PROVE  \E machine \in Machines :
                        Membership[draining] \in PrefixSet(activeLeaf[machine])
    BY DEF BodiesRunInTheirState
  <2> DEFINE path == Membership[draining]
             machine == path[1]
  <2>1. draining \in Tasks /\ path \in Paths
    BY TasksAssumption DEF IndInv, TypeOK
  <2>2. PICK node \in Nodes, n \in Nat : n \in 1..Len(node) /\ path = SubSeq(node, 1, n)
    BY <2>1, MachinesAssumption DEF Paths, PrefixSet, Ancestor
  <2>3. path \in Seq(STRING) /\ Len(path) > 0 /\ machine = node[1]
    BY <2>2, MachinesAssumption
  <2>4. machine \in Machines
    BY <2>2, <2>3, MachinesAssumption
  <2>5. activeLeaf[machine] \in Seq(STRING)
    BY <2>4, MachinesAssumption DEF IndInv, TypeOK, Leaves
  <2>6. Encloses(path, activeLeaf[machine])
    BY DEF DrainedTaskIsRunnable, Runnable
  <2> HIDE DEF path, machine
  <2>7. path \in PrefixSet(activeLeaf[machine])
    BY <2>3, <2>5, <2>6, EnclosesIsPrefix
  <2> QED  BY <2>4, <2>7 DEF path
<1>3. Spec => []DrainedTaskIsRunnable
  BY <1>1, DrainedTaskIsRunnableStep, Invariant, PTL DEF Spec
<1> QED  BY <1>2, <1>3, Invariant, PTL

\* A body once begun is executed in order to its end, unless it is stopped or,
\* being a lifecycle task, started over.
THEOREM BodiesAreExecutedInOrder == Spec => BodiesRunToTheirEnd
<1>1. IndInv /\ [Next]_vars =>
        [\A task \in Tasks :
           \/ UNCHANGED programCounter[task]
           \/ programCounter'[task] = programCounter[task] + 1
           \/ programCounter[task] > Len(Body[task])
           \/ ~running'[task]
           \/ Trigger[task] \in {"state_enter", "state_exit"}]_vars
  <2> SUFFICES ASSUME IndInv, [Next]_vars, NEW task \in Tasks
               PROVE  \/ programCounter'[task] = programCounter[task]
                      \/ programCounter'[task] = programCounter[task] + 1
                      \/ programCounter[task] > Len(Body[task])
                      \/ ~running'[task]
                      \/ Trigger[task] \in {"state_enter", "state_exit"}
    OBVIOUS
  <2> USE DEF taskVars, dataVars, machineVars, callVars, runVars
  <2>0. programCounter \in [Tasks -> Nat] /\ Len(Body[task]) \in Nat
    BY TasksAssumption DEF IndInv, TypeOK
  <2>1. ASSUME programCounter' = programCounter
        PROVE  programCounter'[task] = programCounter[task]
    BY <2>1
  <2>2. CASE ExecuteStatement \/ ExecuteWait
    BY <2>0, <2>2 DEF ExecuteStatement, ExecuteWait
  <2>3. CASE StopDrainedTask
    BY <2>0, <2>3 DEF StopDrainedTask, IndInv, TypeOK
  <2>4. CASE FinishBody
    BY <2>0, <2>4 DEF FinishBody, AtStatement
  <2>5. CASE FireEveryTask \/ OfferEventToTask
    BY <2>0, <2>5 DEF FireEveryTask, OfferEventToTask, CanFire, CanBeOffered, NoProgress
  <2>6. CASE StartLoopTask
    BY <2>0, <2>6 DEF StartLoopTask, CanStartLoop, NoProgress
  <2>7. CASE StartLifecycleTask
    <3>1. PICK next \in hookTasks :
            \/ programCounter' = programCounter
            \/ StartHookTask(TaskOrder[next])
      BY <2>7 DEF StartLifecycleTask
    <3>2. TaskOrder[next] \in LifecycleTaskSet
      BY DEF IndInv, HooksStartLifecycleTasks
    <3>3. task # TaskOrder[next] => programCounter'[task] = programCounter[task]
      BY <2>0, <3>1 DEF StartHookTask
    <3> QED  BY <3>2, <3>3 DEF LifecycleTaskSet
  <2>8. CASE \/ ResumeWaitingTask \/ ChargeEveryTask \/ LeaveEveryTask
             \/ ChargeMachine \/ LeaveMachine \/ TickMachine \/ SwitchLeaf
             \/ DispatchHook \/ BootMachine \/ NextPhase \/ FlushPendingEffects
    BY <2>1, <2>8
    DEF ResumeWaitingTask, ChargeEveryTask, LeaveEveryTask, ChargeMachine,
        LeaveMachine, TickMachine, SwitchLeaf, DispatchHook, BootMachine, NextPhase,
        FlushPendingEffects
  <2>9. CASE External
    BY <2>1, <2>9
    DEF External, BeginTick, DispatchScriptEvent, StartTask, StopTask, SenseDevice
  <2>10. CASE UNCHANGED vars
    BY <2>1, <2>10 DEF vars
  <2> QED
    BY <2>2, <2>3, <2>4, <2>5, <2>6, <2>7, <2>8, <2>9, <2>10 DEF Next, Internal, Drain
<1> QED  BY <1>1, Invariant, PTL DEF Spec, BodiesRunToTheirEnd

------------------------------------------------------------------------------
(* Accumulated time. *)

\* In the tick in progress, the turn of position i of a loop is still to come,
\* or it has come and whole intervals are being used up.
Before(loop, i) ==
  \/ phase = "resume"
  \/ loop = "every" /\ phase = "machines"
  \/ phase = loop /\ (cursor < i \/ (cursor = i /\ ~charged))
CatchingUp(loop, i) == phase = loop /\ cursor = i /\ charged

\* The simulated time that position i has been given.
Counted(loop, i) == IF Before(loop, i) THEN total - elapsed ELSE total

\* What was used up of that time are whole intervals.
OnSchedule(time, counted, interval) == \E n \in Nat : counted = time + n * interval

MachineClock(i) ==
  TickIntervalOf[MachineOrder[i]] > 0 =>
    /\ OnSchedule(machineAccumulated[MachineOrder[i]], Counted("machines", i),
                  TickIntervalOf[MachineOrder[i]])
    /\ \/ CatchingUp("machines", i)
       \/ machineAccumulated[MachineOrder[i]] < TickIntervalOf[MachineOrder[i]]

TaskClock(i) ==
  (RunMode[TaskOrder[i]] = "every" /\ running[TaskOrder[i]]) =>
    /\ \/ CatchingUp("every", i)
       \/ accumulated[TaskOrder[i]] < IntervalOf[TaskOrder[i]]
    /\ TaskOrder[i] \notin Commanded =>
         OnSchedule(accumulated[TaskOrder[i]], Counted("every", i), IntervalOf[TaskOrder[i]])

\* Outside a tick no elapsed time is left, and only the two loops over clocks
\* mark a position as charged.
TickInProgress ==
  /\ elapsed <= total
  /\ phase \in {"boot", "event", "idle"} => elapsed = 0
  /\ charged => phase \in {"machines", "every"} /\ cursor <= LengthOf(phase)

ClockInvariant ==
  /\ TickInProgress
  /\ \A i \in DOMAIN MachineOrder : MachineClock(i)
  /\ \A i \in DOMAIN TaskOrder : TaskClock(i)

------------------------------------------------------------------------------
\* Arithmetic

\* A position that is given time falls behind by it.
LEMMA TimeIsGiven ==
  ASSUME NEW time \in Nat, NEW counted \in Int, NEW interval \in Nat, NEW more \in Nat,
         OnSchedule(time, counted, interval)
  PROVE  OnSchedule(time + more, counted + more, interval)
<1>1. PICK n \in Nat : counted = time + n * interval
  BY DEF OnSchedule
<1>2. n * interval \in Nat
  OBVIOUS
<1>3. counted + more = (time + more) + n * interval
  BY <1>1, <1>2
<1> QED BY <1>3 DEF OnSchedule

\* An interval that is used up leaves it on schedule.
LEMMA AnIntervalIsUsedUp ==
  ASSUME NEW time \in Nat, NEW counted \in Int, NEW interval \in Nat,
         OnSchedule(time, counted, interval)
  PROVE  OnSchedule(CarryOver(time, interval), counted, interval)
<1>1. PICK n \in Nat : counted = time + n * interval
  BY DEF OnSchedule
<1>2. n * interval \in Nat /\ (n + 1) * interval = n * interval + interval
  OBVIOUS
<1>3. counted = (time - interval) + (n + 1) * interval
  BY <1>1, <1>2
<1> QED BY <1>3 DEF OnSchedule, CarryOver

\* A multiple of the interval that is smaller than it is zero.
LEMMA NoSmallMultiple ==
  ASSUME NEW k \in Int, NEW interval \in Nat \ {0}, k * interval < interval, -interval < k * interval
  PROVE  k = 0
<1>1. ASSUME k >= 1
      PROVE  FALSE
  <2>1. k - 1 \in Nat /\ (k - 1) * interval \in Nat
    BY <1>1
  <2>2. (k - 1) * interval = k * interval - interval
    OBVIOUS
  <2> QED BY <2>1, <2>2
<1>2. ASSUME k <= -1
      PROVE  FALSE
  <2>1. -1 - k \in Nat /\ (-1 - k) * interval \in Nat
    BY <1>2
  <2>2. (-1 - k) * interval = -interval - k * interval
    OBVIOUS
  <2> QED BY <2>1, <2>2
<1> QED BY <1>1, <1>2

\* On schedule and caught up: what is left is the remainder.
LEMMA CaughtUp ==
  ASSUME NEW time \in Nat, NEW counted \in Nat, NEW interval \in Nat \ {0}, time < interval,
         OnSchedule(time, counted, interval)
  PROVE  time = counted % interval
<1>1. PICK n \in Nat : counted = time + n * interval
  BY DEF OnSchedule
<1> DEFINE q == counted \div interval
           r == counted % interval
<1>2. q \in Int /\ r \in 0..(interval - 1) /\ counted = interval * q + r
  OBVIOUS
<1> HIDE DEF q, r
<1>3. interval * q = q * interval /\ (q - n) * interval = q * interval - n * interval
  BY <1>1, <1>2
<1>4. q * interval \in Int /\ n * interval \in Int
  BY <1>1, <1>2
<1>5. (q - n) * interval = time - r
  BY <1>1, <1>2, <1>3, <1>4
<1>6. q - n \in Int /\ time - r < interval /\ -interval < time - r
  BY <1>1, <1>2
<1>7. q - n = 0
  BY <1>5, <1>6, NoSmallMultiple
<1>8. time = r
  BY <1>1, <1>2, <1>3, <1>4, <1>7
<1> QED BY <1>8 DEF r

------------------------------------------------------------------------------
\* The tick in progress

\* Outside a tick no elapsed time is left: every step keeps it so.
LEMMA TickInProgressStep ==
  ASSUME IndInv, IdleIsQuiet, TickInProgress, [Next]_vars
  PROVE  TickInProgress'
<1> USE DEF taskVars, dataVars, machineVars, callVars, runVars, TickInProgress
<1>1. elapsed \in Nat /\ total \in Nat /\ cursor \in Nat /\ charged \in BOOLEAN
  BY EnvironmentAssumption DEF IndInv, TypeOK
<1>2. CASE UNCHANGED <<total, phase, cursor, charged, elapsed>>
  BY <1>2 DEF LengthOf
<1>3. CASE Drain \/ FireEveryTask \/ TickMachine \/ SwitchLeaf \/ DispatchHook \/ StartLifecycleTask
  BY <1>2, <1>3
  DEF Drain, ExecuteStatement, ExecuteWait, StopDrainedTask, FinishBody, FireEveryTask,
      TickMachine, SwitchLeaf, DispatchHook, StartLifecycleTask
<1>4. CASE ResumeWaitingTask \/ StartLoopTask \/ OfferEventToTask \/ BootMachine
  BY <1>4 DEF ResumeWaitingTask, StartLoopTask, OfferEventToTask, BootMachine
<1>5. CASE LeaveEveryTask \/ LeaveMachine
  BY <1>5 DEF LeaveEveryTask, LeaveMachine
<1>6. CASE ChargeEveryTask \/ ChargeMachine
  BY <1>6 DEF ChargeEveryTask, ChargeMachine, LengthOf, AtTask, AtMachine
<1>7. CASE NextPhase
  <2>1. ~charged
    BY <1>1, <1>7, MachinesAssumption, TasksAssumption DEF NextPhase, LengthOf
  <2> QED BY <1>7, <2>1 DEF NextPhase, Following
<1>8. CASE FlushPendingEffects
  BY <1>1, <1>8 DEF FlushPendingEffects
<1>9. CASE External
  <2>1. ASSUME NEW milliseconds \in Nat, NEW queued, BeginTick(milliseconds, queued)
        PROVE  TickInProgress'
    BY <1>1, <2>1 DEF BeginTick
  <2>2. CASE \E name \in Events : DispatchScriptEvent(name)
    BY <2>2 DEF DispatchScriptEvent
  <2>3. CASE \/ \E task \in Commanded : StartTask(task) \/ StopTask(task)
             \/ \E device \in DOMAIN Sensed : \E value \in Sensed[device] : SenseDevice(device, value)
    BY <1>2, <2>3 DEF StartTask, StopTask, SenseDevice
  <2> QED BY <1>9, <2>1, <2>2, <2>3, EnvironmentAssumption DEF External
<1>10. CASE UNCHANGED vars
  BY <1>2, <1>10 DEF vars
<1> QED BY <1>3, <1>4, <1>5, <1>6, <1>7, <1>8, <1>9, <1>10 DEF Next, Internal

\* What a step does to a position of one of the two loops over clocks: nothing,
\* ...
PositionRests(loop, i) ==
  Counted(loop, i)' = Counted(loop, i) /\ (CatchingUp(loop, i) <=> CatchingUp(loop, i)')

\* ... or its turn comes, ...
PositionIsCharged(loop, i) ==
  /\ phase = loop /\ cursor = i
  /\ Counted(loop, i)' = Counted(loop, i) + elapsed
  /\ ~CatchingUp(loop, i) /\ CatchingUp(loop, i)'

\* ... or its turn is over, or passes without its being charged.
PositionIsLeft(loop, i) ==
  /\ phase = loop /\ cursor = i
  /\ charged => Counted(loop, i)' = Counted(loop, i)
  /\ ~CatchingUp(loop, i)'

\* A step leaves place i of a loop as it is, charges it, or moves on from it.
LEMMA StepsOfPositions ==
  ASSUME IndInv, IdleIsQuiet, TickInProgress, [Next]_vars,
         NEW loop \in {"machines", "every"}, NEW i \in 1..LengthOf(loop)
  PROVE  \/ PositionRests(loop, i)
         \/ PositionIsCharged(loop, i) /\ (ChargeMachine \/ ChargeEveryTask)
         \/ PositionIsLeft(loop, i) /\ (LeaveMachine \/ LeaveEveryTask)
<1> USE DEF taskVars, dataVars, machineVars, callVars, runVars
<1>0. /\ elapsed \in Nat /\ total \in Nat /\ cursor \in Nat \ {0} /\ charged \in BOOLEAN
      /\ i \in Nat \ {0} /\ LengthOf(loop) \in Nat
  BY EnvironmentAssumption, MachinesAssumption, TasksAssumption DEF IndInv, TypeOK, LengthOf
<1>1. CASE UNCHANGED <<total, phase, cursor, charged, elapsed>>
  BY <1>1 DEF PositionRests, Counted, Before, CatchingUp
<1>2. CASE Drain \/ FireEveryTask \/ TickMachine \/ SwitchLeaf \/ DispatchHook \/ StartLifecycleTask
  BY <1>1, <1>2
  DEF Drain, ExecuteStatement, ExecuteWait, StopDrainedTask, FinishBody, FireEveryTask,
      TickMachine, SwitchLeaf, DispatchHook, StartLifecycleTask
<1>3. CASE ResumeWaitingTask \/ StartLoopTask \/ OfferEventToTask \/ BootMachine
  BY <1>0, <1>3
  DEF ResumeWaitingTask, StartLoopTask, OfferEventToTask, BootMachine, PositionRests,
      Counted, Before, CatchingUp
<1>4. CASE ChargeMachine \/ ChargeEveryTask
  <2>1. /\ phase \in {"machines", "every"} /\ ~charged /\ charged' = TRUE
        /\ UNCHANGED <<total, elapsed, phase, cursor>>
    BY <1>4 DEF ChargeMachine, ChargeEveryTask
  <2>2. CASE phase = loop /\ cursor = i
    BY <1>0, <1>4, <2>1, <2>2 DEF PositionIsCharged, Counted, Before, CatchingUp
  <2>3. CASE ~(phase = loop /\ cursor = i)
    <3>1. Before(loop, i)' <=> Before(loop, i)
      BY <1>0, <2>1, <2>3 DEF Before
    <3>2. CatchingUp(loop, i)' <=> CatchingUp(loop, i)
      BY <1>0, <2>1, <2>3 DEF CatchingUp
    <3> QED BY <2>1, <3>1, <3>2 DEF PositionRests, Counted
  <2> QED BY <2>2, <2>3
<1>5. CASE LeaveMachine \/ LeaveEveryTask
  <2>1. /\ phase \in {"machines", "every"} /\ charged' = FALSE
        /\ cursor' = cursor + 1 /\ UNCHANGED <<total, elapsed, phase>>
    BY <1>5 DEF LeaveMachine, LeaveEveryTask
  <2>2. CASE phase = loop /\ cursor = i
    BY <1>0, <1>5, <2>1, <2>2 DEF PositionIsLeft, Counted, Before, CatchingUp
  <2>3. CASE ~(phase = loop /\ cursor = i)
    <3>1. Before(loop, i)' <=> Before(loop, i)
      BY <1>0, <2>1, <2>3 DEF Before
    <3>2. CatchingUp(loop, i)' <=> CatchingUp(loop, i)
      BY <1>0, <2>1, <2>3 DEF CatchingUp
    <3> QED BY <2>1, <3>1, <3>2 DEF PositionRests, Counted
  <2> QED BY <2>2, <2>3
<1>6. CASE NextPhase
  BY <1>0, <1>6, MachinesAssumption, TasksAssumption
  DEF NextPhase, Following, LengthOf, TickInProgress, PositionRests, Counted, Before, CatchingUp
<1>7. CASE FlushPendingEffects
  BY <1>7 DEF FlushPendingEffects, PositionRests, Counted, Before, CatchingUp
<1>8. CASE External
  <2>1. ASSUME NEW milliseconds \in Nat, NEW queued, BeginTick(milliseconds, queued)
        PROVE  PositionRests(loop, i)
    BY <1>0, <2>1 DEF BeginTick, TickInProgress, PositionRests, Counted, Before, CatchingUp
  <2>2. CASE \E name \in Events : DispatchScriptEvent(name)
    BY <1>0, <2>2 DEF DispatchScriptEvent, PositionRests, Counted, Before, CatchingUp
  <2>3. CASE \/ \E task \in Commanded : StartTask(task) \/ StopTask(task)
             \/ \E device \in DOMAIN Sensed : \E value \in Sensed[device] : SenseDevice(device, value)
    BY <1>1, <2>3 DEF StartTask, StopTask, SenseDevice
  <2> QED BY <1>8, <2>1, <2>2, <2>3, EnvironmentAssumption DEF External
<1>9. CASE UNCHANGED vars
  BY <1>1, <1>9 DEF vars
<1> QED BY <1>2, <1>3, <1>4, <1>5, <1>6, <1>7, <1>8, <1>9 DEF Next, Internal

------------------------------------------------------------------------------
\* The clocks of the state machines

\* A place rests while the loop's variables do.
LEMMA PositionRestsInACall ==
  ASSUME NEW loop, NEW i, UNCHANGED <<total, phase, cursor, charged, elapsed>>
  PROVE  PositionRests(loop, i)
BY DEF PositionRests, Counted, Before, CatchingUp

\* Every machine has one position.
LEMMA MachineAtPosition ==
  ASSUME IndInv, NEW i \in DOMAIN MachineOrder
  PROVE  /\ MachineOrder[i] \in Machines /\ i \in 1..LengthOf("machines")
         /\ TickIntervalOf[MachineOrder[i]] \in Int
         /\ machineAccumulated[MachineOrder[i]] \in Nat
         /\ cursor <= Len(MachineOrder) => (Machine = MachineOrder[i] <=> cursor = i)
<1>1. DOMAIN MachineOrder = 1..Len(MachineOrder) /\ Len(MachineOrder) \in Nat
  BY MachinesAssumption
<1>2. MachineOrder[i] \in Machines /\ TickIntervalOf[MachineOrder[i]] \in Int
  BY <1>1, MachinesAssumption DEF Machines
<1>3. machineAccumulated[MachineOrder[i]] \in Nat
  BY <1>2 DEF IndInv, TypeOK
<1>4. cursor <= Len(MachineOrder) => cursor \in DOMAIN MachineOrder
  BY <1>1 DEF IndInv, TypeOK
<1>5. cursor \in DOMAIN MachineOrder => (MachineOrder[cursor] = MachineOrder[i] <=> cursor = i)
  BY MachinesAssumption DEF Distinct
<1> QED BY <1>1, <1>2, <1>3, <1>4, <1>5 DEF LengthOf, Machine

\* Every step keeps a machine's accumulator on the multiples of its interval.
LEMMA MachineClockStep ==
  ASSUME IndInv, IdleIsQuiet, TickInProgress, [Next]_vars,
         NEW i \in DOMAIN MachineOrder, MachineClock(i)
  PROVE  MachineClock(i)'
<1> USE DEF taskVars, dataVars, machineVars, callVars, runVars
<1> DEFINE machine == MachineOrder[i]
           interval == TickIntervalOf[machine]
           time == machineAccumulated[machine]
           counted == Counted("machines", i)
           behind == CatchingUp("machines", i)
<1> SUFFICES ASSUME interval > 0
             PROVE  OnSchedule(time, counted, interval)' /\ (behind' \/ time' < interval)
  BY DEF MachineClock
<1>1. /\ OnSchedule(time, counted, interval) /\ (behind \/ time < interval)
      /\ machine \in Machines /\ i \in 1..LengthOf("machines")
      /\ interval \in Nat \ {0} /\ time \in Nat
      /\ cursor <= Len(MachineOrder) => (Machine = machine <=> cursor = i)
  BY MachineAtPosition DEF MachineClock
<1>2. elapsed \in Nat /\ counted \in Int /\ DOMAIN machineAccumulated = Machines
  BY EnvironmentAssumption DEF IndInv, TypeOK, Counted
<1>3. \/ PositionRests("machines", i)
      \/ PositionIsCharged("machines", i) /\ (ChargeMachine \/ ChargeEveryTask)
      \/ PositionIsLeft("machines", i) /\ (LeaveMachine \/ LeaveEveryTask)
  BY <1>1, StepsOfPositions
<1>4. PositionRests("machines", i) => counted' = counted /\ (behind' <=> behind)
  BY DEF PositionRests
<1>5. CASE machineAccumulated' = machineAccumulated /\ PositionRests("machines", i)
  <2>1. time' = time
    BY <1>5
  <2> HIDE DEF time, counted, behind
  <2> QED BY <1>1, <1>4, <1>5, <2>1 DEF OnSchedule
<1>6. CASE ChargeMachine
  <2>1. /\ phase = "machines" /\ ~charged /\ cursor <= Len(MachineOrder) /\ charged' = TRUE
        /\ machineAccumulated' = [machineAccumulated EXCEPT ![Machine] = @ + elapsed]
        /\ UNCHANGED <<phase, cursor>>
    BY <1>6 DEF ChargeMachine, AtMachine
  <2>2. CASE cursor = i
    <3>1. counted' = counted + elapsed /\ behind'
      BY <1>3, <2>1, <2>2 DEF PositionRests, PositionIsCharged, PositionIsLeft, CatchingUp
    <3>2. time' = time + elapsed
      BY <1>1, <1>2, <2>1, <2>2
    <3> HIDE DEF time, counted, behind
    <3>3. OnSchedule(time + elapsed, counted + elapsed, interval)
      BY <1>1, <1>2, TimeIsGiven
    <3> QED BY <3>1, <3>2, <3>3 DEF OnSchedule
  <2>3. CASE cursor # i
    <3>1. PositionRests("machines", i)
      BY <1>3, <2>3 DEF PositionIsCharged, PositionIsLeft
    <3>2. time' = time
      BY <1>1, <1>2, <2>1, <2>3
    <3> HIDE DEF time, counted, behind
    <3> QED BY <1>1, <1>4, <3>1, <3>2 DEF OnSchedule
  <2> QED BY <2>2, <2>3
<1>7. CASE TickMachine
  <2>1. /\ phase = "machines" /\ charged /\ cursor <= Len(MachineOrder)
        /\ machineAccumulated' = [machineAccumulated EXCEPT ![Machine] =
                                    CarryOver(@, TickIntervalOf[Machine])]
        /\ UNCHANGED <<total, phase, cursor, charged, elapsed>>
    BY <1>7 DEF TickMachine, AtMachine
  <2>2. PositionRests("machines", i)
    BY <2>1, PositionRestsInACall
  <2>3. CASE cursor = i
    <3>1. time' = CarryOver(time, interval) /\ behind
      BY <1>1, <1>2, <2>1, <2>3 DEF CatchingUp
    <3> HIDE DEF time, counted, behind
    <3>2. OnSchedule(CarryOver(time, interval), counted, interval)
      BY <1>1, <1>2, AnIntervalIsUsedUp
    <3> QED BY <1>4, <2>2, <3>1, <3>2 DEF OnSchedule
  <2>4. CASE cursor # i
    <3>1. time' = time
      BY <1>1, <1>2, <2>1, <2>4
    <3> HIDE DEF time, counted, behind
    <3> QED BY <1>1, <1>4, <2>2, <3>1 DEF OnSchedule
  <2> QED BY <2>3, <2>4
<1>8. CASE LeaveMachine
  <2>1. /\ phase = "machines" /\ cursor <= Len(MachineOrder)
        /\ IF charged THEN machineAccumulated[Machine] < TickIntervalOf[Machine]
                      ELSE TickIntervalOf[Machine] <= 0
        /\ machineAccumulated' = IF charged THEN machineAccumulated
                                 ELSE [machineAccumulated EXCEPT ![Machine] = 0]
    BY <1>8 DEF LeaveMachine, AtMachine
  <2>2. CASE cursor = i
    <3>1. charged /\ time < interval
      BY <1>1, <2>1, <2>2
    <3>2. counted' = counted
      BY <1>3, <2>1, <2>2, <3>1 DEF PositionRests, PositionIsCharged, PositionIsLeft, CatchingUp
    <3>3. time' = time
      BY <2>1, <3>1
    <3> HIDE DEF time, counted, behind
    <3> QED BY <1>1, <3>1, <3>2, <3>3 DEF OnSchedule
  <2>3. CASE cursor # i
    <3>1. PositionRests("machines", i)
      BY <1>3, <2>3 DEF PositionIsCharged, PositionIsLeft
    <3>2. time' = time
      BY <1>1, <1>2, <2>1, <2>3
    <3> HIDE DEF time, counted, behind
    <3> QED BY <1>1, <1>4, <3>1, <3>2 DEF OnSchedule
  <2> QED BY <2>2, <2>3
<1>9. CASE machineAccumulated' = machineAccumulated /\ ~ChargeMachine /\ ~LeaveMachine
  <2>1. PositionRests("machines", i)
    BY <1>3, <1>9
    DEF PositionIsCharged, PositionIsLeft, ChargeEveryTask, LeaveEveryTask
  <2> QED BY <1>5, <1>9, <2>1
<1>10. CASE \/ Drain \/ ResumeWaitingTask \/ ChargeEveryTask \/ FireEveryTask \/ LeaveEveryTask
            \/ StartLoopTask \/ OfferEventToTask \/ SwitchLeaf \/ DispatchHook
            \/ StartLifecycleTask \/ BootMachine \/ NextPhase \/ FlushPendingEffects
  <2>1. machineAccumulated' = machineAccumulated
    BY <1>10
    DEF Drain, ExecuteStatement, ExecuteWait, StopDrainedTask, FinishBody, ResumeWaitingTask,
        ChargeEveryTask, FireEveryTask, LeaveEveryTask, StartLoopTask, OfferEventToTask,
        SwitchLeaf, DispatchHook, StartLifecycleTask, BootMachine, NextPhase,
        FlushPendingEffects
  <2> QED BY <1>6, <1>8, <1>9, <2>1
<1>11. CASE External \/ UNCHANGED vars
  <2>1. machineAccumulated' = machineAccumulated
    BY <1>11
    DEF External, BeginTick, DispatchScriptEvent, StartTask, StopTask, SenseDevice, vars
  <2> QED BY <1>6, <1>8, <1>9, <2>1
<1> QED BY <1>6, <1>7, <1>8, <1>10, <1>11 DEF Next, Internal

------------------------------------------------------------------------------
\* The clocks of the every tasks

\* Every task has one position.
LEMMA TaskAtPosition ==
  ASSUME IndInv, NEW i \in DOMAIN TaskOrder
  PROVE  /\ TaskOrder[i] \in Tasks /\ i \in 1..LengthOf("every")
         /\ IntervalOf[TaskOrder[i]] \in Nat
         /\ RunMode[TaskOrder[i]] = "every" => IntervalOf[TaskOrder[i]] > 0
         /\ accumulated[TaskOrder[i]] \in Nat
         /\ cursor <= Len(TaskOrder) => (Current = TaskOrder[i] <=> cursor = i)
<1>1. DOMAIN TaskOrder = 1..Len(TaskOrder) /\ Len(TaskOrder) \in Nat
  BY TasksAssumption
<1>2. /\ TaskOrder[i] \in Tasks /\ IntervalOf[TaskOrder[i]] \in Nat
      /\ RunMode[TaskOrder[i]] = "every" => IntervalOf[TaskOrder[i]] > 0
  BY <1>1, TasksAssumption DEF Tasks
<1>3. accumulated[TaskOrder[i]] \in Nat
  BY <1>2 DEF IndInv, TypeOK
<1>4. cursor <= Len(TaskOrder) => cursor \in DOMAIN TaskOrder
  BY <1>1 DEF IndInv, TypeOK
<1>5. cursor \in DOMAIN TaskOrder => (TaskOrder[cursor] = TaskOrder[i] <=> cursor = i)
  BY TasksAssumption DEF Distinct
<1> QED BY <1>1, <1>2, <1>3, <1>4, <1>5 DEF LengthOf, Current

\* The same for an every task.
LEMMA TaskClockStep ==
  ASSUME IndInv, IdleIsQuiet, TickInProgress, [Next]_vars,
         NEW i \in DOMAIN TaskOrder, TaskClock(i)
  PROVE  TaskClock(i)'
<1> USE DEF taskVars, dataVars, machineVars, callVars, runVars
<1> DEFINE task == TaskOrder[i]
           interval == IntervalOf[task]
           time == accumulated[task]
           counted == Counted("every", i)
           behind == CatchingUp("every", i)
           free == task \notin Commanded
<1> SUFFICES ASSUME RunMode[task] = "every", running'[task]
             PROVE  (behind' \/ time' < interval) /\ (free => OnSchedule(time, counted, interval)')
  BY DEF TaskClock
<1>1. /\ task \in Tasks /\ i \in 1..LengthOf("every")
      /\ interval \in Nat \ {0} /\ time \in Nat
      /\ cursor <= Len(TaskOrder) => (Current = task <=> cursor = i)
  BY TaskAtPosition
<1>2. elapsed \in Nat /\ counted \in Int /\ DOMAIN accumulated = Tasks /\ DOMAIN running = Tasks
  BY EnvironmentAssumption DEF IndInv, TypeOK, Counted
<1>3. \/ PositionRests("every", i)
      \/ PositionIsCharged("every", i) /\ (ChargeMachine \/ ChargeEveryTask)
      \/ PositionIsLeft("every", i) /\ (LeaveMachine \/ LeaveEveryTask)
  BY <1>1, StepsOfPositions
<1>4. PositionRests("every", i) => counted' = counted /\ (behind' <=> behind)
  BY DEF PositionRests
<1>5. running[task] =>
        (behind \/ time < interval) /\ (free => OnSchedule(time, counted, interval))
  BY DEF TaskClock
<1>6. CASE time' = time /\ running[task] /\ PositionRests("every", i)
  <2> HIDE DEF time, counted, behind
  <2> QED BY <1>4, <1>5, <1>6 DEF OnSchedule
<1>7. CASE ChargeEveryTask
  <2>1. /\ phase = "every" /\ ~charged /\ cursor <= Len(TaskOrder) /\ charged' = TRUE
        /\ accumulated' = [accumulated EXCEPT ![Current] = @ + elapsed]
        /\ running' = running /\ UNCHANGED <<phase, cursor>>
    BY <1>7 DEF ChargeEveryTask, AtTask
  <2>2. CASE cursor = i
    <3>1. counted' = counted + elapsed /\ behind'
      BY <1>3, <2>1, <2>2 DEF PositionRests, PositionIsCharged, PositionIsLeft, CatchingUp
    <3>2. time' = time + elapsed
      BY <1>1, <1>2, <2>1, <2>2
    <3>3. free => OnSchedule(time, counted, interval)
      BY <1>5, <2>1
    <3> HIDE DEF time, counted, behind
    <3>4. OnSchedule(time, counted, interval) => OnSchedule(time + elapsed, counted + elapsed, interval)
      BY <1>1, <1>2, TimeIsGiven
    <3> QED BY <3>1, <3>2, <3>3, <3>4 DEF OnSchedule
  <2>3. CASE cursor # i
    <3>1. PositionRests("every", i)
      BY <1>3, <2>3 DEF PositionIsCharged, PositionIsLeft
    <3>2. time' = time
      BY <1>1, <1>2, <2>1, <2>3
    <3> QED BY <1>6, <2>1, <3>1, <3>2
  <2> QED BY <2>2, <2>3
<1>8. CASE FireEveryTask
  <2>1. /\ phase = "every" /\ charged /\ cursor <= Len(TaskOrder)
        /\ accumulated' = [accumulated EXCEPT ![Current] = CarryOver(@, IntervalOf[Current])]
        /\ running' = running /\ UNCHANGED <<total, phase, cursor, charged, elapsed>>
    BY <1>8 DEF FireEveryTask, AtTask
  <2>2. PositionRests("every", i)
    BY <2>1, PositionRestsInACall
  <2>3. CASE cursor = i
    <3>1. time' = CarryOver(time, interval) /\ behind
      BY <1>1, <1>2, <2>1, <2>3 DEF CatchingUp
    <3>2. free => OnSchedule(time, counted, interval)
      BY <1>5, <2>1
    <3> HIDE DEF time, counted, behind
    <3>3. OnSchedule(time, counted, interval) => OnSchedule(CarryOver(time, interval), counted, interval)
      BY <1>1, <1>2, AnIntervalIsUsedUp
    <3> QED BY <1>4, <2>2, <3>1, <3>2, <3>3 DEF OnSchedule
  <2>4. CASE cursor # i
    <3>1. time' = time
      BY <1>1, <1>2, <2>1, <2>4
    <3> QED BY <1>6, <2>1, <2>2, <3>1
  <2> QED BY <2>3, <2>4
<1>9. CASE LeaveEveryTask
  <2>1. /\ phase = "every" /\ cursor <= Len(TaskOrder)
        /\ IF charged THEN accumulated[Current] < IntervalOf[Current]
                      ELSE ~(running[Current] /\ RunMode[Current] = "every" /\ IntervalOf[Current] > 0)
        /\ UNCHANGED <<accumulated, running>>
    BY <1>9 DEF LeaveEveryTask, AtTask
  <2>2. CASE cursor = i
    <3>1. charged /\ time < interval
      BY <1>1, <2>1, <2>2
    <3>2. counted' = counted
      BY <1>3, <2>1, <2>2, <3>1 DEF PositionRests, PositionIsCharged, PositionIsLeft, CatchingUp
    <3>3. time' = time /\ running[task]
      BY <2>1
    <3> HIDE DEF time, counted, behind
    <3> QED BY <1>5, <3>1, <3>2, <3>3 DEF OnSchedule
  <2>3. CASE cursor # i
    <3>1. PositionRests("every", i)
      BY <1>3, <2>3 DEF PositionIsCharged, PositionIsLeft
    <3> QED BY <1>6, <2>1, <3>1
  <2> QED BY <2>2, <2>3
<1>10. ASSUME NEW started \in Commanded, StartTask(started)
       PROVE  (behind' \/ time' < interval) /\ (free => OnSchedule(time, counted, interval)')
  <2>1. /\ phase = "idle" /\ accumulated' = [accumulated EXCEPT ![started] = 0]
        /\ running' = [running EXCEPT ![started] = TRUE]
        /\ UNCHANGED <<total, phase, cursor, charged, elapsed>>
    BY <1>10 DEF StartTask
  <2>2. PositionRests("every", i)
    BY <2>1, PositionRestsInACall
  <2>3. CASE task = started
    <3>1. time' = 0 /\ ~free
      BY <1>1, <1>2, <2>1, <2>3
    <3> HIDE DEF time
    <3> QED BY <1>1, <3>1
  <2>4. CASE task # started
    <3>1. time' = time /\ running[task]
      BY <1>1, <1>2, <2>1, <2>4
    <3> QED BY <1>6, <2>2, <3>1
  <2> QED BY <2>3, <2>4
<1>11. CASE accumulated' = accumulated /\ running[task] /\ ~ChargeEveryTask /\ ~LeaveEveryTask
  <2>1. PositionRests("every", i)
    BY <1>3, <1>11
    DEF PositionIsCharged, PositionIsLeft, ChargeMachine, LeaveMachine
  <2> QED BY <1>6, <1>11, <2>1
<1>12. CASE \/ Drain \/ ResumeWaitingTask \/ ChargeMachine \/ LeaveMachine \/ TickMachine
            \/ StartLoopTask \/ OfferEventToTask \/ SwitchLeaf \/ DispatchHook
            \/ StartLifecycleTask \/ BootMachine \/ NextPhase \/ FlushPendingEffects
  <2>1. accumulated' = accumulated
    BY <1>12
    DEF Drain, ExecuteStatement, ExecuteWait, StopDrainedTask, FinishBody, ResumeWaitingTask,
        ChargeMachine, LeaveMachine, TickMachine, StartLoopTask, OfferEventToTask,
        SwitchLeaf, DispatchHook, StartLifecycleTask, BootMachine, NextPhase,
        FlushPendingEffects
  <2>2. running' = running \/ running' = [running EXCEPT ![draining] = FALSE]
    BY <1>12
    DEF Drain, ExecuteStatement, ExecuteWait, StopDrainedTask, FinishBody, ResumeWaitingTask,
        ChargeMachine, LeaveMachine, TickMachine, StartLoopTask, OfferEventToTask,
        SwitchLeaf, DispatchHook, StartLifecycleTask, BootMachine, NextPhase,
        FlushPendingEffects
  <2>3. running[task]
    BY <1>1, <1>2, <2>2
  <2> QED BY <1>7, <1>9, <1>11, <2>1, <2>3
<1>13. CASE External \/ UNCHANGED vars
  <2>1. CASE \E started \in Commanded : StartTask(started)
    BY <1>10, <2>1
  <2>2. CASE ~\E started \in Commanded : StartTask(started)
    <3>1. /\ accumulated' = accumulated
          /\ \/ running' = running
             \/ \E stopped \in Commanded : running' = [running EXCEPT ![stopped] = FALSE]
      BY <1>13, <2>2
      DEF External, BeginTick, DispatchScriptEvent, StopTask, SenseDevice, vars
    <3>2. running[task]
      BY <1>1, <1>2, <3>1
    <3> QED BY <1>7, <1>9, <1>11, <3>1, <3>2
  <2> QED BY <2>1, <2>2
<1> QED BY <1>7, <1>8, <1>9, <1>12, <1>13 DEF Next, Internal

------------------------------------------------------------------------------
\* The theorem

\* All accumulators start at zero.
LEMMA ClockInvariantInit == Init => ClockInvariant
<1> SUFFICES ASSUME Init PROVE ClockInvariant
  OBVIOUS
<1>1. /\ total = 0 /\ elapsed = 0 /\ phase = "boot"
      /\ accumulated = [task \in Tasks |-> 0]
      /\ machineAccumulated = [machine \in Machines |-> 0]
  BY DEF Init
<1>2. charged = FALSE
  BY Zenon DEF Init
<1>3. TickInProgress
  BY <1>1, <1>2 DEF TickInProgress
<1>4. \A loop \in {"machines", "every"} : \A i : Counted(loop, i) = 0
  BY <1>1 DEF Counted
<1>5. \A interval \in Int : OnSchedule(0, 0, interval)
  <2>1. \A interval \in Int : 0 = 0 + 0 * interval
    OBVIOUS
  <2> QED BY <2>1 DEF OnSchedule
<1>6. IndInv
  BY InitInvariant
<1>7. ASSUME NEW i \in DOMAIN MachineOrder
      PROVE  MachineClock(i)
  <2>1. /\ MachineOrder[i] \in Machines /\ TickIntervalOf[MachineOrder[i]] \in Int
        /\ Counted("machines", i) = 0
    BY <1>4, <1>6, MachineAtPosition
  <2> QED BY <1>1, <1>5, <2>1 DEF MachineClock
<1>8. ASSUME NEW i \in DOMAIN TaskOrder
      PROVE  TaskClock(i)
  <2>1. /\ TaskOrder[i] \in Tasks /\ IntervalOf[TaskOrder[i]] \in Nat
        /\ RunMode[TaskOrder[i]] = "every" => IntervalOf[TaskOrder[i]] > 0
        /\ Counted("every", i) = 0
    BY <1>4, <1>6, TaskAtPosition
  <2> QED BY <1>1, <1>5, <2>1 DEF TaskClock
<1> QED BY <1>3, <1>7, <1>8 DEF ClockInvariant

\* Every step keeps the clocks.
LEMMA ClockInvariantStep ==
  IndInv /\ IdleIsQuiet /\ ClockInvariant /\ [Next]_vars => ClockInvariant'
<1> SUFFICES ASSUME IndInv, IdleIsQuiet, ClockInvariant, [Next]_vars
             PROVE  ClockInvariant'
  OBVIOUS
<1>1. TickInProgress'
  BY TickInProgressStep DEF ClockInvariant
<1>2. \A i \in DOMAIN MachineOrder : MachineClock(i)'
  BY MachineClockStep DEF ClockInvariant
<1>3. \A i \in DOMAIN TaskOrder : TaskClock(i)'
  BY TaskClockStep DEF ClockInvariant
<1> QED BY <1>1, <1>2, <1>3 DEF ClockInvariant

\* So does a call of tick that is as long as it likes.
LEMMA TickBeginsOnSchedule ==
  ASSUME IndInv, ClockInvariant, NEW milliseconds \in Nat, NEW queued,
         BeginTick(milliseconds, queued)
  PROVE  ClockInvariant'
<1> USE DEF taskVars, dataVars, machineVars, callVars, runVars
<1>1. total \in Nat /\ cursor \in Nat /\ charged \in BOOLEAN
  BY EnvironmentAssumption DEF IndInv, TypeOK
<1>2. /\ phase = "idle" /\ total' = total + milliseconds /\ elapsed' = milliseconds
      /\ phase' = "resume" /\ UNCHANGED <<accumulated, machineAccumulated, running, charged>>
  BY DEF BeginTick
<1>3. TickInProgress'
  BY <1>1, <1>2 DEF ClockInvariant, TickInProgress
<1>4. ASSUME NEW loop \in {"machines", "every"}, NEW i
      PROVE  Counted(loop, i)' = Counted(loop, i) /\ (CatchingUp(loop, i)' <=> CatchingUp(loop, i))
  BY <1>1, <1>2 DEF Counted, Before, CatchingUp
<1>5. \A i \in DOMAIN MachineOrder : MachineClock(i)'
  BY <1>2, <1>4 DEF ClockInvariant, MachineClock, OnSchedule
<1>6. \A i \in DOMAIN TaskOrder : TaskClock(i)'
  BY <1>2, <1>4 DEF ClockInvariant, TaskClock, OnSchedule
<1> QED BY <1>3, <1>5, <1>6 DEF ClockInvariant

\* Outside a tick all positions have been given all of the time.
LEMMA OnScheduleWhenIdle == IndInv /\ ClockInvariant => SchedulesDoNotDrift
<1> SUFFICES ASSUME IndInv, ClockInvariant, phase = "idle"
             PROVE  /\ \A machine \in Machines : TickIntervalOf[machine] > 0 =>
                         machineAccumulated[machine] = total % TickIntervalOf[machine]
                    /\ \A task \in Tasks : (RunMode[task] = "every" /\ running[task]) =>
                         /\ accumulated[task] < IntervalOf[task]
                         /\ task \notin Commanded => accumulated[task] = total % IntervalOf[task]
  BY DEF SchedulesDoNotDrift
<1>1. total \in Nat
  BY EnvironmentAssumption DEF IndInv, TypeOK
<1>2. \A loop \in {"machines", "every"} : \A i : Counted(loop, i) = total /\ ~CatchingUp(loop, i)
  BY DEF Counted, Before, CatchingUp
<1>3. ASSUME NEW machine \in Machines, TickIntervalOf[machine] > 0
      PROVE  machineAccumulated[machine] = total % TickIntervalOf[machine]
  <2>1. PICK i \in DOMAIN MachineOrder : machine = MachineOrder[i]
    BY MachinesAssumption DEF Machines
  <2>2. /\ TickIntervalOf[machine] \in Nat \ {0} /\ machineAccumulated[machine] \in Nat
        /\ machineAccumulated[machine] < TickIntervalOf[machine]
        /\ OnSchedule(machineAccumulated[machine], total, TickIntervalOf[machine])
    BY <1>2, <1>3, <2>1, MachineAtPosition DEF ClockInvariant, MachineClock
  <2> QED BY <1>1, <2>2, CaughtUp
<1>4. ASSUME NEW task \in Tasks, RunMode[task] = "every", running[task]
      PROVE  /\ accumulated[task] < IntervalOf[task]
             /\ task \notin Commanded => accumulated[task] = total % IntervalOf[task]
  <2>1. PICK i \in DOMAIN TaskOrder : task = TaskOrder[i]
    BY TasksAssumption DEF Tasks
  <2>2. /\ IntervalOf[task] \in Nat \ {0} /\ accumulated[task] \in Nat
        /\ accumulated[task] < IntervalOf[task]
        /\ task \notin Commanded => OnSchedule(accumulated[task], total, IntervalOf[task])
    BY <1>2, <1>4, <2>1, TaskAtPosition DEF ClockInvariant, TaskClock
  <2> QED BY <1>1, <2>2, CaughtUp
<1> QED BY <1>3, <1>4

\* Between two calls the accumulator of a machine, and of an every task that is
\* never restarted, is the remainder of the simulated time: no tick is lost,
\* doubled or moved by the way time is cut into calls, by skipped runs, by
\* transitions or by waits.
THEOREM TicksStayOnTheirMultiples == Spec => []SchedulesDoNotDrift
<1>1. IndInv /\ ClockInvariant => SchedulesDoNotDrift
  BY OnScheduleWhenIdle
<1>2. Init => IdleIsQuiet
  BY DEF Init, IdleIsQuiet
<1>3. Spec => []ClockInvariant
  BY <1>2, ClockInvariantInit, ClockInvariantStep, IdleIsQuietStep, Invariant, PTL DEF Spec
<1> QED BY <1>1, <1>3, Invariant, PTL

------------------------------------------------------------------------------
(* Leaf transitions.  The invariant says what remains of one in progress. *)

Active(path) == path \in PrefixSet(activeLeaf[path[1]])

\* The leaf was switched, or the program is booting: what remains is to enter
\* the innermost states of the machine's leaf, whose clocks were just set.
Enters(machine) ==
  LET leaf == activeLeaf[machine]
  IN  /\ Len(plan) <= Len(leaf)
      /\ \A i \in 1..Len(plan) :
           /\ plan[i].hook = "enter" /\ plan[i].path = Ancestor(leaf, Len(leaf) - Len(plan) + i)
           /\ entryTime[plan[i].path] = total

\* The leaf is switched at step `at`: before it, states of the old leaf are
\* left, and after it those of the new leaf are entered, all but the shared.
Leads(steps, old, new, shared, at) ==
  /\ at \in 1..Len(steps) /\ Len(steps) - at = Len(new) - shared
  /\ \A i \in 1..(at - 1) :
       steps[i].hook = "exit" /\ steps[i].path = Ancestor(old, shared + at - i)
  /\ steps[at].hook = "switch" /\ steps[at].path = new
  /\ \A i \in 1..(Len(steps) - at) :
       steps[at + i].hook = "enter" /\ steps[at + i].path = Ancestor(new, shared + i)

Switches(machine, new, at) ==
  LET old == activeLeaf[machine]
      shared == CommonLength(old, new)
  IN  /\ new \in LeavesOf(machine) /\ shared + at - 1 <= Len(old)
      /\ Leads(plan, old, new, shared, at)

PlanInvariant ==
  \/ plan = << >>
  \/ \E machine \in Machines : Enters(machine)
  \/ \E machine \in Machines : \E new \in Leaves : \E at \in Nat : Switches(machine, new, at)

TransitionInvariant ==
  /\ \A machine \in Machines : activeLeaf[machine] \in LeavesOf(machine)
  /\ phase = "boot" => total = 0
  /\ phase = "every" /\ charged => RunMode[Current] = "every"
  /\ PlanInvariant
  /\ \A position \in hookTasks :
       /\ Active(Membership[TaskOrder[position]])
       /\ Trigger[TaskOrder[position]] = "state_enter" =>
            entryTime[Membership[TaskOrder[position]]] = total
  /\ EnterTasksReadZeroElapsed
  /\ EnclosingStatesAreOlder

------------------------------------------------------------------------------
\* Paths

\* An ancestor is the beginning of its path.
LEMMA AncestorPath ==
  ASSUME NEW path \in Seq(STRING), NEW n \in 1..Len(path)
  PROVE  /\ Ancestor(path, n) \in Seq(STRING) /\ Len(Ancestor(path, n)) = n
         /\ Ancestor(path, n)[1] = path[1]
         /\ \A i \in 1..n : Ancestor(path, n)[i] = path[i]
BY DEF Ancestor

\* A leaf of a machine and the states it lies in.
LEMMA LeafPath ==
  ASSUME NEW machine, NEW leaf \in LeavesOf(machine)
  PROVE  /\ leaf \in Leaves /\ leaf \in Seq(STRING) /\ Len(leaf) \in Nat \ {0}
         /\ leaf[1] = machine
         /\ \A n \in 1..Len(leaf) :
              /\ Ancestor(leaf, n) \in Paths /\ Ancestor(leaf, n)[1] = machine
              /\ Ancestor(leaf, n) \in PrefixSet(leaf)
<1>1. leaf \in Leaves /\ leaf[1] = machine
  BY DEF LeavesOf
<1>2. leaf \in Nodes
  BY <1>1 DEF Leaves
<1>3. leaf \in Seq(STRING) /\ leaf # << >>
  BY <1>2, MachinesAssumption DEF NoPath
<1>4. PrefixSet(leaf) \subseteq Paths
  BY <1>2, PrefixesArePaths
<1>5. ASSUME NEW n \in 1..Len(leaf)
      PROVE  Ancestor(leaf, n)[1] = machine
  <2>1. Ancestor(leaf, n)[1] = leaf[1]
    BY <1>3, AncestorPath
  <2> QED BY <1>1, <2>1
<1>6. \A n \in 1..Len(leaf) : Ancestor(leaf, n) \in PrefixSet(leaf)
  BY DEF PrefixSet
<1> QED BY <1>1, <1>3, <1>4, <1>5, <1>6

\* A state two leaves lie in is one of their shared states.
LEMMA SharedState ==
  ASSUME NEW old \in Seq(STRING), NEW new \in Seq(STRING),
         NEW n \in 1..Len(old), NEW k \in 1..Len(new), Ancestor(old, n) = Ancestor(new, k)
  PROVE  n = k /\ n <= CommonLength(old, new)
<1>1. n = k
  BY AncestorPath
<1>2. \A i \in 1..n : old[i] = new[i]
  <2>1. \A i \in 1..n : Ancestor(old, n)[i] = old[i]
    BY AncestorPath
  <2>2. \A i \in 1..n : Ancestor(new, n)[i] = new[i]
    BY <1>1, AncestorPath
  <2>3. Ancestor(old, n) = Ancestor(new, n)
    BY <1>1
  <2> QED BY <2>1, <2>2, <2>3
<1>3. n \in SharedLengths(old, new)
  BY <1>1, <1>2 DEF SharedLengths
<1> QED BY <1>1, <1>3, CommonLengthIsGreatest

\* The shared states of two leaves are the same states.
LEMMA SharedAncestors ==
  ASSUME NEW old \in Seq(STRING), NEW new \in Seq(STRING), NEW n \in 1..CommonLength(old, new)
  PROVE  Ancestor(old, n) = Ancestor(new, n)
<1>1. /\ CommonLength(old, new) \in SharedLengths(old, new)
      /\ CommonLength(old, new) \in 0..Len(old) /\ CommonLength(old, new) \in 0..Len(new)
  BY CommonLengthIsGreatest, CommonLengthBounds
<1>2. \A i \in 1..n : old[i] = new[i]
  BY <1>1 DEF SharedLengths
<1>3. n \in 1..Len(old) /\ n \in 1..Len(new)
  BY <1>1
<1> QED BY <1>2, <1>3 DEF Ancestor

\* Where the elements of a concatenation come from.
LEMMA Concatenation ==
  ASSUME NEW S, NEW s \in Seq(S), NEW t \in Seq(S)
  PROVE  /\ s \o t \in Seq(S) /\ Len(s \o t) = Len(s) + Len(t)
         /\ Len(s) \in Nat /\ Len(t) \in Nat
         /\ \A i \in 1..Len(s) : (s \o t)[i] = s[i]
         /\ \A i \in 1..Len(t) : (s \o t)[Len(s) + i] = t[i]
OBVIOUS

\* The steps of a leaf transition.
LEMMA TransitionPlanSteps ==
  ASSUME NEW old \in Leaves, NEW new \in Leaves
  PROVE  Leads(TransitionPlan(old, new), old, new, CommonLength(old, new),
               Len(old) - CommonLength(old, new) + 1)
<1> SUFFICES ASSUME NEW shared, shared = CommonLength(old, new),
                    NEW steps, steps = TransitionPlan(old, new),
                    NEW at, at = Len(old) - shared + 1
             PROVE  Leads(steps, old, new, shared, at)
  OBVIOUS
<1>1. /\ old \in Seq(STRING) /\ PrefixSet(old) \subseteq Paths
      /\ new \in Seq(STRING) /\ PrefixSet(new) \subseteq Paths
  BY PrefixesArePaths DEF Leaves
<1>2. shared \in 0..Len(old) /\ shared \in 0..Len(new) /\ Len(old) \in Nat /\ Len(new) \in Nat
  BY <1>1, CommonLengthBounds
<1> DEFINE exits == Hooks("exit", ExitPaths(old, new))
           switch == << [hook |-> "switch", path |-> new] >>
           enters == Hooks("enter", EnterPaths(old, new))
<1>3. /\ exits \in Seq(PlanSteps) /\ Len(exits) = at - 1
      /\ \A i \in 1..(at - 1) :
           exits[i].hook = "exit" /\ exits[i].path = Ancestor(old, shared + at - i)
  <2>1. ExitPaths(old, new) \in Seq(Paths)
    BY <1>1, ExitPathsType
  <2>2. exits \in Seq(PlanSteps)
    BY <2>1, HooksType
  <2>3. Len(ExitPaths(old, new)) = at - 1
    BY <1>2 DEF ExitPaths
  <2>4. \A i \in 1..(at - 1) : ExitPaths(old, new)[i] = Ancestor(old, Len(old) - i + 1)
    BY <1>2 DEF ExitPaths
  <2>5. Len(exits) = at - 1
    BY <1>2, <2>3 DEF Hooks
  <2>6. \A i \in 1..(at - 1) : exits[i] = [hook |-> "exit", path |-> ExitPaths(old, new)[i]]
    BY <2>3 DEF Hooks
  <2>7. \A i \in 1..(at - 1) : Len(old) - i + 1 = shared + at - i
    BY <1>2
  <2> HIDE DEF exits
  <2> QED BY <2>2, <2>4, <2>5, <2>6, <2>7
<1>4. /\ enters \in Seq(PlanSteps) /\ Len(enters) = Len(new) - shared
      /\ \A i \in 1..(Len(new) - shared) :
           enters[i].hook = "enter" /\ enters[i].path = Ancestor(new, shared + i)
  <2>1. EnterPaths(old, new) \in Seq(Paths)
    BY <1>1, EnterPathsType
  <2>2. enters \in Seq(PlanSteps)
    BY <2>1, HooksType
  <2>3. Len(EnterPaths(old, new)) = Len(new) - shared
    BY <1>2 DEF EnterPaths
  <2>4. \A i \in 1..(Len(new) - shared) : EnterPaths(old, new)[i] = Ancestor(new, shared + i)
    BY <1>2 DEF EnterPaths
  <2>5. Len(enters) = Len(new) - shared
    BY <1>2, <2>3 DEF Hooks
  <2>6. \A i \in 1..(Len(new) - shared) : enters[i] = [hook |-> "enter", path |-> EnterPaths(old, new)[i]]
    BY <2>3 DEF Hooks
  <2> HIDE DEF enters
  <2> QED BY <2>2, <2>4, <2>5, <2>6
<1>5. /\ switch \in Seq(PlanSteps) /\ Len(switch) = 1
      /\ switch[1].hook = "switch" /\ switch[1].path = new
  <2>1. [hook |-> "switch", path |-> new] \in PlanSteps
    BY DEF PlanSteps
  <2> QED BY <2>1
<1>6. steps = (exits \o switch) \o enters
  BY DEF TransitionPlan
<1> HIDE DEF exits, switch, enters
<1> DEFINE front == exits \o switch
<1>7. at \in Nat \ {0} /\ at - 1 \in Nat /\ (at - 1) + 1 = at
  BY <1>2
<1>8. /\ front \in Seq(PlanSteps) /\ Len(front) = at
      /\ \A i \in 1..(at - 1) : front[i] = exits[i]
      /\ front[at] = switch[1]
  <2>1. /\ front \in Seq(PlanSteps) /\ Len(front) = Len(exits) + Len(switch)
        /\ \A i \in 1..Len(exits) : front[i] = exits[i]
        /\ \A i \in 1..Len(switch) : front[Len(exits) + i] = switch[i]
    <3>1. exits \in Seq(PlanSteps) /\ switch \in Seq(PlanSteps)
      BY <1>3, <1>5
    <3> QED BY <3>1, Concatenation
  <2>2. front[Len(exits) + 1] = switch[1]
    BY <1>5, <2>1
  <2> HIDE DEF front
  <2> QED BY <1>3, <1>5, <1>7, <2>1, <2>2
<1> HIDE DEF front
<1>9. /\ Len(steps) = at + Len(enters)
      /\ \A i \in 1..at : steps[i] = front[i]
      /\ \A i \in 1..Len(enters) : steps[at + i] = enters[i]
  <2>1. /\ Len(front \o enters) = Len(front) + Len(enters)
        /\ \A i \in 1..Len(front) : (front \o enters)[i] = front[i]
        /\ \A i \in 1..Len(enters) : (front \o enters)[Len(front) + i] = enters[i]
    <3>1. front \in Seq(PlanSteps) /\ enters \in Seq(PlanSteps)
      BY <1>4, <1>8
    <3> QED BY <3>1, Concatenation
  <2>2. steps = front \o enters
    BY <1>6 DEF front
  <2> QED BY <1>8, <2>1, <2>2
<1>10. Len(steps) \in Nat /\ at \in 1..Len(steps) /\ Len(steps) - at = Len(new) - shared
  <2>1. Len(enters) \in Nat /\ Len(enters) = Len(new) - shared /\ Len(steps) = at + Len(enters)
    BY <1>2, <1>4, <1>9
  <2> QED BY <1>7, <2>1
<1>11. \A i \in 1..(at - 1) : steps[i] = exits[i]
  <2>1. \A i \in 1..(at - 1) : i \in 1..at
    BY <1>7
  <2> QED BY <1>8, <1>9, <2>1
<1>12. steps[at] = switch[1]
  BY <1>7, <1>8, <1>9
<1>13. \A i \in 1..(Len(steps) - at) : steps[at + i] = enters[i]
  BY <1>4, <1>9, <1>10
<1> QED BY <1>3, <1>4, <1>5, <1>10, <1>11, <1>12, <1>13 DEF Leads

------------------------------------------------------------------------------
\* The invariant: at the start, and where no transition is in progress

\* At the start no transition is planned.
LEMMA TransitionInit == Init => TransitionInvariant
<1> SUFFICES ASSUME Init PROVE TransitionInvariant
  OBVIOUS
<1>1. \A machine \in Machines : activeLeaf[machine] \in LeavesOf(machine)
  BY ResolutionAssumption DEF Init
<1>2. /\ total = 0 /\ plan = << >> /\ hookTasks = {} /\ draining = NoTask
      /\ phase = "boot"
  BY DEF Init
<1>3. EnclosingStatesAreOlder
  <2> SUFFICES ASSUME NEW machine \in Machines, NEW n \in 1..Len(activeLeaf[machine])
               PROVE  /\ entryTime[Ancestor(activeLeaf[machine], n)] = 0
                      /\ n > 1 => entryTime[Ancestor(activeLeaf[machine], n - 1)] = 0
    BY <1>2 DEF EnclosingStatesAreOlder
  <2> DEFINE leaf == activeLeaf[machine]
  <2>1. leaf \in LeavesOf(machine) /\ leaf = InitialLeaf[machine]
    BY <1>1 DEF Init
  <2>2. ASSUME NEW k \in 1..Len(leaf)
        PROVE  entryTime[Ancestor(leaf, k)] = 0
    <3>1. Ancestor(leaf, k) \in Paths /\ Ancestor(leaf, k) \in PrefixSet(InitialLeaf[machine])
      BY <2>1, LeafPath
    <3> HIDE DEF leaf
    <3> QED BY <3>1 DEF Init
  <2>3. Len(leaf) \in Nat
    BY <2>1, LeafPath
  <2> HIDE DEF leaf
  <2>4. n > 1 => n - 1 \in 1..Len(leaf)
    BY <2>3 DEF leaf
  <2> QED BY <2>2, <2>4 DEF leaf
<1> QED BY <1>1, <1>2, <1>3 DEF TransitionInvariant, PlanInvariant, EnterTasksReadZeroElapsed

\* What a step may do while it leaves the transition in progress alone.
LEMMA TransitionRests ==
  ASSUME TransitionInvariant, UNCHANGED <<total, activeLeaf, entryTime, plan, hookTasks>>,
         \/ draining' \in {draining, NoTask}
         \/ Trigger[draining'] # "state_enter",
         phase' = "boot" => phase = "boot",
         phase' = "every" /\ charged' => RunMode[TaskOrder[cursor']] = "every"
  PROVE  TransitionInvariant'
<1>1. PlanInvariant'
  BY DEF TransitionInvariant, PlanInvariant, Enters, Switches, Leads
<1>2. EnterTasksReadZeroElapsed'
  BY DEF TransitionInvariant, EnterTasksReadZeroElapsed, Elapsed
<1>3. EnclosingStatesAreOlder'
  BY DEF TransitionInvariant, EnclosingStatesAreOlder
<1>4. \A position \in hookTasks' :
        /\ Active(Membership[TaskOrder[position]])'
        /\ Trigger[TaskOrder[position]] = "state_enter" =>
             (entryTime[Membership[TaskOrder[position]]] = total)'
  BY DEF TransitionInvariant, Active
<1> QED BY <1>1, <1>2, <1>3, <1>4 DEF TransitionInvariant, Current

\* Bodies, waits, accumulators, phases and calls that take no time leave it alone.
LEMMA TransitionRestsMostly ==
  ASSUME IndInv, IdleIsQuiet, TickInProgress, TransitionInvariant,
         \/ Drain \/ ResumeWaitingTask
         \/ ChargeEveryTask \/ FireEveryTask \/ LeaveEveryTask
         \/ StartLoopTask \/ OfferEventToTask
         \/ ChargeMachine \/ LeaveMachine
         \/ NextPhase \/ FlushPendingEffects
         \/ (External /\ total' = total)
         \/ UNCHANGED vars
  PROVE  TransitionInvariant'
<1> USE DEF taskVars, dataVars, machineVars, callVars, runVars
<1>0. phase = "every" /\ charged => RunMode[TaskOrder[cursor]] = "every"
  BY DEF TransitionInvariant, Current
<1>1. ASSUME UNCHANGED <<phase, charged, cursor>>
      PROVE  /\ phase' = "boot" => phase = "boot"
             /\ phase' = "every" /\ charged' => RunMode[TaskOrder[cursor']] = "every"
  BY <1>0, <1>1
<1>2. CASE Drain
  BY <1>1, <1>2, TransitionRests
  DEF Drain, ExecuteStatement, ExecuteWait, StopDrainedTask, FinishBody
<1>3. CASE ResumeWaitingTask
  <2>1. Current \in Tasks
    BY <1>3, CursorType DEF IndInv, ResumeWaitingTask
  <2>2. RunMode[Current] # "on_event" => Trigger[Current] # "state_enter"
    BY <2>1, TasksAssumption
  <2> QED BY <1>3, <2>2, TransitionRests DEF ResumeWaitingTask, CanResume, BeginDrain
<1>4. CASE ChargeEveryTask \/ LeaveEveryTask \/ ChargeMachine \/ LeaveMachine
  BY <1>4, TransitionRests
  DEF ChargeEveryTask, LeaveEveryTask, ChargeMachine, LeaveMachine, Current
<1>5. CASE FireEveryTask
  <2>1. Current \in Tasks /\ RunMode[Current] = "every"
    BY <1>0, <1>5, CursorType DEF IndInv, FireEveryTask, Current
  <2>2. Trigger[Current] # "state_enter"
    BY <2>1, TasksAssumption
  <2> QED BY <1>1, <1>5, <2>2, TransitionRests DEF FireEveryTask, BeginDrain
<1>6. CASE StartLoopTask
  <2>1. Current \in Tasks
    BY <1>6, CursorType DEF IndInv, StartLoopTask
  <2>2. RunMode[Current] = "loop" => Trigger[Current] # "state_enter"
    BY <2>1, TasksAssumption
  <2> QED BY <1>6, <2>2, TransitionRests DEF StartLoopTask, CanStartLoop, BeginDrain
<1>7. CASE OfferEventToTask
  BY <1>7, TransitionRests DEF OfferEventToTask, CanBeOffered, BeginDrain
<1>8. CASE NextPhase
  <2>1. phase' \in {"loops", "machines", "every", "flush"}
    BY <1>8 DEF NextPhase, Following
  <2>2. ~charged'
    <3>1. cursor \in Nat /\ Len(MachineOrder) \in Nat /\ Len(TaskOrder) \in Nat
      BY TasksAssumption, MachinesAssumption DEF IndInv, TypeOK
    <3>2. LengthOf(phase) \in Nat
      BY <3>1 DEF LengthOf
    <3>3. ~charged
      BY <1>8, <3>1, <3>2 DEF NextPhase, TickInProgress
    <3> QED BY <1>8, <3>3 DEF NextPhase
  <2> QED BY <1>8, <2>1, <2>2, TransitionRests DEF NextPhase
<1>9. CASE FlushPendingEffects
  BY <1>9, TransitionRests DEF FlushPendingEffects
<1>10. CASE External /\ total' = total
  <2>1. UNCHANGED <<activeLeaf, entryTime, plan, hookTasks, draining>>
    BY <1>10 DEF External, BeginTick, DispatchScriptEvent, StartTask, StopTask, SenseDevice
  <2>2. phase' \in {"resume", "event", "idle"}
    BY <1>10 DEF External, BeginTick, DispatchScriptEvent, StartTask, StopTask, SenseDevice
  <2> QED BY <1>10, <2>1, <2>2, TransitionRests
<1>11. CASE UNCHANGED vars
  BY <1>1, <1>11, TransitionRests DEF vars
<1> QED BY <1>2, <1>3, <1>4, <1>5, <1>6, <1>7, <1>8, <1>9, <1>10, <1>11

\* Time only goes on between two calls, when no transition is in progress.
LEMMA BeginTickTransition ==
  ASSUME IndInv, IdleIsQuiet, TransitionInvariant,
         NEW milliseconds \in Nat, NEW queued, BeginTick(milliseconds, queued)
  PROVE  TransitionInvariant'
<1> USE DEF taskVars, dataVars, machineVars, callVars, runVars
<1>1. /\ total \in Nat /\ total' \in Nat /\ total' >= total
      /\ entryTime \in [Paths -> 0..MaxTime \cup {NeverEntered}]
  BY EnvironmentAssumption DEF IndInv, TypeOK, BeginTick
<1>2. /\ plan' = << >> /\ hookTasks' = {} /\ draining' = NoTask
      /\ phase' = "resume" /\ UNCHANGED <<activeLeaf, entryTime>>
  BY DEF IdleIsQuiet, Quiet, BeginTick
<1>3. EnclosingStatesAreOlder'
  BY <1>1, <1>2 DEF TransitionInvariant, EnclosingStatesAreOlder
<1> QED BY <1>2, <1>3 DEF TransitionInvariant, PlanInvariant, EnterTasksReadZeroElapsed

LEMMA TimeGoesOn ==
  ASSUME IndInv, IdleIsQuiet, TransitionInvariant, External
  PROVE  \/ total' = total
         \/ TransitionInvariant'
<1> USE DEF taskVars, dataVars, machineVars, callVars, runVars
<1> SUFFICES ASSUME total' # total PROVE TransitionInvariant'
  OBVIOUS
<1>1. PICK milliseconds, queued : BeginTick(milliseconds, queued) /\ milliseconds \in Elapses
  <2>1. total \in Nat
    BY EnvironmentAssumption DEF IndInv, TypeOK
  <2>2. \A effect : ~BeginTick(0, <<effect>>)
    BY <2>1 DEF BeginTick
  <2>3. \E milliseconds \in Elapses : BeginTick(milliseconds, << >>)
    BY <2>2 DEF External, DispatchScriptEvent, StartTask, StopTask, SenseDevice
  <2> QED BY <2>3
<1> QED BY <1>1, BeginTickTransition, EnvironmentAssumption

------------------------------------------------------------------------------
\* The steps of a leaf transition

\* A transition of a machine leads to a leaf of that machine.
LEMMA TargetIsOwnLeaf ==
  ASSUME TypeOK, NEW machine \in Machines, activeLeaf[machine] \in LeavesOf(machine),
         NEW taken \in Taken(machine)
  PROVE  TargetLeaf(machine, taken) \in LeavesOf(machine)
<1> DEFINE leaf == activeLeaf[machine]
<1>1. taken \in Firing(machine)
  BY DEF Taken
<1>2. PICK scope \in 0..Len(leaf) :
        \E i \in DOMAIN TransitionsIn(machine, scope) : taken = <<scope, i>>
  <2> DEFINE At(scope) ==
        {<<scope, i>> : i \in {k \in DOMAIN TransitionsIn(machine, scope) :
                                Holds(TransitionsIn(machine, scope)[k].when)}}
  <2>1. PICK scope \in 0..Len(leaf) : taken \in At(scope)
    BY <1>1 DEF Firing
  <2>2. \E i \in DOMAIN TransitionsIn(machine, scope) : taken = <<scope, i>>
    BY <2>1
  <2> QED BY <2>2
<1>3. PICK i \in DOMAIN TransitionsIn(machine, scope) : taken = <<scope, i>>
  BY <1>2
<1> DEFINE target == TransitionsIn(machine, scope)[i].target
<1>4. target \in Nodes /\ target[1] = machine
  <2>1. CASE scope = 0
    <3>1. TransitionsIn(machine, scope) = GlobalTransitions[machine]
      BY <2>1 DEF TransitionsIn
    <3>2. i \in DOMAIN GlobalTransitions[machine]
      BY <3>1
    <3>3. GlobalTransitions[machine][i] \in TransitionRecords
      BY <3>2, MachinesAssumption
    <3> QED BY <3>1, <3>2, <3>3, ResolutionAssumption DEF TransitionRecords
  <2>2. CASE scope # 0
    <3> DEFINE node == Ancestor(leaf, Len(leaf) - scope + 1)
    <3>1. node \in Nodes /\ TransitionsIn(machine, scope) = LocalTransitions[node]
      <4>1. TransitionsIn(machine, scope) = IF node \in Nodes THEN LocalTransitions[node] ELSE << >>
        BY <2>2 DEF TransitionsIn
      <4> HIDE DEF node
      <4> QED BY <4>1
    <3>2. Len(leaf) - scope + 1 \in 1..Len(leaf)
      BY <1>2, <2>2, LeafPath
    <3>3. node[1] = machine
      BY <3>2, LeafPath
    <3> HIDE DEF node
    <3>4. i \in DOMAIN LocalTransitions[node]
      BY <3>1
    <3>5. LocalTransitions[node][i] \in TransitionRecords
      BY <3>1, <3>4, MachinesAssumption
    <3> QED BY <3>1, <3>3, <3>4, <3>5, ResolutionAssumption DEF TransitionRecords
  <2> QED BY <2>1, <2>2
<1>5. TargetLeaf(machine, taken) = ResolveLeaf[target]
  BY <1>3 DEF TargetLeaf
<1> HIDE DEF target
<1> QED BY <1>4, <1>5, ResolutionAssumption

\* The plan of a transition, as the invariant sees it.
LEMMA TransitionIsPlanned ==
  ASSUME NEW machine, NEW old \in LeavesOf(machine), NEW new \in LeavesOf(machine),
         activeLeaf'[machine] = old, plan' = TransitionPlan(old, new)
  PROVE  \E at \in Nat : /\ Switches(machine, new, at)'
                        /\ at = Len(old) - CommonLength(old, new) + 1
<1>1. /\ old \in Leaves /\ new \in Leaves /\ old \in Seq(STRING) /\ new \in Seq(STRING)
      /\ Len(old) \in Nat /\ CommonLength(old, new) \in 0..Len(old)
  BY LeafPath, CommonLengthBounds
<1>2. PICK shared \in 0..Len(old) : shared = CommonLength(old, new)
  BY <1>1
<1>3. PICK at \in Nat : at = Len(old) - shared + 1
  BY <1>1, <1>2
<1>4. Leads(plan', old, new, shared, at)
  BY <1>1, <1>2, <1>3, TransitionPlanSteps
<1>5. shared + at - 1 <= Len(old)
  BY <1>1, <1>2, <1>3
<1>6. Switches(machine, new, at)'
  BY <1>2, <1>4, <1>5 DEF Switches, Leads
<1> QED BY <1>2, <1>3, <1>6

\* A tick plans a transition to a leaf of the machine under the cursor, or none.
LEMMA TickPlans ==
  ASSUME IndInv, TransitionInvariant, TickMachine
  PROVE  \/ plan' = << >>
         \/ \E machine \in Machines : \E old, new \in LeavesOf(machine) : \E at \in Nat :
              /\ old = activeLeaf[machine] /\ Switches(machine, new, at)'
              /\ at = Len(old) - CommonLength(old, new) + 1
<1> SUFFICES ASSUME plan' # << >>
             PROVE  \E machine \in Machines : \E old, new \in LeavesOf(machine) : \E at \in Nat :
                      /\ old = activeLeaf[machine] /\ Switches(machine, new, at)'
                      /\ at = Len(old) - CommonLength(old, new) + 1
  OBVIOUS
<1>1. Machine \in Machines
  BY CursorType DEF IndInv, TickMachine
<1>2. PICK machine \in Machines : machine = Machine
  BY <1>1
<1>3. PICK old \in LeavesOf(machine) : old = activeLeaf[machine]
  BY DEF TransitionInvariant
<1>4. PICK taken \in Taken(Machine) : plan' = TransitionPlan(old, TargetLeaf(Machine, taken))
  BY <1>2, <1>3 DEF TickMachine
<1>5. TargetLeaf(Machine, taken) \in LeavesOf(Machine)
  BY <1>1, <1>2, <1>3, TargetIsOwnLeaf DEF IndInv
<1>6. PICK new \in LeavesOf(machine) : new = TargetLeaf(Machine, taken)
  BY <1>2, <1>5
<1>7. activeLeaf'[machine] = old /\ plan' = TransitionPlan(old, new)
  BY <1>3, <1>4, <1>6 DEF TickMachine
<1>8. \E at \in Nat : Switches(machine, new, at)' /\ at = Len(old) - CommonLength(old, new) + 1
  BY <1>7, TransitionIsPlanned
<1> QED BY <1>3, <1>8

\* Which is what the invariant asks for.
LEMMA TickMachineTransition ==
  ASSUME IndInv, TransitionInvariant, TickMachine
  PROVE  TransitionInvariant'
<1> USE DEF taskVars, dataVars, machineVars, callVars, runVars
<1>1. /\ hookTasks' = {} /\ draining' = NoTask
      /\ UNCHANGED <<total, activeLeaf, entryTime, phase, cursor, charged>>
  BY DEF TickMachine, AtMachine, Quiet
<1>2. PlanInvariant'
  <2>1. \A machine \in Machines : \A new \in LeavesOf(machine) : new \in Leaves
    BY DEF LeavesOf
  <2> QED BY <2>1, TickPlans DEF PlanInvariant
<1>3. EnterTasksReadZeroElapsed'
  BY <1>1 DEF EnterTasksReadZeroElapsed
<1>4. EnclosingStatesAreOlder'
  BY <1>1 DEF TransitionInvariant, EnclosingStatesAreOlder
<1> QED BY <1>1, <1>2, <1>3, <1>4 DEF TransitionInvariant, Current

\* What remains of a plan after its first step.
LEMMA Remainder ==
  ASSUME TypeOK, plan # << >>, plan' = Tail(plan)
  PROVE  /\ Len(plan) \in Nat \ {0} /\ Len(plan') \in Nat /\ Len(plan') = Len(plan) - 1
         /\ \A i \in 1..Len(plan') : plan'[i] = plan[i + 1]
<1>1. plan \in Seq(PlanSteps)
  BY DEF TypeOK
<1>2. Len(plan) \in Nat \ {0}
  BY <1>1
<1>3. plan' \in Seq(PlanSteps) /\ Len(plan') = Len(plan) - 1
  BY <1>1
<1>4. \A i \in 1..(Len(plan) - 1) : plan'[i] = plan[i + 1]
  BY <1>1
<1> QED BY <1>2, <1>3, <1>4

\* While states are entered: the next one is active and was entered just now.
LEMMA NextEntered ==
  ASSUME IndInv, TransitionInvariant, NEW machine \in Machines, Enters(machine),
         plan # << >>, plan' = Tail(plan), UNCHANGED <<activeLeaf, entryTime, total>>
  PROVE  /\ Enters(machine)'
         /\ plan[1].hook = "enter" /\ Active(plan[1].path) /\ entryTime[plan[1].path] = total
<1>1. PICK leaf \in LeavesOf(machine) : leaf = activeLeaf[machine]
  BY DEF TransitionInvariant
<1>2. Len(leaf) \in Nat
  BY <1>1, LeafPath
<1>3. /\ Len(plan) \in Nat \ {0} /\ Len(plan') \in Nat /\ Len(plan') = Len(plan) - 1
      /\ \A i \in 1..Len(plan') : plan'[i] = plan[i + 1]
  BY Remainder DEF IndInv
<1>4. /\ Len(plan) <= Len(leaf)
      /\ \A i \in 1..Len(plan) :
           /\ plan[i].hook = "enter" /\ plan[i].path = Ancestor(leaf, Len(leaf) - Len(plan) + i)
           /\ entryTime[plan[i].path] = total
  BY <1>1 DEF Enters
<1>5. Enters(machine)'
  <2>1. activeLeaf'[machine] = leaf /\ Len(plan') <= Len(leaf)
    BY <1>1, <1>2, <1>3, <1>4
  <2>2. ASSUME NEW i \in 1..Len(plan')
        PROVE  /\ plan'[i].hook = "enter"
               /\ plan'[i].path = Ancestor(leaf, Len(leaf) - Len(plan') + i)
               /\ entryTime'[plan'[i].path] = total'
    <3>1. i + 1 \in 1..Len(plan) /\ Len(leaf) - Len(plan) + (i + 1) = Len(leaf) - Len(plan') + i
      BY <1>2, <1>3
    <3>2. plan'[i] = plan[i + 1]
      BY <1>3
    <3> QED BY <1>4, <3>1, <3>2
  <2> QED BY <2>1, <2>2 DEF Enters
<1>6. plan[1].path = Ancestor(leaf, Len(leaf) - Len(plan) + 1) /\ plan[1].hook = "enter"
      /\ entryTime[plan[1].path] = total
  BY <1>3, <1>4
<1>7. Len(leaf) - Len(plan) + 1 \in 1..Len(leaf)
  BY <1>2, <1>3, <1>4
<1>8. Active(plan[1].path)
  BY <1>1, <1>6, <1>7, LeafPath DEF Active
<1> QED BY <1>5, <1>6, <1>8

\* While states are left: the next one is still active.
LEMMA NextLeft ==
  ASSUME IndInv, TransitionInvariant, NEW machine \in Machines, NEW new, NEW at \in Nat,
         Switches(machine, new, at), plan[1].hook # "switch",
         plan # << >>, plan' = Tail(plan), UNCHANGED activeLeaf
  PROVE  /\ at - 1 \in Nat /\ Switches(machine, new, at - 1)'
         /\ plan[1].hook = "exit" /\ Active(plan[1].path)
<1>1. PICK old \in LeavesOf(machine) : old = activeLeaf[machine]
  BY DEF TransitionInvariant
<1>2. new \in LeavesOf(machine)
  BY DEF Switches
<1>3. PICK shared \in 0..Len(old) : shared = CommonLength(old, new)
  BY <1>1, <1>2, LeafPath, CommonLengthBounds
<1>4. Len(old) \in Nat /\ Len(new) \in Nat
  BY <1>1, <1>2, LeafPath
<1>5. shared + at - 1 <= Len(old) /\ Leads(plan, old, new, shared, at)
  BY <1>1, <1>3 DEF Switches
<1>6. /\ Len(plan) \in Nat \ {0} /\ Len(plan') \in Nat /\ Len(plan') = Len(plan) - 1
      /\ \A i \in 1..Len(plan') : plan'[i] = plan[i + 1]
  BY Remainder DEF IndInv
<1>7. at > 1 /\ at - 1 \in Nat /\ at - 1 >= 1
  BY <1>5 DEF Leads
<1>8. plan[1].hook = "exit" /\ plan[1].path = Ancestor(old, shared + at - 1)
  BY <1>5, <1>7 DEF Leads
<1>9. Active(plan[1].path)
  <2>1. shared + at - 1 \in 1..Len(old)
    BY <1>3, <1>4, <1>5, <1>7
  <2> QED BY <1>1, <1>8, <2>1, LeafPath DEF Active
<1>10. Leads(plan', old, new, shared, at - 1)
  <2>1. at - 1 \in 1..Len(plan') /\ Len(plan') - (at - 1) = Len(new) - shared
    BY <1>3, <1>4, <1>5, <1>6, <1>7 DEF Leads
  <2>2. ASSUME NEW i \in 1..((at - 1) - 1)
        PROVE  plan'[i].hook = "exit" /\ plan'[i].path = Ancestor(old, shared + (at - 1) - i)
    <3>1. i + 1 \in 1..(at - 1) /\ shared + at - (i + 1) = shared + (at - 1) - i
          /\ i \in 1..Len(plan')
      BY <1>3, <1>7, <2>1
    <3>2. plan'[i] = plan[i + 1]
      BY <1>6, <3>1
    <3> QED BY <1>5, <3>1, <3>2 DEF Leads
  <2>3. plan'[at - 1].hook = "switch" /\ plan'[at - 1].path = new
    <3>1. plan'[at - 1] = plan[(at - 1) + 1] /\ (at - 1) + 1 = at
      BY <1>6, <1>7, <2>1
    <3>2. plan'[at - 1] = plan[at]
      BY <3>1
    <3> QED BY <1>5, <3>2 DEF Leads
  <2>4. ASSUME NEW i \in 1..(Len(plan') - (at - 1))
        PROVE  /\ plan'[(at - 1) + i].hook = "enter"
               /\ plan'[(at - 1) + i].path = Ancestor(new, shared + i)
    <3>1. i \in 1..(Len(plan) - at) /\ (at - 1) + i \in 1..Len(plan') /\ ((at - 1) + i) + 1 = at + i
      BY <1>6, <1>7
    <3>2. plan'[(at - 1) + i] = plan[((at - 1) + i) + 1]
      BY <1>6, <3>1
    <3>3. plan'[(at - 1) + i] = plan[at + i]
      BY <3>1, <3>2
    <3> QED BY <1>5, <3>1, <3>3 DEF Leads
  <2> QED BY <2>1, <2>2, <2>3, <2>4 DEF Leads
<1>11. Switches(machine, new, at - 1)'
  <2>1. activeLeaf'[machine] = old /\ shared + (at - 1) - 1 <= Len(old)
    BY <1>1, <1>3, <1>4, <1>5
  <2> QED BY <1>2, <1>3, <1>10, <2>1 DEF Switches, Leads
<1> QED BY <1>7, <1>8, <1>9, <1>11

\* The tasks dispatched for a step are bound to a state that is active.
LEMMA DispatchHookTransition ==
  ASSUME IndInv, TransitionInvariant, DispatchHook
  PROVE  TransitionInvariant'
<1> USE DEF taskVars, dataVars, machineVars, callVars, runVars
<1>1. /\ UNCHANGED <<total, activeLeaf, entryTime, phase, cursor, charged>>
      /\ draining' = NoTask /\ plan # << >> /\ plan' = Tail(plan)
      /\ plan[1].hook \in {"exit", "enter"}
      /\ hookTasks' = HookTasks(plan[1].hook, plan[1].path)
  BY DEF DispatchHook
<1>2. /\ PlanInvariant' /\ Active(plan[1].path)
      /\ plan[1].hook = "enter" => entryTime[plan[1].path] = total
  <2>1. CASE \E machine \in Machines : Enters(machine)
    BY <1>1, <2>1, NextEntered DEF PlanInvariant
  <2>2. CASE \E machine \in Machines : \E new \in Leaves : \E at \in Nat : Switches(machine, new, at)
    <3>1. PICK machine \in Machines, new \in Leaves, at \in Nat : Switches(machine, new, at)
      BY <2>2
    <3>2. /\ at - 1 \in Nat /\ Switches(machine, new, at - 1)'
          /\ plan[1].hook = "exit" /\ Active(plan[1].path)
      BY <1>1, <3>1, NextLeft
    <3>3. PlanInvariant'
      <4>1. PICK k \in Nat : k = at - 1
        BY <3>2
      <4>2. Switches(machine, new, k)'
        BY <3>2, <4>1
      <4> QED BY <4>2 DEF PlanInvariant
    <3> QED BY <3>2, <3>3
  <2> QED BY <1>1, <2>1, <2>2 DEF TransitionInvariant, PlanInvariant
<1>3. \A position \in hookTasks' :
        /\ Active(Membership[TaskOrder[position]])'
        /\ Trigger[TaskOrder[position]] = "state_enter" =>
             (entryTime[Membership[TaskOrder[position]]] = total)'
  BY <1>1, <1>2 DEF HookTasks, Active
<1>4. EnterTasksReadZeroElapsed'
  BY <1>1 DEF EnterTasksReadZeroElapsed
<1>5. EnclosingStatesAreOlder'
  BY <1>1 DEF TransitionInvariant, EnclosingStatesAreOlder
<1> QED BY <1>1, <1>2, <1>3, <1>4, <1>5 DEF TransitionInvariant, Current

\* An enter task starts at the time its state was entered.
LEMMA StartLifecycleTaskTransition ==
  ASSUME IndInv, TransitionInvariant, StartLifecycleTask
  PROVE  TransitionInvariant'
<1> USE DEF taskVars, dataVars, machineVars, callVars, runVars
<1>1. PICK next \in hookTasks :
        /\ hookTasks' = hookTasks \ {next}
        /\ \/ draining' = TaskOrder[next]
           \/ draining' = NoTask
  BY DEF StartLifecycleTask, StartHookTask, BeginDrain
<1>2. UNCHANGED <<total, activeLeaf, entryTime, plan, phase, cursor, charged>>
  BY DEF StartLifecycleTask
<1>3. PlanInvariant'
  BY <1>2 DEF TransitionInvariant, PlanInvariant, Enters, Switches, Leads
<1>4. \A position \in hookTasks' :
        /\ Active(Membership[TaskOrder[position]])'
        /\ Trigger[TaskOrder[position]] = "state_enter" =>
             (entryTime[Membership[TaskOrder[position]]] = total)'
  BY <1>1, <1>2 DEF TransitionInvariant, Active
<1>5. EnterTasksReadZeroElapsed'
  <2> SUFFICES ASSUME draining' = TaskOrder[next], Trigger[TaskOrder[next]] = "state_enter"
               PROVE  Elapsed(Membership[TaskOrder[next]])' = 0
    BY <1>1 DEF EnterTasksReadZeroElapsed
  <2>1. entryTime'[Membership[TaskOrder[next]]] = total' /\ total' \in Nat
    BY <1>2, EnvironmentAssumption DEF TransitionInvariant, IndInv, TypeOK
  <2>2. PICK path : path = Membership[TaskOrder[next]]
    OBVIOUS
  <2>3. total' - entryTime'[path] = 0
    BY <2>1, <2>2
  <2>4. Elapsed(path)' = 0
    BY <2>3 DEF Elapsed
  <2> QED BY <2>2, <2>4
<1>6. EnclosingStatesAreOlder'
  BY <1>2 DEF TransitionInvariant, EnclosingStatesAreOlder
<1> QED BY <1>2, <1>3, <1>4, <1>5, <1>6 DEF TransitionInvariant, Current

\* All states of an initial leaf were entered at time 0, and it still is.
LEMMA BootMachineTransition ==
  ASSUME IndInv, TransitionInvariant, BootMachine
  PROVE  TransitionInvariant'
<1> USE DEF taskVars, dataVars, machineVars, callVars, runVars
<1>1. /\ UNCHANGED <<total, activeLeaf, entryTime, phase>> /\ phase = "boot" /\ total = 0
      /\ draining' = NoTask /\ hookTasks' = {} /\ Machine \in Machines
  BY CursorType DEF BootMachine, AtMachine, Quiet, TransitionInvariant, IndInv
<1>2. PICK machine \in Machines : machine = Machine
  BY <1>1
<1>3. PICK leaf \in LeavesOf(machine) : leaf = activeLeaf[machine]
  BY DEF TransitionInvariant
<1>4. Len(leaf) \in Nat
  BY LeafPath
<1>5. plan' = [i \in 1..Len(leaf) |-> [hook |-> "enter", path |-> Ancestor(leaf, i)]]
  <2>1. plan' = Hooks("enter", EnumeratePrefixes(leaf))
    BY <1>2, <1>3 DEF BootMachine
  <2> QED BY <1>4, <2>1 DEF Hooks, EnumeratePrefixes
<1>6. Len(plan') = Len(leaf)
  BY <1>4, <1>5
<1>7. ASSUME NEW i \in 1..Len(plan')
      PROVE  /\ plan'[i].hook = "enter" /\ plan'[i].path = Ancestor(leaf, Len(leaf) - Len(plan') + i)
             /\ entryTime'[plan'[i].path] = total'
  <2>1. plan'[i].hook = "enter" /\ plan'[i].path = Ancestor(leaf, i)
    BY <1>5, <1>6
  <2>2. entryTime[Ancestor(leaf, i)] = 0
    <3>1. entryTime[Ancestor(leaf, i)] \in 0..total
      BY <1>3, <1>6 DEF TransitionInvariant, EnclosingStatesAreOlder
    <3> QED BY <1>1, <3>1
  <2>3. Len(leaf) - Len(plan') + i = i
    BY <1>4, <1>6
  <2> QED BY <1>1, <2>1, <2>2, <2>3
<1>8. PlanInvariant'
  <2>1. Enters(machine)'
    BY <1>1, <1>3, <1>4, <1>6, <1>7 DEF Enters
  <2> QED BY <2>1 DEF PlanInvariant
<1>9. EnterTasksReadZeroElapsed'
  BY <1>1 DEF EnterTasksReadZeroElapsed
<1>10. EnclosingStatesAreOlder'
  BY <1>1 DEF TransitionInvariant, EnclosingStatesAreOlder
<1> QED BY <1>1, <1>8, <1>9, <1>10 DEF TransitionInvariant

\* What a switch does: the states of the new leaf below the shared ones are
\* entered now, and are what remains of the plan.
LeafSwitches(machine, old, new, shared) ==
  /\ old \in LeavesOf(machine) /\ new \in LeavesOf(machine) /\ plan[1].path = new
  /\ old = activeLeaf[machine] /\ shared = CommonLength(old, new)
  /\ activeLeaf' = [activeLeaf EXCEPT ![machine] = new]
  /\ entryTime' = [path \in Paths |->
       IF \E n \in (shared + 1)..Len(new) : path = Ancestor(new, n)
         THEN total ELSE entryTime[path]]
  /\ Len(plan') = Len(new) - shared
  /\ \A i \in 1..Len(plan') :
       plan'[i].hook = "enter" /\ plan'[i].path = Ancestor(new, shared + i)

\* The step SwitchLeaf takes is the one the plan invariant announces.
LEMMA SwitchLeafSwitches ==
  ASSUME IndInv, TransitionInvariant, SwitchLeaf
  PROVE  \E machine \in Machines : \E old, new : \E shared \in Nat :
           LeafSwitches(machine, old, new, shared)
<1>1. plan # << >> /\ plan[1].hook = "switch" /\ plan' = Tail(plan)
  BY DEF SwitchLeaf
<1>2. /\ Len(plan) \in Nat \ {0} /\ Len(plan') \in Nat /\ Len(plan') = Len(plan) - 1
      /\ \A i \in 1..Len(plan') : plan'[i] = plan[i + 1]
  BY <1>1, Remainder DEF IndInv
<1>3. \A machine \in Machines : ~Enters(machine)
  <2>1. 1 \in 1..Len(plan)
    BY <1>2
  <2> QED BY <1>1, <2>1 DEF Enters
<1>4. PICK machine \in Machines, new \in Leaves, at \in Nat : Switches(machine, new, at)
  BY <1>1, <1>3 DEF TransitionInvariant, PlanInvariant
<1>5. PICK old \in LeavesOf(machine) : old = activeLeaf[machine]
  BY DEF TransitionInvariant
<1>6. new \in LeavesOf(machine)
  BY <1>4 DEF Switches
<1>7. PICK shared \in Nat : shared = CommonLength(old, new)
  BY <1>5, <1>6, LeafPath, CommonLengthBounds
<1>8. Leads(plan, old, new, shared, at)
  BY <1>4, <1>5, <1>7 DEF Switches
<1>9. at = 1
  BY <1>1, <1>2, <1>8 DEF Leads
<1>10. Len(new) \in Nat /\ Len(plan') = Len(new) - shared
  BY <1>2, <1>6, <1>8, <1>9, LeafPath DEF Leads
<1>11. plan[1].path = new
  BY <1>8, <1>9 DEF Leads
<1>12. \A i \in 1..Len(plan') :
         plan[i + 1].hook = "enter" /\ plan[i + 1].path = Ancestor(new, shared + i)
  <2>1. \A i \in 1..Len(plan') : i \in 1..(Len(plan) - at) /\ i + 1 = at + i
    BY <1>2, <1>9
  <2> QED BY <1>8, <2>1 DEF Leads
<1>13. ASSUME NEW path
       PROVE  path \in StatesEntered <=> \E n \in (shared + 1)..Len(new) : path = Ancestor(new, n)
  <2>1. ASSUME path \in StatesEntered
        PROVE  \E n \in (shared + 1)..Len(new) : path = Ancestor(new, n)
    <3>1. PICK k \in 2..Len(plan) : path = plan[k].path
      BY <2>1 DEF StatesEntered
    <3>2. k - 1 \in 1..Len(plan') /\ (k - 1) + 1 = k
      BY <1>2
    <3>3. path = Ancestor(new, shared + (k - 1))
      BY <1>12, <3>1, <3>2
    <3>4. shared + (k - 1) \in (shared + 1)..Len(new)
      BY <1>7, <1>10, <3>2
    <3> QED BY <3>3, <3>4
  <2>2. ASSUME NEW n \in (shared + 1)..Len(new), path = Ancestor(new, n)
        PROVE  path \in StatesEntered
    <3>1. n - shared \in 1..Len(plan') /\ shared + (n - shared) = n
          /\ (n - shared) + 1 \in 2..Len(plan)
      BY <1>2, <1>10
    <3>2. plan[(n - shared) + 1].path = path
      BY <1>12, <2>2, <3>1
    <3> QED BY <3>1, <3>2 DEF StatesEntered
  <2> QED BY <2>1, <2>2
<1>14. entryTime' = [path \in Paths |->
         IF \E n \in (shared + 1)..Len(new) : path = Ancestor(new, n)
           THEN total ELSE entryTime[path]]
  BY <1>13 DEF SwitchLeaf
<1>15. new[1] = machine
  BY <1>6 DEF LeavesOf
<1>16. activeLeaf' = [activeLeaf EXCEPT ![machine] = new]
  BY <1>11, <1>15 DEF SwitchLeaf
<1>17. LeafSwitches(machine, old, new, shared)
  BY <1>2, <1>5, <1>6, <1>7, <1>10, <1>11, <1>12, <1>14, <1>16 DEF LeafSwitches
<1> QED BY <1>17

\* The clocks after a switch: those of entered states start, and those of the
\* shared states and of the states of other machines run on.
LEMMA ClocksAfterSwitch ==
  ASSUME IndInv, TransitionInvariant, NEW machine \in Machines, NEW old, NEW new, NEW shared \in Nat,
         LeafSwitches(machine, old, new, shared)
  PROVE  /\ shared <= Len(old) /\ shared <= Len(new) /\ activeLeaf'[machine] = new
         /\ \A n \in (shared + 1)..Len(new) : entryTime'[Ancestor(new, n)] = total
         /\ \A n \in 1..shared : /\ Ancestor(new, n) = Ancestor(old, n)
                                 /\ entryTime'[Ancestor(new, n)] = entryTime[Ancestor(old, n)]
         /\ \A other \in Machines \ {machine} :
              /\ activeLeaf'[other] = activeLeaf[other]
              /\ \A n \in 1..Len(activeLeaf[other]) :
                   entryTime'[Ancestor(activeLeaf[other], n)] =
                     entryTime[Ancestor(activeLeaf[other], n)]
<1>1. /\ old \in LeavesOf(machine) /\ new \in LeavesOf(machine)
      /\ shared = CommonLength(old, new)
      /\ activeLeaf' = [activeLeaf EXCEPT ![machine] = new]
      /\ entryTime' = [path \in Paths |->
           IF \E n \in (shared + 1)..Len(new) : path = Ancestor(new, n)
             THEN total ELSE entryTime[path]]
  BY DEF LeafSwitches
<1>2. /\ old \in Seq(STRING) /\ new \in Seq(STRING) /\ Len(old) \in Nat /\ Len(new) \in Nat
      /\ shared <= Len(old) /\ shared <= Len(new)
  BY <1>1, LeafPath, CommonLengthBounds
<1>3. activeLeaf \in [Machines -> Leaves]
  BY DEF IndInv, TypeOK
<1>4. ASSUME NEW n \in (shared + 1)..Len(new)
      PROVE  entryTime'[Ancestor(new, n)] = total
  <2>1. n \in 1..Len(new)
    BY <1>2
  <2>2. Ancestor(new, n) \in Paths
    BY <1>1, <2>1, LeafPath
  <2> QED BY <1>1, <2>2
<1>5. ASSUME NEW n \in 1..shared
      PROVE  /\ Ancestor(new, n) = Ancestor(old, n)
             /\ entryTime'[Ancestor(new, n)] = entryTime[Ancestor(old, n)]
  <2>1. n \in 1..Len(new) /\ n \in 1..CommonLength(old, new)
    BY <1>1, <1>2
  <2>2. Ancestor(new, n) = Ancestor(old, n)
    BY <1>2, <2>1, SharedAncestors
  <2>3. ASSUME NEW k \in (shared + 1)..Len(new), Ancestor(new, n) = Ancestor(new, k)
        PROVE  FALSE
    <3>1. k \in 1..Len(new)
      BY <1>2
    <3>2. Len(Ancestor(new, n)) = n /\ Len(Ancestor(new, k)) = k
      BY <1>2, <2>1, <3>1, AncestorPath
    <3> QED BY <2>3, <3>2
  <2>4. Ancestor(new, n) \in Paths
    BY <1>1, <2>1, LeafPath
  <2> QED BY <1>1, <2>2, <2>3, <2>4
<1>6. ASSUME NEW other \in Machines \ {machine}
      PROVE  /\ activeLeaf'[other] = activeLeaf[other]
             /\ \A n \in 1..Len(activeLeaf[other]) :
                  entryTime'[Ancestor(activeLeaf[other], n)] =
                    entryTime[Ancestor(activeLeaf[other], n)]
  <2>1. activeLeaf'[other] = activeLeaf[other]
    BY <1>1, <1>3
  <2>2. ASSUME NEW n \in 1..Len(activeLeaf[other])
        PROVE  entryTime'[Ancestor(activeLeaf[other], n)] = entryTime[Ancestor(activeLeaf[other], n)]
    <3>1. PICK leaf \in LeavesOf(other) : leaf = activeLeaf[other]
      BY DEF TransitionInvariant
    <3>2. Ancestor(leaf, n) \in Paths /\ Ancestor(leaf, n)[1] = other
      BY <3>1, LeafPath
    <3>3. ASSUME NEW k \in (shared + 1)..Len(new), Ancestor(leaf, n) = Ancestor(new, k)
          PROVE  FALSE
      <4>1. k \in 1..Len(new)
        BY <1>2
      <4>2. Ancestor(new, k)[1] = machine
        BY <1>1, <4>1, LeafPath
      <4> QED BY <3>2, <3>3, <4>2
    <3>4. entryTime'[Ancestor(leaf, n)] = entryTime[Ancestor(leaf, n)]
      BY <1>1, <3>2, <3>3
    <3> QED BY <3>1, <3>4
  <2> QED BY <2>1, <2>2
<1>7. activeLeaf'[machine] = new
  BY <1>1, <1>3
<1> QED BY <1>2, <1>4, <1>5, <1>6, <1>7

\* After the switch, what remains is to enter the states whose clocks were set.
LEMMA SwitchLeafTransition ==
  ASSUME IndInv, TransitionInvariant, SwitchLeaf
  PROVE  TransitionInvariant'
<1> USE DEF taskVars, dataVars, machineVars, callVars, runVars
<1>1. PICK machine \in Machines : \E old, new : \E shared \in Nat : LeafSwitches(machine, old, new, shared)
  BY SwitchLeafSwitches
<1>2. PICK old, new : \E shared \in Nat : LeafSwitches(machine, old, new, shared)
  BY <1>1
<1>3. PICK shared \in Nat : LeafSwitches(machine, old, new, shared)
  BY <1>2
<1>4. /\ old \in LeavesOf(machine) /\ new \in LeavesOf(machine) /\ old = activeLeaf[machine]
      /\ Len(plan') = Len(new) - shared
      /\ \A i \in 1..Len(plan') :
           plan'[i].hook = "enter" /\ plan'[i].path = Ancestor(new, shared + i)
  BY <1>3 DEF LeafSwitches
<1>5. /\ shared <= Len(old) /\ shared <= Len(new) /\ activeLeaf'[machine] = new
      /\ \A n \in (shared + 1)..Len(new) : entryTime'[Ancestor(new, n)] = total
      /\ \A n \in 1..shared : /\ Ancestor(new, n) = Ancestor(old, n)
                              /\ entryTime'[Ancestor(new, n)] = entryTime[Ancestor(old, n)]
      /\ \A other \in Machines \ {machine} :
           /\ activeLeaf'[other] = activeLeaf[other]
           /\ \A n \in 1..Len(activeLeaf[other]) :
                entryTime'[Ancestor(activeLeaf[other], n)] =
                  entryTime[Ancestor(activeLeaf[other], n)]
  BY <1>3, ClocksAfterSwitch
<1>6. Len(old) \in Nat /\ Len(new) \in Nat /\ total \in Nat
  BY <1>4, LeafPath, EnvironmentAssumption DEF IndInv, TypeOK
<1>7. UNCHANGED <<total, phase, cursor, charged, hookTasks, draining>> /\ hookTasks = {} /\ draining = NoTask
  BY DEF SwitchLeaf
<1>8. \A m \in Machines : activeLeaf'[m] \in LeavesOf(m)
  BY <1>4, <1>5 DEF TransitionInvariant
<1>9. PlanInvariant'
  <2>1. ASSUME NEW i \in 1..Len(plan')
        PROVE  /\ plan'[i].hook = "enter"
               /\ plan'[i].path = Ancestor(new, Len(new) - Len(plan') + i)
               /\ entryTime'[plan'[i].path] = total'
    <3>1. Len(new) - Len(plan') + i = shared + i /\ shared + i \in (shared + 1)..Len(new)
      BY <1>4, <1>5, <1>6
    <3> QED BY <1>4, <1>5, <1>7, <3>1
  <2>2. Enters(machine)'
    BY <1>4, <1>5, <1>6, <2>1 DEF Enters
  <2> QED BY <2>2 DEF PlanInvariant
<1>10. EnclosingStatesAreOlder'
  <2>1. ASSUME NEW n \in 1..Len(new)
        PROVE  /\ entryTime'[Ancestor(new, n)] \in 0..total
               /\ n > 1 => entryTime'[Ancestor(new, n - 1)] <= entryTime'[Ancestor(new, n)]
    <3> DEFINE time(k) == entryTime'[Ancestor(new, k)]
    <3>1. ASSUME NEW k \in 1..Len(new)
          PROVE  /\ time(k) \in 0..total
                 /\ k > shared => time(k) = total
    <4>1. CASE k > shared
        <5>1. k \in (shared + 1)..Len(new)
          BY <1>6, <4>1
        <5> QED BY <1>5, <1>6, <5>1
    <4>2. CASE k <= shared
        <5>1. k \in 1..shared /\ k \in 1..Len(old)
          BY <1>5, <1>6, <4>2
        <5>2. entryTime[Ancestor(old, k)] \in 0..total
          BY <1>4, <5>1 DEF TransitionInvariant, EnclosingStatesAreOlder
        <5> QED BY <1>5, <1>6, <4>2, <5>1, <5>2
    <4> QED BY <1>6, <4>1, <4>2
    <3>2. ASSUME n > 1, n <= shared
          PROVE  time(n - 1) <= time(n)
      <4>1. n \in 1..shared /\ n - 1 \in 1..shared /\ n \in 1..Len(old)
        BY <1>5, <1>6, <3>2
      <4>2. entryTime[Ancestor(old, n - 1)] <= entryTime[Ancestor(old, n)]
        BY <1>4, <3>2, <4>1 DEF TransitionInvariant, EnclosingStatesAreOlder
      <4> QED BY <1>5, <4>1, <4>2
    <3>3. ASSUME n > 1, n > shared
          PROVE  time(n - 1) <= time(n)
      <4>1. n - 1 \in 1..Len(new)
        BY <1>6, <3>3
      <4>2. time(n) = total /\ time(n - 1) \in 0..total
        BY <3>1, <3>3, <4>1
      <4> HIDE DEF time
      <4> QED BY <1>6, <4>2
    <3>4. n > shared \/ n <= shared
      BY <1>6
    <3> QED BY <3>1, <3>2, <3>3, <3>4
  <2>2. ASSUME NEW m \in Machines, NEW n \in 1..Len(activeLeaf'[m])
        PROVE  /\ entryTime'[Ancestor(activeLeaf'[m], n)] \in 0..total
               /\ n > 1 => entryTime'[Ancestor(activeLeaf'[m], n - 1)]
                              <= entryTime'[Ancestor(activeLeaf'[m], n)]
    <3>1. CASE m = machine
      BY <1>5, <2>1, <3>1
    <3>2. CASE m # machine
      <4>1. activeLeaf'[m] = activeLeaf[m] /\ n \in 1..Len(activeLeaf[m])
        BY <1>5, <3>2
      <4>2. PICK leaf \in LeavesOf(m) : leaf = activeLeaf[m]
        BY DEF TransitionInvariant
      <4>3. Len(leaf) \in Nat
        BY <4>2, LeafPath
      <4>4. n > 1 => n - 1 \in 1..Len(leaf)
        BY <4>1, <4>2, <4>3
      <4>5. /\ entryTime[Ancestor(leaf, n)] \in 0..total
            /\ n > 1 => entryTime[Ancestor(leaf, n - 1)] <= entryTime[Ancestor(leaf, n)]
        BY <4>1, <4>2 DEF TransitionInvariant, EnclosingStatesAreOlder
      <4>6. /\ entryTime'[Ancestor(leaf, n)] = entryTime[Ancestor(leaf, n)]
            /\ n > 1 => entryTime'[Ancestor(leaf, n - 1)] = entryTime[Ancestor(leaf, n - 1)]
        BY <1>5, <3>2, <4>1, <4>2, <4>4
      <4> QED BY <4>1, <4>2, <4>5, <4>6
    <3> QED BY <3>1, <3>2
  <2> QED BY <1>7, <2>2 DEF EnclosingStatesAreOlder
<1>11. EnterTasksReadZeroElapsed'
  BY <1>7 DEF EnterTasksReadZeroElapsed
<1> QED BY <1>7, <1>8, <1>9, <1>10, <1>11 DEF TransitionInvariant, Current

\* Every step preserves the invariant.
LEMMA TransitionStep ==
  IndInv /\ IdleIsQuiet /\ TickInProgress /\ TransitionInvariant /\ [Next]_vars => TransitionInvariant'
<1> SUFFICES ASSUME IndInv, IdleIsQuiet, TickInProgress, TransitionInvariant, [Next]_vars
             PROVE  TransitionInvariant'
  OBVIOUS
<1> QED BY TransitionRestsMostly, TimeGoesOn, TickMachineTransition, SwitchLeafTransition,
           DispatchHookTransition, StartLifecycleTaskTransition, BootMachineTransition
        DEF Next, Internal

------------------------------------------------------------------------------
\* The theorems

\* The invariant of the transitions and those it rests on, for every behaviour.
LEMMA RuntimeInvariant == Spec => [](IndInv /\ IdleIsQuiet /\ TickInProgress /\ TransitionInvariant)
<1>1. Init => IdleIsQuiet /\ TickInProgress
  BY TasksAssumption, MachinesAssumption DEF Init, IdleIsQuiet, TickInProgress
<1>2. IndInv /\ IdleIsQuiet /\ TickInProgress /\ [Next]_vars => TickInProgress'
  BY TickInProgressStep
<1> QED BY <1>1, <1>2, TransitionInit, TransitionStep, IdleIsQuietStep, Invariant, PTL DEF Spec

\* A planned lifecycle task is bound to a state that is active.
LEMMA PlannedTasksAreRunnable == IndInv /\ TransitionInvariant => LifecycleTasksFindTheirState
<1> SUFFICES ASSUME IndInv, TransitionInvariant, NEW position \in hookTasks
             PROVE  Runnable(TaskOrder[position])
  BY DEF LifecycleTasksFindTheirState
<1> DEFINE path == Membership[TaskOrder[position]]
<1>1. Active(path)
  BY DEF TransitionInvariant
<1>2. TaskOrder[position] \in Tasks
  BY DEF IndInv, TypeOK, Tasks
<1>3. path \in Paths \cup {NoPath}
  BY <1>2, TasksAssumption
<1> HIDE DEF path
<1>4. CASE path \in Paths
  <2>1. PICK node \in Nodes : path \in PrefixSet(node)
    BY <1>4 DEF Paths
  <2>2. node \in Seq(STRING) /\ node[1] \in Machines
    BY MachinesAssumption
  <2>3. PICK n \in 1..Len(node) : path = Ancestor(node, n)
    BY <2>1 DEF PrefixSet
  <2>4. path \in Seq(STRING) /\ Len(path) > 0 /\ path[1] = node[1]
    BY <2>2, <2>3, AncestorPath
  <2>5. activeLeaf[path[1]] \in Seq(STRING)
    BY <2>2, <2>4, LeafPath DEF TransitionInvariant
  <2>6. Encloses(path, activeLeaf[path[1]])
    BY <1>1, <2>4, <2>5, EnclosesIsPrefix DEF Active
  <2> QED BY <2>6 DEF Runnable, path
<1>5. CASE path = NoPath
  BY <1>5 DEF Runnable, path
<1> QED BY <1>3, <1>4, <1>5

\* The lifecycle tasks of a transition are never passed over: whichever leaf the
\* machine is in when their turn comes, the state they are bound to is active.
THEOREM LifecycleTasksRun == Spec => []LifecycleTasksFindTheirState
BY PlannedTasksAreRunnable, RuntimeInvariant, PTL

\* An enter task reads 0 as the elapsed time of its state, up to its first wait.
THEOREM EnteredStatesStartAtZero == Spec => []EnterTasksReadZeroElapsed
<1>1. TransitionInvariant => EnterTasksReadZeroElapsed
  BY DEF TransitionInvariant
<1> QED BY <1>1, RuntimeInvariant, PTL

\* The clocks of active states are ordered from the outermost state inwards.
THEOREM OuterStatesAreEnteredFirst == Spec => []EnclosingStatesAreOlder
<1>1. TransitionInvariant => EnclosingStatesAreOlder
  BY DEF TransitionInvariant
<1> QED BY <1>1, RuntimeInvariant, PTL

\* No step restarts the clock of a state that is active before and after it.
THEOREM ClocksOfSharedStatesRunOn == Spec => SharedStatesKeepTheirClock
<1>1. IndInv /\ TransitionInvariant /\ [Next]_vars =>
        [\A machine \in Machines :
           \A path \in PrefixSet(activeLeaf[machine]) \cap PrefixSet(activeLeaf'[machine]) :
             entryTime'[path] = entryTime[path]]_vars
  <2> SUFFICES ASSUME IndInv, TransitionInvariant, [Next]_vars, NEW m \in Machines,
                      NEW path \in PrefixSet(activeLeaf[m]) \cap PrefixSet(activeLeaf'[m])
               PROVE  entryTime'[path] = entryTime[path]
    OBVIOUS
  <2> USE DEF taskVars, dataVars, machineVars, callVars, runVars
  <2>1. CASE SwitchLeaf
    <3>1. PICK machine \in Machines : \E old, new : \E shared \in Nat : LeafSwitches(machine, old, new, shared)
      BY <2>1, SwitchLeafSwitches
    <3>2. PICK old, new : \E shared \in Nat : LeafSwitches(machine, old, new, shared)
      BY <3>1
    <3>3. PICK shared \in Nat : LeafSwitches(machine, old, new, shared)
      BY <3>2
    <3>4. /\ old \in LeavesOf(machine) /\ new \in LeavesOf(machine) /\ old = activeLeaf[machine]
          /\ shared = CommonLength(old, new)
      BY <3>3 DEF LeafSwitches
    <3>5. /\ activeLeaf'[machine] = new
          /\ \A n \in 1..shared : /\ Ancestor(new, n) = Ancestor(old, n)
                                  /\ entryTime'[Ancestor(new, n)] = entryTime[Ancestor(old, n)]
          /\ \A other \in Machines \ {machine} :
               \A n \in 1..Len(activeLeaf[other]) :
                 entryTime'[Ancestor(activeLeaf[other], n)] = entryTime[Ancestor(activeLeaf[other], n)]
      BY <3>3, ClocksAfterSwitch
    <3>6. CASE m = machine
      <4>1. PICK n \in 1..Len(old) : path = Ancestor(old, n)
        BY <3>4, <3>6 DEF PrefixSet
      <4>2. PICK k \in 1..Len(new) : path = Ancestor(new, k)
        BY <3>5, <3>6 DEF PrefixSet
      <4>3. old \in Seq(STRING) /\ new \in Seq(STRING)
        BY <3>4, LeafPath
      <4>4. n <= CommonLength(old, new)
        BY <4>1, <4>2, <4>3, SharedState
      <4>5. n \in 1..shared
        BY <3>4, <4>4
      <4> QED BY <3>5, <4>1, <4>5
    <3>7. CASE m # machine
      <4>1. PICK n \in 1..Len(activeLeaf[m]) : path = Ancestor(activeLeaf[m], n)
        BY DEF PrefixSet
      <4> QED BY <3>5, <3>7, <4>1
    <3> QED BY <3>6, <3>7
  <2>2. CASE ~SwitchLeaf
    BY <2>2
    DEF Next, Internal, Drain, ExecuteStatement, ExecuteWait, StopDrainedTask, FinishBody,
        ResumeWaitingTask, ChargeEveryTask, FireEveryTask, LeaveEveryTask, StartLoopTask,
        OfferEventToTask, ChargeMachine, LeaveMachine, TickMachine, DispatchHook,
        StartLifecycleTask, BootMachine, NextPhase, FlushPendingEffects, External, BeginTick,
        DispatchScriptEvent, StartTask, StopTask, SenseDevice, vars
  <2> QED BY <2>1, <2>2
<1> QED BY <1>1, RuntimeInvariant, PTL DEF Spec, SharedStatesKeepTheirClock

==============================================================================
