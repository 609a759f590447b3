--------------------------- MODULE ConformanceProofs ---------------------------
(***************************************************************************)
(* Theorems about the C++ interpreter beside the simulator that hold for   *)
(* every program the package builder accepts and every replay.             *)
(***************************************************************************)
EXTENDS Conformance, SimulationRuntimeProofs

------------------------------------------------------------------------------
(* What every call of the interpreter preserves. *)

Clocks == UNION {[entered -> Int] : entered \in SUBSET Paths}

HostStates ==
  [total : Nat, outcome : {"running", "thrown", "hung"},
   accumulated : [Tasks -> Int], counter : [Tasks -> Nat], resumeAt : [Tasks -> Nat],
   vars : [Vars -> Int], shown : [Host!Observed -> Int],
   leaf : [Machines -> Leaves], ticked : [Machines -> Int], entry : Clocks]

\* Programs in which nothing throws.
Fits == EventTasksNeverWait /\ DivisorsAreNotZero

\* A task that waits knows where to go on.
WaitsAreRemembered(h) ==
  \A task \in Tasks : h.resumeAt[task] # NotWaiting => h.counter[task] >= 1

HostOK(h) ==
  /\ h \in HostStates
  /\ WaitsAreRemembered(h)
  /\ LoopsWait => h.outcome # "hung"
  /\ Fits => h.outcome # "thrown" /\ \A name \in Divisors : h.vars[name] # 0

\* The states an operation that spends no time can lead to from g.
From(g) ==
  {h \in HostStates :
     /\ HostOK(h)
     /\ h.outcome = "running" => g.outcome = "running"
     /\ h.total = g.total /\ h.accumulated = g.accumulated /\ h.ticked = g.ticked}

------------------------------------------------------------------------------
(* Expressions. *)

\* An expression that does not throw has an integer value.
LEMMA HostValueType ==
  ASSUME NEW h \in HostStates, NEW expr \in Expressions, ~ Host!Throws(h, expr)
  PROVE  Host!Value(h, expr) \in Int
<1>1. CASE expr \in [kind : {"integer"}, value : Int]
  BY <1>1 DEF Host!Value
<1>2. CASE expr \in [kind : {"var"}, name : Vars]
  BY <1>2 DEF Host!Value, HostStates
<1>3. CASE expr \in [kind : {"read"}, device : Devices]
  BY <1>3 DEF Host!Value, Host!DefaultAdc0Raw
<1>4. CASE expr \in [kind : {"elapsed"}, path : Paths]
  <2>1. PICK entered \in SUBSET Paths : h.entry \in [entered -> Int]
    BY DEF HostStates, Clocks
  <2>2. Host!Elapsed(h, expr.path) \in Int
    BY <2>1 DEF Host!Elapsed, HostStates
  <2> QED  BY <1>4, <2>2 DEF Host!Value
<1>5. CASE expr \in [kind : {"quotient"}, of : Int, by : Vars]
  <2>1. expr.of \in Int /\ h.vars[expr.by] \in Int /\ h.vars[expr.by] # 0
    BY <1>5 DEF HostStates, Host!Throws
  <2>2. Quotient(expr.of, h.vars[expr.by]) \in Int
    BY <2>1, QuotientType
  <2>3. Host!Quotient(expr.of, h.vars[expr.by]) \in Int
    BY <2>2 DEF Quotient, Magnitude, Host!Quotient, Host!Magnitude
  <2> QED  BY <1>5, <2>3 DEF Host!Value
<1> QED  BY <1>1, <1>2, <1>3, <1>4, <1>5 DEF Expressions

\* Nothing that the package builder accepts throws where no divisor is zero.
LEMMA NothingThrows ==
  ASSUME NEW h, HostOK(h), Fits,
         NEW expr \in ProgramExpressions, Package!SupportedExpression(expr)
  PROVE  ~ Host!Throws(h, expr)
<1>1. expr.kind = "quotient" => expr.by \in Divisors
  BY DEF Divisors
<1>2. expr.kind = "quotient" => h.vars[expr.by] # 0
  BY <1>1 DEF HostOK
<1> QED  BY <1>2 DEF Host!Throws, Package!SupportedExpression

\* What is known of a statement of a task body.
LEMMA StatementsAreAccepted ==
  ASSUME NEW task \in Tasks, NEW i \in DOMAIN Body[task]
  PROVE  /\ Body[task][i] \in Statements
         /\ Body[task][i] \in ProgramStatements
         /\ Package!SupportedStatement(Body[task][i])
<1>1. Body[task] \in Seq(Statements)
  BY TasksAssumption
<1>2. Body[task][i] \in Statements
  BY <1>1
<1>3. Package!SupportedStatement(Body[task][i])
  <2>1. task \in Package!Tasks
    BY DEF Package!Tasks, Tasks
  <2> QED  BY <2>1, PackageAssumption DEF Package!Accepted
<1>4. Body[task][i] \in ProgramStatements
  BY DEF ProgramStatements
<1> QED  BY <1>2, <1>3, <1>4

------------------------------------------------------------------------------
(* Statements and task bodies. *)

\* The expressions of a program are expressions.
LEMMA ProgramExpressionsType == ProgramExpressions \subseteq Expressions
<1>1. ASSUME NEW statement \in ProgramStatements
      PROVE  Evaluated(statement) \subseteq Expressions
  <2>1. PICK task \in Tasks : \E i \in DOMAIN Body[task] : statement = Body[task][i]
    BY DEF ProgramStatements
  <2>2. statement \in Statements
    BY <2>1, StatementsAreAccepted
  <2>3. CASE statement \in SimpleStatements
    BY <2>3 DEF SimpleStatements, Evaluated
  <2>4. CASE statement \in [kind : {"wait"}, duration : Expressions]
    BY <2>4 DEF Evaluated
  <2>5. CASE statement \in [kind : {"if"}, when : Conditions, then : SimpleStatements,
                            otherwise : SimpleStatements]
    BY <2>5 DEF SimpleStatements, Conditions, Evaluated
  <2> QED  BY <2>2, <2>3, <2>4, <2>5 DEF Statements
<1>2. ASSUME NEW transitions \in Seq(TransitionRecords)
      PROVE  ConditionsOf(transitions) \subseteq Expressions
  <2> SUFFICES ASSUME NEW i \in DOMAIN transitions
               PROVE  transitions[i].when.left \in Expressions
    BY DEF ConditionsOf
  <2>1. transitions[i] \in TransitionRecords
    BY <1>2
  <2> QED  BY <2>1 DEF TransitionRecords, Conditions
<1>3. \A machine \in Machines : ConditionsOf(GlobalTransitions[machine]) \subseteq Expressions
  BY <1>2, MachinesAssumption
<1>4. \A node \in Nodes : ConditionsOf(LocalTransitions[node]) \subseteq Expressions
  BY <1>2, MachinesAssumption
<1> DEFINE InBodies == UNION {Evaluated(statement) : statement \in ProgramStatements}
           InMachines == UNION {ConditionsOf(GlobalTransitions[machine]) : machine \in Machines}
           InNodes == UNION {ConditionsOf(LocalTransitions[node]) : node \in Nodes}
<1>5. InBodies \subseteq Expressions /\ InMachines \subseteq Expressions
        /\ InNodes \subseteq Expressions
  BY <1>1, <1>3, <1>4
<1>6. ProgramExpressions = InBodies \cup InMachines \cup InNodes
  BY DEF ProgramExpressions
<1> HIDE DEF InBodies, InMachines, InNodes
<1> QED  BY <1>5, <1>6

\* A divisor is a variable of the program.
LEMMA DivisorsAreVariables == Divisors \subseteq Vars
<1> SUFFICES ASSUME NEW expr \in ProgramExpressions, expr.kind = "quotient"
             PROVE  expr.by \in Vars
  BY DEF Divisors
<1>1. expr \in Expressions
  BY ProgramExpressionsType
<1> QED  BY <1>1 DEF Expressions

\* An exception leaves a state that is allowed where something may throw.
LEMMA ThrownIsAllowed ==
  ASSUME NEW h, HostOK(h), ~ Fits
  PROVE  Host!Thrown(h) \in From(h)
BY DEF Host!Thrown, HostOK, From, HostStates, WaitsAreRemembered

\* A statement that acts changes variables and devices only.
LEMMA PerformKeeps ==
  ASSUME NEW h, HostOK(h), h.outcome = "running",
         NEW statement \in SimpleStatements,
         statement.value \in ProgramExpressions,
         Package!SupportedSimple(statement),
         (DivisorsAreNotZero /\ statement.kind = "set" /\ statement.name \in Divisors) =>
           statement.value.kind = "integer" /\ statement.value.value # 0
  PROVE  /\ Host!Perform(h, statement) \in From(h)
         /\ Host!Perform(h, statement).counter = h.counter
         /\ Host!Perform(h, statement).resumeAt = h.resumeAt
<1>1. /\ h \in HostStates /\ h \in From(h) /\ statement.value \in Expressions
      /\ Package!SupportedExpression(statement.value)
  BY DEF HostOK, From, SimpleStatements, Package!SupportedSimple
<1>2. CASE Host!Throws(h, statement.value)
  <2>1. ~ Fits
    BY <1>1, <1>2, NothingThrows
  <2>2. Host!Perform(h, statement) = Host!Thrown(h)
    BY <1>2 DEF Host!Perform
  <2>3. Host!Thrown(h).counter = h.counter /\ Host!Thrown(h).resumeAt = h.resumeAt
    BY <1>1 DEF Host!Thrown, HostStates
  <2> QED  BY <2>1, <2>2, <2>3, ThrownIsAllowed
<1>3. CASE ~ Host!Throws(h, statement.value)
  <2> DEFINE value == Host!Value(h, statement.value)
  <2>1. value \in Int
    BY <1>1, <1>3, HostValueType
  <2>2. CASE statement \in [kind : {"set"}, name : Vars, value : Expressions]
    <3> DEFINE after == [h EXCEPT !.vars[statement.name] = value]
    <3>1. Host!Perform(h, statement) = after
      BY <1>3, <2>2 DEF Host!Perform
    <3>2. after \in HostStates
      BY <1>1, <2>1, <2>2 DEF HostStates
    <3>3. /\ after.total = h.total /\ after.accumulated = h.accumulated
          /\ after.ticked = h.ticked /\ after.counter = h.counter
          /\ after.resumeAt = h.resumeAt /\ after.outcome = h.outcome
          /\ after.vars = [h.vars EXCEPT ![statement.name] = value]
      BY <1>1 DEF HostStates
    <3>4. ASSUME Fits, NEW name \in Divisors
          PROVE  after.vars[name] # 0
      <4>1. CASE name = statement.name
        <5>1. value # 0
          BY <2>2, <3>4, <4>1 DEF Host!Value, Fits
        <5>2. h.vars \in [Vars -> Int] /\ statement.name \in Vars
          BY <1>1, <2>2 DEF HostStates
        <5> QED  BY <3>3, <4>1, <5>1, <5>2
      <4>2. CASE name # statement.name
        <5>1. h.vars[name] # 0
          BY <3>4 DEF HostOK
        <5>2. after.vars[name] = h.vars[name]
          <6>1. h.vars \in [Vars -> Int]
            BY <1>1 DEF HostStates
          <6>2. CASE name \in Vars
            BY <3>3, <4>2, <6>1, <6>2
          <6>3. CASE name \notin Vars
            BY <3>4, DivisorsAreVariables, <6>3
          <6> QED  BY <6>2, <6>3
        <5> QED  BY <5>1, <5>2
      <4> QED  BY <4>1, <4>2
    <3>5. HostOK(after)
      <4> HIDE DEF after
      <4> QED  BY <3>2, <3>3, <3>4 DEF HostOK, WaitsAreRemembered
    <3>6. after \in From(h)
      <4> HIDE DEF after
      <4> QED  BY <3>2, <3>3, <3>5 DEF From
    <3> HIDE DEF after
    <3> QED  BY <3>1, <3>3, <3>6
  <2>3. CASE statement \in [kind : {"do"}, device : Devices, value : Expressions]
    <3>1. statement.device \in Host!Observed \cup Host!Unobserved
      BY <2>3 DEF Package!SupportedSimple, Package!SupportedMethods, Host!Observed, Host!Unobserved
    <3>2. CASE statement.device \in Host!Observed
      <4> DEFINE after == [h EXCEPT !.shown[statement.device] = value]
      <4>1. Host!Perform(h, statement) = after
        BY <1>3, <2>3, <3>2 DEF Host!Perform, Host!Observed, Host!Unobserved
      <4>2. after \in HostStates
        BY <1>1, <2>1, <3>2 DEF HostStates
      <4>3. /\ after.total = h.total /\ after.accumulated = h.accumulated
            /\ after.ticked = h.ticked /\ after.counter = h.counter
            /\ after.resumeAt = h.resumeAt /\ after.outcome = h.outcome
            /\ after.vars = h.vars
        BY <1>1 DEF HostStates
      <4> HIDE DEF after
      <4>4. HostOK(after)
        BY <4>2, <4>3 DEF HostOK, WaitsAreRemembered
      <4> QED  BY <4>1, <4>2, <4>3, <4>4 DEF From
    <3>3. CASE statement.device \notin Host!Observed
      <4>1. Host!Perform(h, statement) = h
        BY <1>3, <2>3, <3>1, <3>3 DEF Host!Perform
      <4> QED  BY <1>1, <4>1
    <3> QED  BY <3>2, <3>3
  <2> QED  BY <2>2, <2>3 DEF SimpleStatements
<1> QED  BY <1>2, <1>3

\* So does an `if`, whichever branch it takes.
LEMMA ExecuteStatementKeeps ==
  ASSUME NEW h, HostOK(h), h.outcome = "running",
         NEW task \in Tasks, NEW i \in DOMAIN Body[task], Body[task][i].kind # "wait"
  PROVE  /\ Host!ExecuteStatement(h, Body[task][i]) \in From(h)
         /\ Host!ExecuteStatement(h, Body[task][i]).counter = h.counter
         /\ Host!ExecuteStatement(h, Body[task][i]).resumeAt = h.resumeAt
<1> DEFINE statement == Body[task][i]
<1>1. /\ statement \in Statements /\ statement \in ProgramStatements
      /\ Package!SupportedStatement(statement) /\ h \in HostStates
  BY StatementsAreAccepted DEF HostOK
<1>2. /\ Evaluated(statement) \subseteq ProgramExpressions
      /\ Acting(statement) \subseteq UNION {Acting(s) : s \in ProgramStatements}
  BY <1>1 DEF ProgramExpressions
<1>3. ASSUME NEW simple \in Acting(statement), DivisorsAreNotZero,
             simple.kind = "set", simple.name \in Divisors
      PROVE  simple.value.kind = "integer" /\ simple.value.value # 0
  <2>1. simple \in UNION {Acting(s) : s \in ProgramStatements}
    BY <1>2
  <2> QED  BY <1>3, <2>1 DEF DivisorsAreNotZero
<1>4. statement.kind # "wait"
  OBVIOUS
<1> HIDE DEF statement
<1>5. CASE statement.kind # "if"
  <2>1. statement \in SimpleStatements
    BY <1>1, <1>4, <1>5 DEF Statements
  <2>2. statement \in Acting(statement) /\ statement.value \in ProgramExpressions
    BY <1>2, <1>4, <1>5 DEF Acting, Evaluated
  <2>3. Package!SupportedSimple(statement)
    BY <1>1, <1>4, <1>5 DEF Package!SupportedStatement
  <2>4. Host!ExecuteStatement(h, statement) = Host!Perform(h, statement)
    BY <1>5 DEF Host!ExecuteStatement
  <2> QED  BY <1>3, <2>1, <2>2, <2>3, <2>4, PerformKeeps DEF statement
<1>6. CASE statement.kind = "if"
  <2>1. statement \in [kind : {"if"}, when : Conditions, then : SimpleStatements,
                       otherwise : SimpleStatements]
    BY <1>1, <1>6 DEF Statements, SimpleStatements
  <2>2. /\ statement.then \in Acting(statement) /\ statement.otherwise \in Acting(statement)
        /\ statement.then.value \in ProgramExpressions
        /\ statement.otherwise.value \in ProgramExpressions
        /\ statement.when.left \in ProgramExpressions
    BY <1>2, <1>6 DEF Acting, Evaluated
  <2>3. /\ Package!SupportedSimple(statement.then)
        /\ Package!SupportedSimple(statement.otherwise)
        /\ Package!SupportedExpression(statement.when.left)
    BY <1>1, <1>6 DEF Package!SupportedStatement
  <2>4. CASE Host!Throws(h, statement.when.left)
    <3>1. ~ Fits
      BY <2>2, <2>3, <2>4, NothingThrows
    <3>2. Host!ExecuteStatement(h, statement) = Host!Thrown(h)
      BY <1>6, <2>4 DEF Host!ExecuteStatement
    <3>3. Host!Thrown(h).counter = h.counter /\ Host!Thrown(h).resumeAt = h.resumeAt
      BY <1>1 DEF Host!Thrown, HostStates
    <3> QED  BY <3>1, <3>2, <3>3, ThrownIsAllowed DEF statement
  <2>5. CASE ~ Host!Throws(h, statement.when.left)
    <3>1. PICK branch \in {statement.then, statement.otherwise} :
            Host!ExecuteStatement(h, statement) = Host!Perform(h, branch)
      BY <1>6, <2>5 DEF Host!ExecuteStatement
    <3>2. /\ branch \in SimpleStatements /\ branch \in Acting(statement)
          /\ branch.value \in ProgramExpressions /\ Package!SupportedSimple(branch)
      BY <2>1, <2>2, <2>3, <3>1
    <3> QED  BY <1>3, <3>1, <3>2, PerformKeeps DEF statement
  <2> QED  BY <2>4, <2>5
<1> QED  BY <1>5, <1>6

LEMMA FromIsTransitive ==
  ASSUME NEW f, NEW g \in From(f), NEW h \in From(g)
  PROVE  h \in From(f)
BY DEF From

\* A pass over one statement: a body that is parked stays as it is, and a wait
\* parks it.
LEMMA DrainStatementKeeps ==
  ASSUME NEW h, HostOK(h), h.outcome = "running",
         NEW task \in Tasks, NEW i \in DOMAIN Body[task]
  PROVE  LET after == Host!DrainStatement(h, task, Body[task][i]) IN
         /\ after \in From(h)
         /\ Host!Parked(h, task) => after = h
         /\ Body[task][i].kind = "wait" /\ after.outcome = "running" => Host!Parked(after, task)
<1> DEFINE statement == Body[task][i]
           after == Host!DrainStatement(h, task, statement)
<1>1. /\ h \in HostStates /\ h \in From(h)
      /\ statement \in Statements /\ Package!SupportedStatement(statement)
      /\ Evaluated(statement) \subseteq ProgramExpressions
  <2>1. statement \in ProgramStatements
    BY StatementsAreAccepted
  <2> QED  BY <2>1, StatementsAreAccepted DEF HostOK, From, ProgramExpressions
<1>2. CASE Host!Parked(h, task)
  <2>1. after = h
    BY <1>2 DEF Host!DrainStatement
  <2> QED  BY <1>1, <1>2, <2>1
<1>3. CASE ~ Host!Parked(h, task) /\ statement.kind # "wait"
  <2> DEFINE g == Host!ExecuteStatement(h, statement)
  <2>1. after = Host!StepPast(g, task)
    BY <1>3 DEF Host!DrainStatement
  <2>2. g \in From(h) /\ g.counter = h.counter /\ g.resumeAt = h.resumeAt
    BY <1>3, ExecuteStatementKeeps
  <2> HIDE DEF g
  <2>3. Host!StepPast(g, task) \in From(h)
    <3>1. CASE g.outcome = "running"
      <4> DEFINE stepped == [g EXCEPT !.counter[task] = @ + 1]
      <4>1. Host!StepPast(g, task) = stepped
        BY <3>1 DEF Host!StepPast
      <4>2. g \in HostStates /\ HostOK(g)
        BY <2>2 DEF From
      <4>3. stepped \in HostStates
        BY <4>2 DEF HostStates
      <4>4. /\ stepped.total = g.total /\ stepped.accumulated = g.accumulated
            /\ stepped.ticked = g.ticked /\ stepped.outcome = g.outcome
            /\ stepped.vars = g.vars /\ stepped.resumeAt = g.resumeAt
            /\ stepped.counter = [g.counter EXCEPT ![task] = @ + 1]
        BY <4>2 DEF HostStates
      <4>5. WaitsAreRemembered(stepped)
        <5> HIDE DEF stepped
        <5> QED  BY <4>2, <4>4 DEF HostOK, WaitsAreRemembered, HostStates
      <4> HIDE DEF stepped
      <4>6. HostOK(stepped)
        BY <4>2, <4>3, <4>4, <4>5 DEF HostOK
      <4> QED  BY <2>2, <4>1, <4>3, <4>4, <4>6 DEF From
    <3>2. CASE g.outcome # "running"
      BY <2>2, <3>2 DEF Host!StepPast
    <3> QED  BY <3>1, <3>2
  <2> QED  BY <1>3, <2>1, <2>3
<1>4. CASE ~ Host!Parked(h, task) /\ statement.kind = "wait"
  <2>1. /\ statement.duration \in Expressions /\ statement.duration \in ProgramExpressions
        /\ Package!SupportedExpression(statement.duration)
    <3>1. statement \in [kind : {"wait"}, duration : Expressions]
      BY <1>1, <1>4 DEF Statements, SimpleStatements
    <3> QED  BY <1>1, <1>4, <3>1 DEF Evaluated, Package!SupportedStatement
  <2>2. CASE Host!Throws(h, statement.duration)
    <3>1. after = Host!Thrown(h)
      BY <1>4, <2>2 DEF Host!DrainStatement
    <3>2. ~ Fits
      BY <2>1, <2>2, NothingThrows
    <3>3. Host!Thrown(h).outcome = "thrown"
      BY <1>1 DEF Host!Thrown, HostStates
    <3> QED  BY <1>4, <3>1, <3>2, <3>3, ThrownIsAllowed
  <2>3. CASE ~ Host!Throws(h, statement.duration)
    <3> DEFINE duration == Host!Value(h, statement.duration)
    <3>1. after = Host!Park(h, task, duration)
      BY <1>4, <2>3 DEF Host!DrainStatement
    <3>2. duration \in Int
      BY <1>1, <2>1, <2>3, HostValueType
    <3> HIDE DEF duration
    <3>3. CASE duration <= 0
      <4>1. Host!Park(h, task, duration) = [h EXCEPT !.counter[task] = 0]
        BY <3>3 DEF Host!Park, Host!NoProgress
      <4>2. h.resumeAt[task] = 0
        BY <1>4 DEF Host!Parked, Host!NotWaiting
      <4>3. [h EXCEPT !.counter[task] = 0] \in From(h)
        BY <1>1, <4>2 DEF From, HostOK, HostStates, WaitsAreRemembered, NotWaiting
      <4>4. Host!Parked([h EXCEPT !.counter[task] = 0], task)
        BY <1>1 DEF Host!Parked, HostStates, Host!NoProgress
      <4> QED  BY <1>4, <3>1, <4>1, <4>3, <4>4
    <3>4. CASE duration > 0
      <4> DEFINE parked == [h EXCEPT !.resumeAt[task] = h.total + duration, !.counter[task] = @ + 1]
      <4>1. Host!Park(h, task, duration) = parked
        BY <3>2, <3>4 DEF Host!Park
      <4>2. parked \in HostStates /\ parked.resumeAt[task] > 0 /\ parked.counter[task] >= 1
        <5>1. h.total + duration \in Nat /\ h.total + duration > 0
          BY <1>1, <3>2, <3>4 DEF HostStates
        <5>2. h.counter[task] + 1 \in Nat /\ h.counter[task] + 1 >= 1
          BY <1>1 DEF HostStates
        <5> QED  BY <1>1, <5>1, <5>2 DEF HostStates
      <4>3. /\ parked.resumeAt = [h.resumeAt EXCEPT ![task] = h.total + duration]
            /\ parked.counter = [h.counter EXCEPT ![task] = @ + 1]
            /\ parked.total = h.total /\ parked.accumulated = h.accumulated
            /\ parked.ticked = h.ticked /\ parked.outcome = h.outcome /\ parked.vars = h.vars
        BY <1>1 DEF HostStates
      <4>4. WaitsAreRemembered(parked)
        <5> HIDE DEF parked
        <5> QED  BY <1>1, <4>2, <4>3 DEF HostOK, WaitsAreRemembered, HostStates
      <4> HIDE DEF parked
      <4>5. parked \in From(h)
        BY <4>2, <4>3, <4>4 DEF From, HostOK
      <4>6. Host!Parked(parked, task)
        BY <4>2 DEF Host!Parked, Host!NotWaiting
      <4> QED  BY <1>4, <3>1, <4>1, <4>5, <4>6
    <3> QED  BY <3>2, <3>3, <3>4
  <2> QED  BY <2>2, <2>3
<1> QED  BY <1>2, <1>3, <1>4

Draining == INSTANCE ForEachProofs WITH Op <- Host!DrainStatement

\* A generic fact about the rest of a body.
LEMMA RestOfABody ==
  ASSUME NEW T, NEW body \in Seq(T), NEW first \in Nat, first >= 1
  PROVE  LET rest == SubSeq(body, first, Len(body)) IN
         /\ Len(rest) \in Nat
         /\ \A i \in 1..Len(rest) : first + i - 1 \in DOMAIN body /\ rest[i] = body[first + i - 1]
         /\ first = 1 => Len(rest) = Len(body)
OBVIOUS

\* A body that is drained from its first statement and has a wait is parked at
\* its end.
LEMMA DrainKeeps ==
  ASSUME NEW h, HostOK(h), h.outcome = "running",
         NEW task \in Tasks, h.counter[task] >= 1, h.resumeAt[task] = NotWaiting
  PROVE  LET after == Host!Drain(h, task) IN
         /\ after \in From(h)
         /\ (/\ h.counter[task] = 1 /\ after.outcome = "running"
             /\ \E i \in DOMAIN Body[task] : Body[task][i].kind = "wait")
              => Host!Parked(after, task)
<1>1. h \in HostStates /\ h \in From(h) /\ Body[task] \in Seq(Statements)
  BY TasksAssumption DEF HostOK, From
<1>2. CASE ~ Host!Runnable(h, task)
  <2>1. Host!Drain(h, task) = [h EXCEPT !.counter[task] = 0]
    BY <1>2 DEF Host!Drain, Host!NoProgress
  <2>2. [h EXCEPT !.counter[task] = 0] \in From(h)
    BY <1>1 DEF From, HostOK, HostStates, WaitsAreRemembered, NotWaiting
  <2>3. Host!Parked([h EXCEPT !.counter[task] = 0], task)
    BY <1>1 DEF Host!Parked, HostStates, Host!NoProgress
  <2> QED  BY <2>1, <2>2, <2>3
<1>3. CASE Host!Runnable(h, task)
  <2> DEFINE first == h.counter[task]
             rest == SubSeq(Body[task], first, Len(Body[task]))
             Waited(i) == \E k \in 1..i : rest[k].kind = "wait"
             Stage == [i \in 0..Len(rest) |->
                         {g \in From(h) : Waited(i) /\ g.outcome = "running"
                                            => Host!Parked(g, task)}]
             drained == Host!ForEach(Host!DrainStatement, task, h, rest)
  <2>1. first \in Nat /\ first >= 1
    BY <1>1 DEF HostStates
  <2>2. /\ Len(rest) \in Nat
        /\ \A i \in 1..Len(rest) :
             first + i - 1 \in DOMAIN Body[task] /\ rest[i] = Body[task][first + i - 1]
        /\ first = 1 => Len(rest) = Len(Body[task])
    <3> HIDE DEF first
    <3> QED  BY <1>1, <2>1, RestOfABody
  <2>3. h \in Stage[0]
    <3>1. 0 \in 0..Len(rest) /\ ~ Waited(0)
      <4> HIDE DEF rest
      <4> QED  BY <2>2
    <3> HIDE DEF Waited, rest
    <3> QED  BY <1>1, <3>1
  <2>4. ASSUME NEW i \in 1..Len(rest), NEW g \in Stage[i - 1]
        PROVE  IF g.outcome = "running" THEN Host!DrainStatement(g, task, rest[i]) \in Stage[i]
                                        ELSE g \in Stage[i]
    <3> DEFINE after == Host!DrainStatement(g, task, rest[i])
    <3>1. i - 1 \in 0..Len(rest) /\ i \in 0..Len(rest) /\ 1..i = 1..(i - 1) \cup {i}
      <4> HIDE DEF rest
      <4>1. i \in Nat /\ i >= 1 /\ i <= Len(rest)
        BY <2>2
      <4> QED  BY <2>2, <4>1
    <3>2. g \in From(h) /\ (Waited(i - 1) /\ g.outcome = "running" => Host!Parked(g, task))
      <4> HIDE DEF rest
      <4> QED  BY <2>4, <3>1
    <3>3. CASE g.outcome # "running"
      <4> HIDE DEF rest
      <4> QED  BY <3>1, <3>2, <3>3
    <3>4. CASE g.outcome = "running"
      <4>1. PICK k \in DOMAIN Body[task] : rest[i] = Body[task][k]
        BY <2>2
      <4>2. HostOK(g)
        BY <3>2 DEF From
      <4>3. /\ after \in From(g)
            /\ Host!Parked(g, task) => after = g
            /\ rest[i].kind = "wait" /\ after.outcome = "running" => Host!Parked(after, task)
        BY <3>4, <4>1, <4>2, DrainStatementKeeps
      <4>4. after \in From(h)
        BY <3>2, <4>3, FromIsTransitive
      <4>5. ASSUME Waited(i), after.outcome = "running"
            PROVE  Host!Parked(after, task)
        <5> HIDE DEF rest, after
        <5>1. CASE rest[i].kind = "wait"
          BY <4>3, <4>5, <5>1
        <5>2. CASE rest[i].kind # "wait"
          <6>1. Waited(i - 1)
            BY <3>1, <4>5, <5>2
          <6> QED  BY <3>2, <3>4, <4>3, <6>1
        <5> QED  BY <5>1, <5>2
      <4> HIDE DEF rest, after, Waited
      <4>6. after \in Stage[i]
        BY <3>1, <4>4, <4>5
      <4> QED  BY <3>4, <4>6 DEF after
    <3> QED  BY <3>3, <3>4
  <2>5. drained \in Stage[Len(rest)]
    <3>1. drained = Draining!Loop(task, h, rest)
      BY DEF Host!ForEach, Draining!Loop
    <3> HIDE DEF Stage, rest, drained
    <3>2. Draining!Loop(task, h, rest) \in Stage[Len(rest)]
      BY <2>2, <2>3, <2>4, Draining!LoopEndsInItsLastStage
    <3> QED  BY <3>1, <3>2
  <2>6. drained \in From(h) /\ (Waited(Len(rest)) /\ drained.outcome = "running"
                                  => Host!Parked(drained, task))
    <3> HIDE DEF rest, drained, Waited
    <3> QED  BY <2>2, <2>5
  <2>7. (first = 1 /\ \E i \in DOMAIN Body[task] : Body[task][i].kind = "wait")
          => Waited(Len(rest))
    BY <1>1, <2>2
  <2>8. Host!Drain(h, task) = Host!Finish(drained, task)
    BY <1>3 DEF Host!Drain
  <2> HIDE DEF drained, Waited, rest
  <2>9. Host!Finish(drained, task) \in From(h)
    <3>1. CASE drained.outcome = "running" /\ ~ Host!Parked(drained, task)
      <4>1. PICK n \in {0, 1} : Host!Finish(drained, task) = [drained EXCEPT !.counter[task] = n]
        BY <3>1 DEF Host!Finish, Host!NoProgress
      <4>2. drained.resumeAt[task] = 0
        BY <3>1 DEF Host!Parked, Host!NotWaiting
      <4>3. HostOK(drained) /\ n \in Nat
        BY <2>6 DEF From
      <4>4. [drained EXCEPT !.counter[task] = n] \in From(drained)
        BY <4>2, <4>3 DEF From, HostOK, HostStates, WaitsAreRemembered, NotWaiting
      <4>5. [drained EXCEPT !.counter[task] = n] \in From(h)
        BY <2>6, <4>4, FromIsTransitive
      <4> QED  BY <4>1, <4>5
    <3>2. CASE ~ (drained.outcome = "running" /\ ~ Host!Parked(drained, task))
      BY <2>6, <3>2 DEF Host!Finish
    <3> QED  BY <3>1, <3>2
  <2>10. ASSUME Host!Parked(drained, task) \/ drained.outcome # "running"
         PROVE  Host!Finish(drained, task) = drained
    BY <2>10 DEF Host!Finish
  <2> QED  BY <2>6, <2>7, <2>8, <2>9, <2>10
<1> QED  BY <1>2, <1>3

------------------------------------------------------------------------------
(* Loops over statements, tasks and states. *)

\* A state that only differs in how far one task has come, and from which it may
\* go on.
LEMMA TaskMovesKeep ==
  ASSUME NEW h, HostOK(h), NEW task \in Tasks, NEW n \in Nat
  PROVE  /\ h.resumeAt[task] = NotWaiting => [h EXCEPT !.counter[task] = n] \in From(h)
         /\ [h EXCEPT !.resumeAt[task] = NotWaiting] \in From(h)
<1>1. h \in HostStates
  BY DEF HostOK
<1>2. ASSUME h.resumeAt[task] = NotWaiting
      PROVE  [h EXCEPT !.counter[task] = n] \in From(h)
  BY <1>1, <1>2 DEF From, HostOK, HostStates, WaitsAreRemembered, NotWaiting
<1>3. [h EXCEPT !.resumeAt[task] = NotWaiting] \in From(h)
  BY <1>1 DEF From, HostOK, HostStates, WaitsAreRemembered, NotWaiting
<1> QED  BY <1>2, <1>3

EventStatements == INSTANCE ForEachProofs WITH Op <- Host!EventStatement

\* The body of an event task; a wait in it would throw.
LEMMA DrainOnEventKeeps ==
  ASSUME NEW h, HostOK(h), h.outcome = "running",
         NEW task \in Tasks, RunMode[task] = "on_event"
  PROVE  Host!DrainOnEvent(h, task) \in From(h)
<1> DEFINE body == Body[task]
<1>1. Len(body) \in Nat /\ DOMAIN body = 1..Len(body)
  BY TasksAssumption
<1>2. h \in From(h)
  BY DEF From, HostOK
<1>3. ASSUME NEW i \in 1..Len(body), NEW g \in From(h), g.outcome = "running"
      PROVE  Host!EventStatement(g, task, body[i]) \in From(h)
  <2>1. HostOK(g) /\ i \in DOMAIN body
    BY <1>1 DEF From
  <2>2. CASE body[i].kind = "wait"
    <3>1. ~ Fits
      BY <2>1, <2>2 DEF Fits, EventTasksNeverWait
    <3>2. Host!EventStatement(g, task, body[i]) = Host!Thrown(g)
      BY <2>2 DEF Host!EventStatement
    <3> QED  BY <2>1, <3>1, <3>2, ThrownIsAllowed, FromIsTransitive
  <2>3. CASE body[i].kind # "wait"
    <3>1. Host!EventStatement(g, task, body[i]) = Host!ExecuteStatement(g, body[i])
      BY <2>3 DEF Host!EventStatement
    <3>2. Host!ExecuteStatement(g, body[i]) \in From(g)
      BY <1>3, <2>1, <2>3, ExecuteStatementKeeps
    <3> QED  BY <3>1, <3>2, FromIsTransitive
  <2> QED  BY <2>2, <2>3
<1>4. EventStatements!Loop(task, h, body) \in From(h)
  <2> HIDE DEF body
  <2> QED  BY <1>1, <1>2, <1>3, EventStatements!LoopStaysIn
<1>5. Host!DrainOnEvent(h, task) = EventStatements!Loop(task, h, body)
  BY DEF Host!DrainOnEvent, Host!ForEach, EventStatements!Loop
<1> QED  BY <1>4, <1>5

\* The tasks are looked at in the order of their registration.
LEMMA TaskOrderFacts ==
  /\ Len(TaskOrder) \in Nat /\ \A i \in 1..Len(TaskOrder) : TaskOrder[i] \in Tasks
  /\ Len(MachineOrder) \in Nat /\ \A i \in 1..Len(MachineOrder) : MachineOrder[i] \in Machines
BY TasksAssumption, MachinesAssumption

ResumedTasks == INSTANCE ForEachProofs WITH Op <- Host!ResumeTask

\* resume_waiting_every_tasks and resume_waiting_loop_tasks
LEMMA ResumeWaitingKeeps ==
  ASSUME NEW h, HostOK(h), NEW mode
  PROVE  Host!ResumeWaiting(h, mode) \in From(h)
<1>1. h \in From(h)
  BY DEF From, HostOK
<1>2. ASSUME NEW task \in Tasks, NEW g \in From(h), g.outcome = "running"
      PROVE  Host!ResumeTask(g, mode, task) \in From(h)
  <2>1. HostOK(g) /\ g \in HostStates
    BY DEF From
  <2>2. CASE RunMode[task] = mode /\ Host!IsDue(g, task)
    <3> DEFINE awake == [g EXCEPT !.resumeAt[task] = NotWaiting]
    <3>1. Host!ResumeTask(g, mode, task) = Host!Drain(awake, task)
      BY <2>2 DEF Host!ResumeTask, Host!NotWaiting, NotWaiting
    <3>2. g.counter[task] >= 1
      BY <2>1, <2>2 DEF HostOK, WaitsAreRemembered, Host!IsDue, Host!NotWaiting, NotWaiting
    <3>3. awake \in From(g)
      BY <2>1, TaskMovesKeep
    <3>4. /\ awake.counter[task] >= 1 /\ awake.resumeAt[task] = NotWaiting
          /\ awake.outcome = "running"
      BY <1>2, <2>1, <3>2 DEF HostStates
    <3> HIDE DEF awake
    <3>5. Host!Drain(awake, task) \in From(awake)
      BY <3>3, <3>4, DrainKeeps DEF From
    <3> QED  BY <3>1, <3>3, <3>5, FromIsTransitive
  <2>3. CASE ~ (RunMode[task] = mode /\ Host!IsDue(g, task))
    BY <2>3 DEF Host!ResumeTask
  <2> QED  BY <2>2, <2>3
<1>3. ResumedTasks!Loop(mode, h, TaskOrder) \in From(h)
  BY <1>1, <1>2, TaskOrderFacts, ResumedTasks!LoopStaysIn
<1>4. Host!ResumeWaiting(h, mode) = ResumedTasks!Loop(mode, h, TaskOrder)
  BY DEF Host!ResumeWaiting, Host!ForEach, ResumedTasks!Loop
<1> QED  BY <1>3, <1>4

StartedLoops == INSTANCE ForEachProofs WITH Op <- Host!StartLoop

\* start_runnable_loop_tasks: a body that waits is not begun again.
LEMMA StartLoopsKeeps ==
  ASSUME NEW h, HostOK(h)
  PROVE  Host!StartLoops(h) \in From(h)
<1>1. h \in From(h)
  BY DEF From, HostOK
<1>2. ASSUME NEW task \in Tasks, NEW g \in From(h), g.outcome = "running"
      PROVE  Host!StartLoop(g, "loop", task) \in From(h)
  <2>1. HostOK(g) /\ g \in HostStates
    BY DEF From
  <2>2. CASE RunMode[task] = "loop" /\ Host!MayStartLoop(g, task)
    <3> DEFINE begun == [g EXCEPT !.counter[task] = 1]
               after == Host!Drain(begun, task)
    <3>1. Host!StartLoop(g, "loop", task) = Host!AfterPass(after, task)
      BY <2>2 DEF Host!StartLoop
    <3>2. g.resumeAt[task] = NotWaiting
      <4>1. CASE g.counter[task] = 0
        BY <2>1, <4>1 DEF HostOK, WaitsAreRemembered
      <4>2. CASE g.counter[task] # 0
        BY <2>2, <4>2 DEF Host!MayStartLoop, Host!NotWaiting, NotWaiting, Host!NoProgress
      <4> QED  BY <4>1, <4>2
    <3>3. begun \in From(g)
      BY <2>1, <3>2, TaskMovesKeep
    <3>4. /\ begun.counter[task] = 1 /\ begun.resumeAt[task] = NotWaiting
          /\ begun.outcome = "running" /\ HostOK(begun)
      BY <1>2, <2>1, <3>2, <3>3 DEF HostStates, From
    <3>5. /\ after \in From(begun)
          /\ LoopsWait /\ after.outcome = "running" => Host!Parked(after, task)
      <4> HIDE DEF begun
      <4>1. LoopsWait => \E i \in DOMAIN Body[task] : Body[task][i].kind = "wait"
        BY <2>2 DEF LoopsWait
      <4> QED  BY <3>4, <4>1, DrainKeeps
    <3>6. after \in From(h)
      <4> HIDE DEF begun, after
      <4>1. after \in From(g)
        BY <3>3, <3>5, FromIsTransitive
      <4> QED  BY <4>1, FromIsTransitive
    <3> HIDE DEF begun, after
    <3>7. CASE after.outcome = "running" /\ ~ Host!Parked(after, task)
      <4>1. ~ LoopsWait
        BY <3>5, <3>7
      <4>2. Host!AfterPass(after, task) = [after EXCEPT !.outcome = "hung"]
        BY <3>7 DEF Host!AfterPass
      <4>3. [after EXCEPT !.outcome = "hung"] \in From(h)
        BY <3>6, <4>1 DEF From, HostOK, HostStates, WaitsAreRemembered
      <4> QED  BY <3>1, <4>2, <4>3
    <3>8. CASE ~ (after.outcome = "running" /\ ~ Host!Parked(after, task))
      BY <3>1, <3>6, <3>8 DEF Host!AfterPass
    <3> QED  BY <3>7, <3>8
  <2>3. CASE ~ (RunMode[task] = "loop" /\ Host!MayStartLoop(g, task))
    BY <2>3 DEF Host!StartLoop
  <2> QED  BY <2>2, <2>3
<1>3. StartedLoops!Loop("loop", h, TaskOrder) \in From(h)
  BY <1>1, <1>2, TaskOrderFacts, StartedLoops!LoopStaysIn
<1>4. Host!StartLoops(h) = StartedLoops!Loop("loop", h, TaskOrder)
  BY DEF Host!StartLoops, Host!ForEach, StartedLoops!Loop
<1> QED  BY <1>3, <1>4

------------------------------------------------------------------------------
(* Events and leaf transitions. *)

OfferedTasks == INSTANCE ForEachProofs WITH Op <- Host!OfferEvent

\* dispatch_device_event
LEMMA OfferEventKeeps ==
  ASSUME NEW h, HostOK(h), NEW name
  PROVE  Host!ForEach(Host!OfferEvent, name, h, TaskOrder) \in From(h)
<1>1. h \in From(h)
  BY DEF From, HostOK
<1>2. ASSUME NEW task \in Tasks, NEW g \in From(h), g.outcome = "running"
      PROVE  Host!OfferEvent(g, name, task) \in From(h)
  <2>1. HostOK(g)
    BY DEF From
  <2>2. Trigger[task] = "device_event" => RunMode[task] = "on_event"
    BY TasksAssumption
  <2>3. RunMode[task] = "on_event" => Host!DrainOnEvent(g, task) \in From(h)
    BY <1>2, <2>1, DrainOnEventKeeps, FromIsTransitive
  <2> QED  BY <2>2, <2>3 DEF Host!OfferEvent
<1>3. OfferedTasks!Loop(name, h, TaskOrder) \in From(h)
  BY <1>1, <1>2, TaskOrderFacts, OfferedTasks!LoopStaysIn
<1>4. Host!ForEach(Host!OfferEvent, name, h, TaskOrder) = OfferedTasks!Loop(name, h, TaskOrder)
  BY DEF Host!ForEach, OfferedTasks!Loop
<1> QED  BY <1>3, <1>4

Hooked == INSTANCE ForEachProofs WITH Op <- Host!RunHook

\* The lifecycle tasks of one state ...
LEMMA DispatchHookKeeps ==
  ASSUME NEW h, HostOK(h), NEW trigger, trigger # "none", NEW path
  PROVE  Host!DispatchHook(h, trigger, path) \in From(h)
<1> DEFINE hook == [trigger |-> trigger, path |-> path]
<1>1. h \in From(h)
  BY DEF From, HostOK
<1>2. ASSUME NEW task \in Tasks, NEW g \in From(h), g.outcome = "running"
      PROVE  Host!RunHook(g, hook, task) \in From(h)
  <2>1. HostOK(g)
    BY DEF From
  <2>2. Trigger[task] = hook.trigger => RunMode[task] = "on_event"
    BY TasksAssumption
  <2>3. RunMode[task] = "on_event" => Host!DrainOnEvent(g, task) \in From(h)
    BY <1>2, <2>1, DrainOnEventKeeps, FromIsTransitive
  <2> QED  BY <2>2, <2>3 DEF Host!RunHook
<1>3. Hooked!Loop(hook, h, TaskOrder) \in From(h)
  <2> HIDE DEF hook
  <2> QED  BY <1>1, <1>2, TaskOrderFacts, Hooked!LoopStaysIn
<1>4. Host!DispatchHook(h, trigger, path) = Hooked!Loop(hook, h, TaskOrder)
  BY DEF Host!DispatchHook, Host!ForEach, Hooked!Loop
<1> QED  BY <1>3, <1>4

DispatchedHooks == INSTANCE ForEachProofs WITH Op <- Host!DispatchHook

\* ... and of the states of a sequence.
LEMMA DispatchHooksKeeps ==
  ASSUME NEW h, HostOK(h), NEW trigger, trigger # "none", NEW paths, Len(paths) \in Nat
  PROVE  Host!DispatchHooks(h, trigger, paths) \in From(h)
<1>1. h \in From(h)
  BY DEF From, HostOK
<1>2. ASSUME NEW i \in 1..Len(paths), NEW g \in From(h), g.outcome = "running"
      PROVE  Host!DispatchHook(g, trigger, paths[i]) \in From(h)
  <2>1. HostOK(g)
    BY DEF From
  <2> QED  BY <2>1, DispatchHookKeeps, FromIsTransitive
<1>3. DispatchedHooks!Loop(trigger, h, paths) \in From(h)
  BY <1>1, <1>2, DispatchedHooks!LoopStaysIn
<1>4. Host!DispatchHooks(h, trigger, paths) = DispatchedHooks!Loop(trigger, h, paths)
  BY DEF Host!DispatchHooks, Host!ForEach, DispatchedHooks!Loop
<1> QED  BY <1>3, <1>4

\* The interpreter computes with paths as the simulator does.
LEMMA SamePaths ==
  ASSUME NEW old, NEW new
  PROVE  /\ Host!ExitPaths(old, new) = ExitPaths(old, new)
         /\ Host!EnterPaths(old, new) = EnterPaths(old, new)
         /\ Host!Ancestor(old, new) = Ancestor(old, new)
         /\ Host!EnumeratePrefixes(old) = EnumeratePrefixes(old)
         /\ Host!PrefixSet(old) = PrefixSet(old)
<1>1. Host!CommonLength(old, new) = CommonLength(old, new)
  BY DEF Host!CommonLength, CommonLength, Host!SharedLengths, SharedLengths
<1> QED
  BY <1>1 DEF Host!ExitPaths, ExitPaths, Host!EnterPaths, EnterPaths, Host!Ancestor, Ancestor,
     Host!EnumeratePrefixes, EnumeratePrefixes, Host!PrefixSet, PrefixSet

\* The states of a leaf are paths.
LEMMA LeavesArePaths ==
  ASSUME NEW leaf \in Leaves
  PROVE  leaf \in Seq(STRING) /\ PrefixSet(leaf) \subseteq Paths
BY PrefixesArePaths DEF Leaves

\* Entering states sets their clocks and runs their enter tasks.
LEMMA EnterStatesKeeps ==
  ASSUME NEW h, HostOK(h), NEW paths \in Seq(Paths)
  PROVE  Host!EnterStates(h, paths) \in From(h)
<1> DEFINE entered == {paths[i] : i \in DOMAIN paths}
           clock == [path \in entered \cup DOMAIN h.entry |->
                       IF path \in entered THEN h.total ELSE h.entry[path]]
           seeded == [h EXCEPT !.entry = clock]
<1>1. h \in HostStates /\ entered \subseteq Paths /\ Len(paths) \in Nat
  BY DEF HostOK
<1>2. clock \in Clocks
  <2>1. PICK known \in SUBSET Paths : h.entry \in [known -> Int]
    BY <1>1 DEF HostStates, Clocks
  <2>2. clock \in [entered \cup known -> Int]
    <3> HIDE DEF entered
    <3> QED  BY <1>1, <2>1 DEF HostStates
  <2>3. entered \cup known \in SUBSET Paths
    BY <1>1, <2>1
  <2> HIDE DEF clock, entered
  <2> QED  BY <2>2, <2>3 DEF Clocks
<1>3. seeded \in From(h)
  <2> HIDE DEF clock
  <2> QED  BY <1>1, <1>2 DEF From, HostOK, HostStates, WaitsAreRemembered
<1>4. Host!EnterStates(h, paths) = Host!DispatchHooks(seeded, "state_enter", paths)
  BY DEF Host!EnterStates
<1> HIDE DEF seeded
<1>5. Host!DispatchHooks(seeded, "state_enter", paths) \in From(seeded)
  BY <1>1, <1>3, DispatchHooksKeeps DEF From
<1> QED  BY <1>3, <1>4, <1>5, FromIsTransitive

\* apply_state_machine_leaf_transition
LEMMA ApplyLeafTransitionKeeps ==
  ASSUME NEW h, HostOK(h), NEW machine \in Machines, NEW leaf \in Leaves
  PROVE  Host!ApplyLeafTransition(h, machine, leaf) \in From(h)
<1> DEFINE exited == Host!Exit(h, machine, leaf)
<1>1. h \in HostStates /\ h.leaf[machine] \in Leaves
  BY DEF HostOK, HostStates
<1>2. Len(ExitPaths(h.leaf[machine], leaf)) \in Nat
  BY <1>1, LeavesArePaths, ExitPathsType
<1>3. exited \in From(h)
  BY <1>2, SamePaths, DispatchHooksKeeps DEF Host!Exit
<1> HIDE DEF exited
<1> DEFINE switched == Host!Switched(exited, machine, leaf)
<1>4. exited \in HostStates /\ HostOK(exited)
  BY <1>3 DEF From
<1>5. switched \in From(exited) /\ switched \in HostStates /\ switched.leaf[machine] = leaf
  BY <1>4 DEF Host!Switched, From, HostOK, HostStates, WaitsAreRemembered
<1> HIDE DEF switched
<1>6. EnterPaths(switched.leaf[machine], leaf) \in Seq(Paths)
  <2>1. EnterPaths(switched.leaf[machine], leaf) \in Seq(PrefixSet(leaf))
    BY <1>5, LeavesArePaths, EnterPathsType
  <2> QED  BY <2>1, LeavesArePaths
<1>7. Host!Enter(switched, machine, leaf) \in From(switched)
  <2>1. HostOK(switched)
    BY <1>5 DEF From
  <2>2. Host!EnterSequence(switched, machine, leaf) \in Seq(Paths)
    BY <1>6, SamePaths DEF Host!EnterSequence
  <2> QED  BY <2>1, <2>2, EnterStatesKeeps DEF Host!Enter
<1>8. Host!Enter(switched, machine, leaf) \in From(h)
  <2>1. switched \in From(h)
    BY <1>3, <1>5, FromIsTransitive
  <2> QED  BY <1>7, <2>1, FromIsTransitive
<1>9. Host!ApplyLeafTransition(h, machine, leaf) \in {exited, Host!Enter(switched, machine, leaf)}
  BY DEF Host!ApplyLeafTransition, exited, switched
<1> QED  BY <1>3, <1>8, <1>9

\* A set of naturals that is not empty has a least element.
LEMMA LeastElement ==
  ASSUME NEW S, S \subseteq Nat, S # {}
  PROVE  Host!Min(S) \in S /\ \A k \in S : Host!Min(S) <= k
<1>1. PICK m \in S : \A k \in S : ~ (<<k, m>> \in OpToRel(<, Nat))
  BY WFMin, NatLessThanWellFounded
<1>2. ASSUME NEW k \in S
      PROVE  m <= k
  <2>1. k \in Nat /\ m \in Nat
    OBVIOUS
  <2>2. k < m => <<k, m>> \in OpToRel(<, Nat)
    BY <2>1 DEF OpToRel
  <2>3. ~ (k < m)
    BY <1>1, <2>2
  <2> QED  BY <2>1, <2>3
<1> QED  BY <1>2 DEF Host!Min

\* Whatever condition decides, the machine stays in its leaf, goes to another
\* one or stops with an exception.
LEMMA RunStateMachineTickKeeps ==
  ASSUME NEW h, HostOK(h), h.outcome = "running", NEW machine \in Machines
  PROVE  Host!RunStateMachineTick(h, machine) \in From(h)
<1> DEFINE leaf == h.leaf[machine]
           In(scope) == Host!TransitionsFrom(machine, leaf, scope)
           scopes == {scope \in 0..Len(leaf) : Host!Deciding(h, In(scope)) # {}}
<1>1. h \in HostStates /\ h \in From(h) /\ leaf \in Leaves /\ Len(leaf) \in Nat
  <2>1. h \in HostStates /\ h \in From(h) /\ leaf \in Leaves
    BY DEF HostOK, From, HostStates
  <2> QED  BY <2>1, LeavesArePaths
<1> HIDE DEF leaf
<1>2. CASE scopes = {}
  BY <1>1, <1>2 DEF Host!RunStateMachineTick, leaf
<1>3. CASE scopes # {}
  <2> DEFINE transitions == In(Host!Min(scopes))
             first == Host!Min(Host!Deciding(h, transitions))
  <2>1. Host!RunStateMachineTick(h, machine) = Host!Take(h, machine, transitions[first])
    BY <1>3 DEF Host!RunStateMachineTick, Host!TakeFirst, leaf
  <2>2. Host!Min(scopes) \in scopes
    <3>1. scopes \subseteq Nat
      BY <1>1
    <3> HIDE DEF scopes
    <3> QED  BY <1>3, <3>1, LeastElement
  <2>3. Host!Min(scopes) \in 0..Len(leaf) /\ Host!Deciding(h, transitions) # {}
    BY <2>2
  <2> DEFINE scope == Host!Min(scopes)
             node == Ancestor(leaf, Len(leaf) - scope + 1)
  <2>4. transitions = IF scope = 0 THEN GlobalTransitions[machine]
                      ELSE IF node \in Nodes THEN LocalTransitions[node] ELSE << >>
    BY SamePaths DEF Host!TransitionsFrom
  <2> HIDE DEF scope, node, transitions
  <2>5. /\ transitions \in Seq(TransitionRecords)
        /\ \A i \in DOMAIN transitions : Package!SupportedCondition(transitions[i].when)
        /\ ConditionsOf(transitions) \subseteq ProgramExpressions
    <3>1. /\ GlobalTransitions[machine] \in Seq(TransitionRecords)
          /\ \A i \in DOMAIN GlobalTransitions[machine] :
               Package!SupportedCondition(GlobalTransitions[machine][i].when)
          /\ ConditionsOf(GlobalTransitions[machine]) \subseteq ProgramExpressions
      <4>1. machine \in Package!Machines
        BY DEF Package!Machines, Machines
      <4>2. Package!SupportedTransitions(machine, GlobalTransitions[machine])
        BY <4>1, PackageAssumption DEF Package!Accepted, Package!SupportedMachines
      <4> QED  BY <4>2, MachinesAssumption DEF Package!SupportedTransitions, ProgramExpressions
    <3>2. ASSUME node \in Nodes
          PROVE  /\ LocalTransitions[node] \in Seq(TransitionRecords)
                 /\ \A i \in DOMAIN LocalTransitions[node] :
                      Package!SupportedCondition(LocalTransitions[node][i].when)
                 /\ ConditionsOf(LocalTransitions[node]) \subseteq ProgramExpressions
      <4>1. Package!SupportedTransitions(Head(node), LocalTransitions[node])
        BY <3>2, PackageAssumption DEF Package!Accepted, Package!SupportedMachines
      <4> QED
        BY <3>2, <4>1, MachinesAssumption DEF Package!SupportedTransitions, ProgramExpressions
    <3>3. << >> \in Seq(TransitionRecords) /\ DOMAIN << >> = {} /\ ConditionsOf(<< >>) = {}
      BY DEF ConditionsOf
    <3> QED  BY <2>4, <3>1, <3>2, <3>3
  <2>6. first \in DOMAIN transitions
    <3>1. Host!Deciding(h, transitions) \subseteq DOMAIN transitions
      BY DEF Host!Deciding
    <3>2. DOMAIN transitions \subseteq Nat
      BY <2>5
    <3> QED  BY <2>3, <3>1, <3>2, LeastElement
  <2> DEFINE transition == transitions[first]
  <2>7. /\ transition \in TransitionRecords /\ Package!SupportedCondition(transition.when)
        /\ transition.when.left \in ProgramExpressions
    BY <2>5, <2>6 DEF ConditionsOf
  <2> HIDE DEF transition, first
  <2>8. CASE Host!Throws(h, transition.when.left)
    <3>1. Package!SupportedExpression(transition.when.left)
      BY <2>7 DEF Package!SupportedCondition, Package!SupportedExpression
    <3>2. ~ Fits
      BY <2>7, <2>8, <3>1, NothingThrows
    <3>3. Host!Take(h, machine, transition) = Host!Thrown(h)
      BY <2>8 DEF Host!Take
    <3> QED  BY <2>1, <3>2, <3>3, ThrownIsAllowed DEF transition
  <2>9. CASE ~ Host!Throws(h, transition.when.left)
    <3> DEFINE target == Host!ResolveLeaf[transition.target]
    <3>1. Host!Take(h, machine, transition) = Host!MoveTo(h, machine, target)
      BY <2>9 DEF Host!Take
    <3>2. target \in Leaves
      <4>1. Host!ResolveLeaf = ResolveLeaf
        BY DEF Host!ResolveLeaf, ResolveLeaf
      <4> QED  BY <2>7, <4>1, ResolutionAssumption DEF TransitionRecords, LeavesOf
    <3> HIDE DEF target
    <3>3. Host!MoveTo(h, machine, target) \in From(h)
      BY <1>1, <3>2, ApplyLeafTransitionKeeps DEF Host!MoveTo
    <3> QED  BY <2>1, <3>1, <3>3 DEF transition
  <2> QED  BY <2>8, <2>9
<1> QED  BY <1>2, <1>3

------------------------------------------------------------------------------
(* The clocks of the interpreter. *)

\* What is left of some time when i whole intervals of it are used up.
Remaining(time, interval, i) == time - i * interval

\* Quotient and remainder of a time.
LEMMA DivisionFacts ==
  ASSUME NEW time \in Nat, NEW interval \in Nat \ {0}
  PROVE  /\ (time \div interval) \in Nat /\ (time % interval) \in 0..(interval - 1)
         /\ time = interval * (time \div interval) + (time % interval)
<1> DEFINE q == time \div interval
           r == time % interval
<1>1. q \in Int /\ r \in 0..(interval - 1) /\ time = interval * q + r
  OBVIOUS
<1> HIDE DEF q, r
<1>2. q >= 0
  <2> SUFFICES ASSUME q <= -1
               PROVE  FALSE
    BY <1>1
  <2>1. interval * (-1 - q) = -interval - interval * q /\ interval * (-1 - q) \in Nat
    BY <1>1
  <2> QED  BY <1>1, <2>1
<1> QED  BY <1>1, <1>2 DEF q, r

\* The rounds of the while loops of the interpreter.
LEMMA RoundsUseUpTheTime ==
  ASSUME NEW time \in Nat, NEW interval \in Nat \ {0}
  PROVE  LET rounds == time \div interval IN
         /\ rounds \in Nat
         /\ Remaining(time, interval, 0) = time
         /\ \A i \in 1..rounds :
              Remaining(time, interval, i) = Remaining(time, interval, i - 1) - interval
         /\ \A i \in 0..rounds : Remaining(time, interval, i) \in Int
         /\ Remaining(time, interval, rounds) = (time % interval)
<1> DEFINE rounds == time \div interval
<1>1. rounds \in Nat /\ (time % interval) \in Nat /\ time = interval * rounds + (time % interval)
  BY DivisionFacts
<1> HIDE DEF rounds
<1>2. \A i \in Int : i * interval \in Int /\ (i - 1) * interval = i * interval - interval
  OBVIOUS
<1>3. interval * rounds = rounds * interval /\ 0 * interval = 0
  BY <1>1
<1>4. Remaining(time, interval, rounds) = (time % interval)
  BY <1>1, <1>2, <1>3 DEF Remaining
<1>5. \A i \in 1..rounds :
        Remaining(time, interval, i) = Remaining(time, interval, i - 1) - interval
  <2> SUFFICES ASSUME NEW i \in 1..rounds
               PROVE  Remaining(time, interval, i) = Remaining(time, interval, i - 1) - interval
    OBVIOUS
  <2>1. i \in Int /\ i * interval \in Int /\ (i - 1) * interval = i * interval - interval
    BY <1>2
  <2> QED  BY <2>1 DEF Remaining
<1>6. \A i \in 0..rounds : Remaining(time, interval, i) \in Int
  BY <1>1, <1>2 DEF Remaining
<1>7. Remaining(time, interval, 0) = time
  BY <1>3 DEF Remaining
<1> QED  BY <1>1, <1>4, <1>5, <1>6, <1>7 DEF rounds

\* Time goes on from a multiple of the interval.
LEMMA RemaindersAddUp ==
  ASSUME NEW before \in Nat, NEW more \in Nat, NEW interval \in Nat \ {0}
  PROVE  ((before % interval) + more) % interval = (before + more) % interval
<1> DEFINE p == before \div interval
           time == (before % interval) + more
           q == time \div interval
           r == time % interval
<1>1. p \in Nat /\ (before % interval) \in Nat /\ before = interval * p + (before % interval)
  BY DivisionFacts
<1>2. time \in Nat
  BY <1>1
<1>3. before + more = interval * p + time
  <2>1. interval * p \in Nat
    BY <1>1
  <2> QED  BY <1>1, <2>1
<1> HIDE DEF p, time
<1>4. q \in Nat /\ r \in 0..(interval - 1) /\ time = interval * q + r
  BY <1>2, DivisionFacts
<1> HIDE DEF q, r
<1>5. before + more = r + (p + q) * interval
  <2>1. interval * p \in Nat /\ interval * q \in Nat /\ (p + q) * interval = interval * p + interval * q
    BY <1>1, <1>4
  <2> QED  BY <1>2, <1>3, <1>4, <2>1
<1>6. OnSchedule(r, before + more, interval)
  <2>1. p + q \in Nat
    BY <1>1, <1>4
  <2> QED  BY <1>5, <2>1 DEF OnSchedule
<1>7. r = (before + more) % interval
  BY <1>4, <1>6, CaughtUp
<1> QED  BY <1>7 DEF r, time

\* The states an operation that charges the clock of one task can lead to.
TaskClockAt(g, task, time) ==
  {h \in HostStates :
     /\ HostOK(h)
     /\ h.outcome = "running" => g.outcome = "running"
     /\ h.total = g.total /\ h.ticked = g.ticked
     /\ h.outcome = "running" => h.accumulated = [g.accumulated EXCEPT ![task] = time]}

\* An every task is begun anew or not at all.
LEMMA StartEveryKeeps ==
  ASSUME NEW h, HostOK(h), h.outcome = "running", NEW task \in Tasks
  PROVE  Host!StartEvery(h, task) \in From(h)
<1>1. h \in HostStates /\ h \in From(h)
  BY DEF HostOK, From
<1>2. CASE h.counter[task] = Host!NoProgress /\ Host!Runnable(h, task)
  <2> DEFINE begun == [h EXCEPT !.counter[task] = 1]
  <2>1. Host!StartEvery(h, task) = Host!Drain(begun, task)
    BY <1>2 DEF Host!StartEvery
  <2>2. h.resumeAt[task] = NotWaiting
    BY <1>1, <1>2 DEF HostOK, WaitsAreRemembered, Host!NoProgress
  <2>3. begun \in From(h)
    BY <2>2, TaskMovesKeep
  <2>4. begun.counter[task] >= 1 /\ begun.resumeAt[task] = NotWaiting /\ begun.outcome = "running"
    BY <1>1, <2>2 DEF HostStates
  <2> HIDE DEF begun
  <2>5. Host!Drain(begun, task) \in From(begun)
    BY <2>3, <2>4, DrainKeeps DEF From
  <2> QED  BY <2>1, <2>3, <2>5, FromIsTransitive
<1>3. CASE ~ (h.counter[task] = Host!NoProgress /\ Host!Runnable(h, task))
  BY <1>1, <1>3 DEF Host!StartEvery
<1> QED  BY <1>2, <1>3

UsedIntervals == INSTANCE ForEachProofs WITH Op <- Host!UseInterval

\* The while loop of advance_every_tasks leaves the remainder, whatever the
\* body it starts does.
LEMMA ChargeEveryEnds ==
  ASSUME NEW h, HostOK(h), h.outcome = "running",
         NEW task \in Tasks, RunMode[task] = "every",
         NEW milliseconds \in Nat, h.accumulated[task] \in Nat
  PROVE  Host!ChargeEvery(h, milliseconds, task)
           \in TaskClockAt(h, task, (h.accumulated[task] + milliseconds) % IntervalOf[task])
<1> DEFINE time == h.accumulated[task] + milliseconds
           interval == IntervalOf[task]
           rounds == time \div interval
           given == [h EXCEPT !.accumulated[task] = @ + milliseconds]
           Stage == [i \in 0..rounds |-> TaskClockAt(h, task, Remaining(time, interval, i))]
<1>1. time \in Nat /\ interval \in Nat \ {0} /\ h \in HostStates
  BY TasksAssumption DEF HostOK
<1>2. /\ rounds \in Nat /\ Remaining(time, interval, 0) = time
      /\ \A i \in 1..rounds :
           Remaining(time, interval, i) = Remaining(time, interval, i - 1) - interval
      /\ \A i \in 0..rounds : Remaining(time, interval, i) \in Int
      /\ Remaining(time, interval, rounds) = time % interval
  <2> HIDE DEF time, interval
  <2> QED  BY <1>1, RoundsUseUpTheTime
<1>3. given \in TaskClockAt(h, task, time)
  <2>1. /\ given \in HostStates /\ given.outcome = h.outcome /\ given.total = h.total
        /\ given.ticked = h.ticked /\ given.counter = h.counter
        /\ given.resumeAt = h.resumeAt /\ given.vars = h.vars
        /\ given.accumulated = [h.accumulated EXCEPT ![task] = time]
    BY <1>1 DEF HostStates
  <2> HIDE DEF given, time
  <2> QED  BY <2>1 DEF TaskClockAt, HostOK, WaitsAreRemembered
<1> HIDE DEF given, time, interval, rounds
<1>4. given \in Stage[0]
  BY <1>2, <1>3
<1>5. ASSUME NEW i \in 1..rounds, NEW g \in Stage[i - 1]
      PROVE  IF g.outcome = "running"
               THEN Host!UseInterval(g, task, Host!Times(rounds)[i]) \in Stage[i]
               ELSE g \in Stage[i]
  <2> DEFINE now == Remaining(time, interval, i - 1)
             later == Remaining(time, interval, i)
             used == [g EXCEPT !.accumulated[task] = @ - interval]
  <2>1. /\ g \in TaskClockAt(h, task, now) /\ later = now - interval
        /\ now \in Int /\ later \in Int
        /\ Stage[i] = TaskClockAt(h, task, later)
    BY <1>2
  <2> HIDE DEF now, later, Stage
  <2>2. g \in HostStates /\ HostOK(g)
    BY <2>1 DEF TaskClockAt
  <2>3. CASE g.outcome = "running"
    <3>1. /\ g.accumulated = [h.accumulated EXCEPT ![task] = now]
          /\ g.total = h.total /\ g.ticked = h.ticked
      BY <2>1, <2>3 DEF TaskClockAt
    <3>2. g.accumulated[task] = now
      BY <1>1, <3>1 DEF HostStates
    <3>3. /\ used \in HostStates /\ used.outcome = g.outcome /\ used.total = g.total
          /\ used.ticked = g.ticked /\ used.counter = g.counter
          /\ used.resumeAt = g.resumeAt /\ used.vars = g.vars
          /\ used.accumulated = [g.accumulated EXCEPT ![task] = later]
      BY <1>1, <2>1, <2>2, <3>2 DEF HostStates
    <3>4. Host!UseInterval(g, task, Host!Times(rounds)[i]) = Host!StartEvery(used, task)
      BY DEF Host!UseInterval, interval
    <3> HIDE DEF used
    <3>5. HostOK(used)
      BY <2>2, <3>3 DEF HostOK, WaitsAreRemembered
    <3>6. used.accumulated = [h.accumulated EXCEPT ![task] = later]
      BY <1>1, <3>1, <3>3 DEF HostStates
    <3>7. Host!StartEvery(used, task) \in From(used)
      BY <2>3, <3>3, <3>5, StartEveryKeeps
    <3>8. Host!StartEvery(used, task) \in TaskClockAt(h, task, later)
      BY <3>1, <3>3, <3>6, <3>7 DEF From, TaskClockAt
    <3> QED  BY <2>1, <2>3, <3>4, <3>8
  <2>4. CASE g.outcome # "running"
    BY <2>1, <2>4 DEF TaskClockAt
  <2> QED  BY <2>3, <2>4
<1>6. Len(Host!Times(rounds)) = rounds
  BY <1>2 DEF Host!Times
<1>7. UsedIntervals!Loop(task, given, Host!Times(rounds)) \in Stage[rounds]
  <2> HIDE DEF Stage
  <2> QED  BY <1>2, <1>4, <1>5, <1>6, UsedIntervals!LoopEndsInItsLastStage
<1>8. Stage[rounds] = TaskClockAt(h, task, time % interval)
  BY <1>2
<1>9. Host!ChargeEvery(h, milliseconds, task)
        = UsedIntervals!Loop(task, given, Host!Times(rounds))
  BY DEF Host!ChargeEvery, Host!ForEach, UsedIntervals!Loop, given, rounds, time, interval
<1> HIDE DEF Stage
<1> QED  BY <1>7, <1>8, <1>9 DEF time, interval


\* The same for the clock of one machine.
MachineClockAt(g, machine, time) ==
  {h \in HostStates :
     /\ HostOK(h)
     /\ h.outcome = "running" => g.outcome = "running"
     /\ h.total = g.total /\ h.accumulated = g.accumulated
     /\ h.outcome = "running" => h.ticked = [g.ticked EXCEPT ![machine] = time]}

UsedTicks == INSTANCE ForEachProofs WITH Op <- Host!UseTick

\* The while loop of advance_state_machines leaves the remainder, whatever the
\* transitions do.
LEMMA ChargeMachineEnds ==
  ASSUME NEW h, HostOK(h), h.outcome = "running",
         NEW machine \in Machines, TickIntervalOf[machine] > 0,
         NEW milliseconds \in Nat, h.ticked[machine] \in Nat
  PROVE  Host!ChargeMachine(h, milliseconds, machine)
           \in MachineClockAt(h, machine, (h.ticked[machine] + milliseconds) % TickIntervalOf[machine])
<1> DEFINE time == h.ticked[machine] + milliseconds
           interval == TickIntervalOf[machine]
           rounds == time \div interval
           given == [h EXCEPT !.ticked[machine] = @ + milliseconds]
           Stage == [i \in 0..rounds |-> MachineClockAt(h, machine, Remaining(time, interval, i))]
<1>1. time \in Nat /\ interval \in Nat \ {0} /\ h \in HostStates
  BY MachinesAssumption DEF HostOK
<1>2. /\ rounds \in Nat /\ Remaining(time, interval, 0) = time
      /\ \A i \in 1..rounds :
           Remaining(time, interval, i) = Remaining(time, interval, i - 1) - interval
      /\ \A i \in 0..rounds : Remaining(time, interval, i) \in Int
      /\ Remaining(time, interval, rounds) = time % interval
  <2> HIDE DEF time, interval
  <2> QED  BY <1>1, RoundsUseUpTheTime
<1>3. given \in MachineClockAt(h, machine, time)
  <2>1. /\ given \in HostStates /\ given.outcome = h.outcome /\ given.total = h.total
        /\ given.accumulated = h.accumulated /\ given.counter = h.counter
        /\ given.resumeAt = h.resumeAt /\ given.vars = h.vars
        /\ given.ticked = [h.ticked EXCEPT ![machine] = time]
    BY <1>1 DEF HostStates
  <2> HIDE DEF given, time
  <2> QED  BY <2>1 DEF MachineClockAt, HostOK, WaitsAreRemembered
<1> HIDE DEF given, time, interval, rounds
<1>4. given \in Stage[0]
  BY <1>2, <1>3
<1>5. ASSUME NEW i \in 1..rounds, NEW g \in Stage[i - 1]
      PROVE  IF g.outcome = "running"
               THEN Host!UseTick(g, machine, Host!Times(rounds)[i]) \in Stage[i]
               ELSE g \in Stage[i]
  <2> DEFINE now == Remaining(time, interval, i - 1)
             later == Remaining(time, interval, i)
             used == [g EXCEPT !.ticked[machine] = @ - interval]
  <2>1. /\ g \in MachineClockAt(h, machine, now) /\ later = now - interval
        /\ now \in Int /\ later \in Int
        /\ Stage[i] = MachineClockAt(h, machine, later)
    BY <1>2
  <2> HIDE DEF now, later, Stage
  <2>2. g \in HostStates /\ HostOK(g)
    BY <2>1 DEF MachineClockAt
  <2>3. CASE g.outcome = "running"
    <3>1. /\ g.ticked = [h.ticked EXCEPT ![machine] = now]
          /\ g.total = h.total /\ g.accumulated = h.accumulated
      BY <2>1, <2>3 DEF MachineClockAt
    <3>2. g.ticked[machine] = now
      BY <1>1, <3>1 DEF HostStates
    <3>3. /\ used \in HostStates /\ used.outcome = g.outcome /\ used.total = g.total
          /\ used.accumulated = g.accumulated /\ used.counter = g.counter
          /\ used.resumeAt = g.resumeAt /\ used.vars = g.vars
          /\ used.ticked = [g.ticked EXCEPT ![machine] = later]
      BY <1>1, <2>1, <2>2, <3>2 DEF HostStates
    <3>4. Host!UseTick(g, machine, Host!Times(rounds)[i]) = Host!RunStateMachineTick(used, machine)
      BY DEF Host!UseTick, interval
    <3> HIDE DEF used
    <3>5. HostOK(used)
      BY <2>2, <3>3 DEF HostOK, WaitsAreRemembered
    <3>6. used.ticked = [h.ticked EXCEPT ![machine] = later]
      BY <1>1, <3>1, <3>3 DEF HostStates
    <3>7. Host!RunStateMachineTick(used, machine) \in From(used)
      BY <2>3, <3>3, <3>5, RunStateMachineTickKeeps
    <3>8. Host!RunStateMachineTick(used, machine) \in MachineClockAt(h, machine, later)
      BY <3>1, <3>3, <3>6, <3>7 DEF From, MachineClockAt
    <3> QED  BY <2>1, <2>3, <3>4, <3>8
  <2>4. CASE g.outcome # "running"
    BY <2>1, <2>4 DEF MachineClockAt
  <2> QED  BY <2>3, <2>4
<1>6. Len(Host!Times(rounds)) = rounds
  BY <1>2 DEF Host!Times
<1>7. UsedTicks!Loop(machine, given, Host!Times(rounds)) \in Stage[rounds]
  <2> HIDE DEF Stage
  <2> QED  BY <1>2, <1>4, <1>5, <1>6, UsedTicks!LoopEndsInItsLastStage
<1>8. Stage[rounds] = MachineClockAt(h, machine, time % interval)
  BY <1>2
<1>9. Host!ChargeMachine(h, milliseconds, machine)
        = UsedTicks!Loop(machine, given, Host!Times(rounds))
  BY DEF Host!ChargeMachine, Host!ForEach, UsedTicks!Loop, given, rounds, time, interval
<1> HIDE DEF Stage
<1> QED  BY <1>7, <1>8, <1>9 DEF time, interval


\* The tasks up to the n-th one have been given the time of the call.
TaskClocksUpTo(h, milliseconds, n) ==
  {g \in HostStates :
     /\ HostOK(g)
     /\ g.outcome = "running" => h.outcome = "running"
     /\ g.total = h.total /\ g.ticked = h.ticked
     /\ g.outcome = "running" =>
          \A i \in 1..Len(TaskOrder) : RunMode[TaskOrder[i]] = "every" =>
            g.accumulated[TaskOrder[i]] =
              IF i <= n
                THEN (h.accumulated[TaskOrder[i]] + milliseconds) % IntervalOf[TaskOrder[i]]
                ELSE h.accumulated[TaskOrder[i]]}

FiredTasks == INSTANCE ForEachProofs WITH Op <- Host!FireEvery

\* advance_every_tasks
LEMMA AdvanceEveryEnds ==
  ASSUME NEW h, HostOK(h), NEW milliseconds \in Nat,
         h.outcome = "running" =>
           \A task \in Tasks : RunMode[task] = "every" => h.accumulated[task] \in Nat
  PROVE  Host!AdvanceEvery(h, milliseconds) \in TaskClocksUpTo(h, milliseconds, Len(TaskOrder))
<1> DEFINE last == Len(TaskOrder)
           Stage == [n \in 0..last |-> TaskClocksUpTo(h, milliseconds, n)]
<1>1. last \in Nat /\ \A i \in 1..last : TaskOrder[i] \in Tasks
  BY TaskOrderFacts
<1>2. h \in Stage[0]
  BY <1>1 DEF TaskClocksUpTo, HostOK
<1>3. ASSUME NEW n \in 1..last, NEW g \in Stage[n - 1]
      PROVE  IF g.outcome = "running" THEN Host!FireEvery(g, milliseconds, TaskOrder[n]) \in Stage[n]
                                      ELSE g \in Stage[n]
  <2> DEFINE task == TaskOrder[n]
             after == Host!FireEvery(g, milliseconds, task)
  <2>1. /\ g \in TaskClocksUpTo(h, milliseconds, n - 1)
        /\ Stage[n] = TaskClocksUpTo(h, milliseconds, n)
        /\ task \in Tasks /\ n \in 1..last
    BY <1>1
  <2> HIDE DEF Stage
  <2>2. HostOK(g) /\ g \in HostStates
    BY <2>1 DEF TaskClocksUpTo
  <2>3. CASE g.outcome # "running"
    BY <2>1, <2>3 DEF TaskClocksUpTo
  <2>4. CASE g.outcome = "running" /\ RunMode[task] = "every"
    <3> DEFINE time == (g.accumulated[task] + milliseconds) % IntervalOf[task]
    <3>1. /\ h.outcome = "running" /\ g.total = h.total /\ g.ticked = h.ticked
          /\ \A i \in 1..last : RunMode[TaskOrder[i]] = "every" =>
               g.accumulated[TaskOrder[i]] =
                 IF i <= n - 1
                   THEN (h.accumulated[TaskOrder[i]] + milliseconds) % IntervalOf[TaskOrder[i]]
                   ELSE h.accumulated[TaskOrder[i]]
      BY <2>1, <2>4 DEF TaskClocksUpTo
    <3>2. g.accumulated[task] = h.accumulated[task] /\ g.accumulated[task] \in Nat
      BY <2>1, <2>4, <3>1
    <3>3. after \in TaskClockAt(g, task, time)
      BY <2>1, <2>2, <2>4, <3>2, ChargeEveryEnds, TasksAssumption DEF Host!FireEvery
    <3> HIDE DEF after
    <3>4. ASSUME after.outcome = "running", NEW i \in 1..last, RunMode[TaskOrder[i]] = "every"
          PROVE  after.accumulated[TaskOrder[i]] =
                   IF i <= n
                     THEN (h.accumulated[TaskOrder[i]] + milliseconds) % IntervalOf[TaskOrder[i]]
                     ELSE h.accumulated[TaskOrder[i]]
      <4>1. /\ after.accumulated = [g.accumulated EXCEPT ![task] = time]
            /\ g.accumulated \in [Tasks -> Int]
        BY <2>2, <3>3, <3>4 DEF TaskClockAt, HostStates
      <4>2. TaskOrder[i] = task <=> i = n
        BY <2>1, <3>4, TasksAssumption DEF Distinct
      <4> HIDE DEF task, time
      <4>3. CASE i = n
        <5>1. after.accumulated[task] = time
          BY <2>1, <4>1
        <5> QED  BY <2>1, <3>2, <4>2, <4>3, <5>1 DEF time, task
      <4>4. CASE i # n
        <5>1. after.accumulated[TaskOrder[i]] = g.accumulated[TaskOrder[i]]
          BY <1>1, <4>1, <4>2, <4>4
        <5>2. i <= n <=> i <= n - 1
          BY <2>1, <4>4
        <5> QED  BY <3>1, <3>4, <5>1, <5>2
      <4> QED  BY <4>3, <4>4
    <3>5. after \in TaskClocksUpTo(h, milliseconds, n)
      BY <3>1, <3>3, <3>4 DEF TaskClockAt, TaskClocksUpTo
    <3> QED  BY <2>1, <2>4, <3>5 DEF after
  <2>5. CASE g.outcome = "running" /\ RunMode[task] # "every"
    <3>1. Host!FireEvery(g, milliseconds, task) = g
      BY <2>5 DEF Host!FireEvery
    <3>2. ASSUME NEW i \in 1..last, RunMode[TaskOrder[i]] = "every"
          PROVE  i <= n <=> i <= n - 1
      BY <2>1, <2>5, <3>2
    <3>3. g \in TaskClocksUpTo(h, milliseconds, n)
      BY <2>1, <3>2 DEF TaskClocksUpTo
    <3> QED  BY <2>1, <2>5, <3>1, <3>3
  <2> QED  BY <2>3, <2>4, <2>5
<1>4. FiredTasks!Loop(milliseconds, h, TaskOrder) \in Stage[last]
  <2> HIDE DEF Stage
  <2> QED  BY <1>1, <1>2, <1>3, FiredTasks!LoopEndsInItsLastStage
<1>5. Host!AdvanceEvery(h, milliseconds) = FiredTasks!Loop(milliseconds, h, TaskOrder)
  BY DEF Host!AdvanceEvery, Host!ForEach, FiredTasks!Loop
<1> QED  BY <1>1, <1>4, <1>5

\* The machines up to the n-th one have been given it.
MachineClocksUpTo(h, milliseconds, n) ==
  {g \in HostStates :
     /\ HostOK(g)
     /\ g.outcome = "running" => h.outcome = "running"
     /\ g.total = h.total /\ g.accumulated = h.accumulated
     /\ g.outcome = "running" =>
          \A i \in 1..Len(MachineOrder) : TickIntervalOf[MachineOrder[i]] > 0 =>
            g.ticked[MachineOrder[i]] =
              IF i <= n
                THEN (h.ticked[MachineOrder[i]] + milliseconds) % TickIntervalOf[MachineOrder[i]]
                ELSE h.ticked[MachineOrder[i]]}

\* A machine's clock can be set to any time.
LEMMA MachineClockIsSet ==
  ASSUME NEW h \in HostStates, NEW machine \in Machines, NEW time \in Int
  PROVE  [h EXCEPT !.ticked[machine] = time] \in HostStates
BY DEF HostStates

TickedMachines == INSTANCE ForEachProofs WITH Op <- Host!TickMachine

\* advance_state_machines
LEMMA AdvanceStateMachinesEnds ==
  ASSUME NEW h, HostOK(h), NEW milliseconds \in Nat,
         h.outcome = "running" =>
           \A machine \in Machines : TickIntervalOf[machine] > 0 => h.ticked[machine] \in Nat
  PROVE  Host!AdvanceStateMachines(h, milliseconds)
           \in MachineClocksUpTo(h, milliseconds, Len(MachineOrder))
<1> DEFINE last == Len(MachineOrder)
           Stage == [n \in 0..last |-> MachineClocksUpTo(h, milliseconds, n)]
<1>1. last \in Nat /\ \A i \in 1..last : MachineOrder[i] \in Machines
  BY TaskOrderFacts
<1>2. h \in Stage[0]
  BY <1>1 DEF MachineClocksUpTo, HostOK
<1>3. ASSUME NEW n \in 1..last, NEW g \in Stage[n - 1]
      PROVE  IF g.outcome = "running"
               THEN Host!TickMachine(g, milliseconds, MachineOrder[n]) \in Stage[n]
               ELSE g \in Stage[n]
  <2> DEFINE machine == MachineOrder[n]
             after == Host!TickMachine(g, milliseconds, machine)
  <2>1. /\ g \in MachineClocksUpTo(h, milliseconds, n - 1)
        /\ Stage[n] = MachineClocksUpTo(h, milliseconds, n)
        /\ machine \in Machines /\ n \in 1..last /\ TickIntervalOf[machine] \in Int
    BY <1>1, MachinesAssumption
  <2> HIDE DEF Stage
  <2>2. HostOK(g) /\ g \in HostStates
    BY <2>1 DEF MachineClocksUpTo
  <2>3. CASE g.outcome # "running"
    BY <2>1, <2>3 DEF MachineClocksUpTo
  <2>4. CASE g.outcome = "running"
    <3> DEFINE time == (g.ticked[machine] + milliseconds) % TickIntervalOf[machine]
    <3>1. /\ h.outcome = "running" /\ g.total = h.total /\ g.accumulated = h.accumulated
          /\ \A i \in 1..last : TickIntervalOf[MachineOrder[i]] > 0 =>
               g.ticked[MachineOrder[i]] =
                 IF i <= n - 1
                   THEN (h.ticked[MachineOrder[i]] + milliseconds) % TickIntervalOf[MachineOrder[i]]
                   ELSE h.ticked[MachineOrder[i]]
      BY <2>1, <2>4 DEF MachineClocksUpTo
    <3>2. TickIntervalOf[machine] > 0 =>
            g.ticked[machine] = h.ticked[machine] /\ g.ticked[machine] \in Nat
      BY <2>1, <2>4, <3>1
    <3>3. PICK value :
            /\ after \in MachineClockAt(g, machine, value)
            /\ TickIntervalOf[machine] > 0 => value = time
      <4>1. CASE TickIntervalOf[machine] > 0
        <5>1. after = Host!ChargeMachine(g, milliseconds, machine)
          BY <2>1, <4>1 DEF Host!TickMachine
        <5>2. Host!ChargeMachine(g, milliseconds, machine) \in MachineClockAt(g, machine, time)
          BY <2>1, <2>2, <2>4, <3>2, <4>1, ChargeMachineEnds
        <5> QED  BY <5>1, <5>2
      <4>2. CASE ~ (TickIntervalOf[machine] > 0)
        <5>1. PICK zero \in Int : zero = 0
          OBVIOUS
        <5> DEFINE reset == [g EXCEPT !.ticked[machine] = zero]
        <5>2. after = reset
          BY <2>1, <4>2, <5>1 DEF Host!TickMachine
        <5>4. machine \in Machines /\ g \in HostStates
          BY <2>1, <2>2
        <5> HIDE DEF machine, time
        <5>5. reset \in HostStates
          BY <5>4, MachineClockIsSet
        <5>6. /\ reset.outcome = g.outcome /\ reset.total = g.total
              /\ reset.accumulated = g.accumulated /\ reset.counter = g.counter
              /\ reset.resumeAt = g.resumeAt /\ reset.vars = g.vars
              /\ reset.ticked = [g.ticked EXCEPT ![machine] = zero]
          BY <5>4 DEF HostStates
        <5> HIDE DEF reset, after
        <5>3. reset \in MachineClockAt(g, machine, zero)
          BY <2>2, <5>5, <5>6 DEF MachineClockAt, HostOK, WaitsAreRemembered
        <5> QED  BY <4>2, <5>2, <5>3
      <4> QED  BY <4>1, <4>2
    <3> HIDE DEF after
    <3>4. ASSUME after.outcome = "running", NEW i \in 1..last, TickIntervalOf[MachineOrder[i]] > 0
          PROVE  after.ticked[MachineOrder[i]] =
                   IF i <= n
                     THEN (h.ticked[MachineOrder[i]] + milliseconds) % TickIntervalOf[MachineOrder[i]]
                     ELSE h.ticked[MachineOrder[i]]
      <4>1. /\ after.ticked = [g.ticked EXCEPT ![machine] = value]
            /\ g.ticked \in [Machines -> Int]
        BY <2>2, <3>3, <3>4 DEF MachineClockAt, HostStates
      <4>2. MachineOrder[i] = machine <=> i = n
        BY <2>1, <3>4, MachinesAssumption DEF Distinct
      <4> HIDE DEF machine, time
      <4>3. CASE i = n
        <5>1. after.ticked[machine] = value
          BY <2>1, <4>1
        <5> QED  BY <2>1, <3>2, <3>3, <3>4, <4>2, <4>3, <5>1 DEF time, machine
      <4>4. CASE i # n
        <5>1. after.ticked[MachineOrder[i]] = g.ticked[MachineOrder[i]]
          BY <1>1, <4>1, <4>2, <4>4
        <5>2. i <= n <=> i <= n - 1
          BY <2>1, <4>4
        <5> QED  BY <3>1, <3>4, <5>1, <5>2
      <4> QED  BY <4>3, <4>4
    <3>5. after \in MachineClocksUpTo(h, milliseconds, n)
      BY <3>1, <3>3, <3>4 DEF MachineClockAt, MachineClocksUpTo
    <3> QED  BY <2>1, <2>4, <3>5 DEF after
  <2> QED  BY <2>3, <2>4
<1>4. TickedMachines!Loop(milliseconds, h, MachineOrder) \in Stage[last]
  <2> HIDE DEF Stage
  <2> QED  BY <1>1, <1>2, <1>3, TickedMachines!LoopEndsInItsLastStage
<1>5. Host!AdvanceStateMachines(h, milliseconds) = TickedMachines!Loop(milliseconds, h, MachineOrder)
  BY DEF Host!AdvanceStateMachines, Host!ForEach, TickedMachines!Loop
<1> QED  BY <1>1, <1>4, <1>5


\* Every clock shows what whole intervals leave of the simulated time.
HostClocks(h) ==
  h.outcome = "running" =>
    /\ \A task \in Tasks : RunMode[task] = "every" =>
         h.accumulated[task] = h.total % IntervalOf[task]
    /\ \A machine \in Machines : TickIntervalOf[machine] > 0 =>
         h.ticked[machine] = h.total % TickIntervalOf[machine]

\* A state from which all went on running has the clocks of the one before.
LEMMA ClocksAreNatural ==
  ASSUME NEW h, HostOK(h), HostClocks(h), h.outcome = "running"
  PROVE  /\ \A task \in Tasks : RunMode[task] = "every" => h.accumulated[task] \in Nat
         /\ \A machine \in Machines : TickIntervalOf[machine] > 0 => h.ticked[machine] \in Nat
<1>1. h.total \in Nat
  BY DEF HostOK, HostStates
<1>2. ASSUME NEW task \in Tasks, RunMode[task] = "every"
      PROVE  h.accumulated[task] \in Nat
  <2>1. IntervalOf[task] \in Nat \ {0}
    BY <1>2, TasksAssumption
  <2>2. h.accumulated[task] = h.total % IntervalOf[task]
    BY <1>2 DEF HostClocks
  <2>3. (h.total % IntervalOf[task]) \in 0..(IntervalOf[task] - 1)
    BY <1>1, <2>1, DivisionFacts
  <2> QED  BY <2>1, <2>2, <2>3
<1>3. ASSUME NEW machine \in Machines, TickIntervalOf[machine] > 0
      PROVE  h.ticked[machine] \in Nat
  <2>1. TickIntervalOf[machine] \in Nat \ {0}
    BY <1>3, MachinesAssumption
  <2>2. h.ticked[machine] = h.total % TickIntervalOf[machine]
    BY <1>3 DEF HostClocks
  <2>3. (h.total % TickIntervalOf[machine]) \in 0..(TickIntervalOf[machine] - 1)
    BY <1>1, <2>1, DivisionFacts
  <2> QED  BY <2>1, <2>2, <2>3
<1> QED  BY <1>2, <1>3

\* tick_milliseconds: each clock is charged once, and nothing else moves one.
LEMMA AdvanceKeeps ==
  ASSUME NEW h, HostOK(h), HostClocks(h), NEW milliseconds \in Nat
  PROVE  LET after == Host!Advance([h EXCEPT !.total = @ + milliseconds], milliseconds) IN
         HostOK(after) /\ HostClocks(after) /\ after.total = h.total + milliseconds
<1> DEFINE later == [h EXCEPT !.total = @ + milliseconds]
           everyResumed == Host!ResumeWaiting(later, "every")
           resumed == Host!ResumeWaiting(everyResumed, "loop")
           moved == Host!AdvanceStateMachines(resumed, milliseconds)
           fired == Host!AdvanceEvery(moved, milliseconds)
           after == Host!StartLoops(fired)
<1>1. h \in HostStates /\ h.total \in Nat
  BY DEF HostOK, HostStates
<1>2. /\ later \in HostStates /\ later.outcome = h.outcome /\ later.total = h.total + milliseconds
      /\ later.accumulated = h.accumulated /\ later.ticked = h.ticked
      /\ later.counter = h.counter /\ later.resumeAt = h.resumeAt /\ later.vars = h.vars
  BY <1>1 DEF HostStates
<1>3. Host!Advance(later, milliseconds) = after
  BY DEF Host!Advance
<1> HIDE DEF later
<1>4. HostOK(later)
  BY <1>2 DEF HostOK, WaitsAreRemembered
<1>5. everyResumed \in From(later) /\ HostOK(everyResumed)
  BY <1>4, ResumeWaitingKeeps DEF From
<1> HIDE DEF everyResumed
<1>6. resumed \in From(later) /\ HostOK(resumed)
  <2>1. resumed \in From(everyResumed)
    BY <1>5, ResumeWaitingKeeps
  <2> QED  BY <1>5, <2>1, FromIsTransitive DEF From
<1> HIDE DEF resumed
<1>7. /\ resumed.outcome = "running" => h.outcome = "running"
      /\ resumed.total = h.total + milliseconds
      /\ resumed.accumulated = h.accumulated /\ resumed.ticked = h.ticked
  BY <1>2, <1>6 DEF From
<1>8. /\ resumed.outcome = "running" =>
           \A task \in Tasks : RunMode[task] = "every" => resumed.accumulated[task] \in Nat
      /\ resumed.outcome = "running" =>
           \A machine \in Machines : TickIntervalOf[machine] > 0 => resumed.ticked[machine] \in Nat
  BY <1>7, ClocksAreNatural
<1>9. moved \in MachineClocksUpTo(resumed, milliseconds, Len(MachineOrder))
  BY <1>6, <1>8, AdvanceStateMachinesEnds
<1> HIDE DEF moved
<1>10. /\ HostOK(moved) /\ (moved.outcome = "running" => resumed.outcome = "running")
       /\ moved.total = resumed.total /\ moved.accumulated = resumed.accumulated
  BY <1>9 DEF MachineClocksUpTo
<1>11. fired \in TaskClocksUpTo(moved, milliseconds, Len(TaskOrder))
  BY <1>8, <1>10, AdvanceEveryEnds
<1> HIDE DEF fired
<1>12. /\ HostOK(fired) /\ (fired.outcome = "running" => moved.outcome = "running")
       /\ fired.total = moved.total /\ fired.ticked = moved.ticked
  BY <1>11 DEF TaskClocksUpTo
<1>13. after \in From(fired)
  BY <1>12, StartLoopsKeeps
<1> HIDE DEF after
<1>14. /\ HostOK(after) /\ (after.outcome = "running" => fired.outcome = "running")
       /\ after.total = fired.total /\ after.accumulated = fired.accumulated
       /\ after.ticked = fired.ticked
  BY <1>13 DEF From
<1>15. after.total = h.total + milliseconds
  BY <1>7, <1>10, <1>12, <1>14
<1>16. ASSUME after.outcome = "running", NEW task \in Tasks, RunMode[task] = "every"
       PROVE  after.accumulated[task] = after.total % IntervalOf[task]
  <2>1. PICK i \in 1..Len(TaskOrder) : task = TaskOrder[i]
    BY DEF Tasks
  <2>2. fired.accumulated[task] = (moved.accumulated[task] + milliseconds) % IntervalOf[task]
    <3>1. i <= Len(TaskOrder)
      BY <2>1, TaskOrderFacts
    <3> QED  BY <1>11, <1>14, <1>16, <2>1, <3>1 DEF TaskClocksUpTo
  <2>3. h.accumulated[task] = h.total % IntervalOf[task]
    BY <1>7, <1>10, <1>12, <1>14, <1>16 DEF HostClocks
  <2>4. ((h.total % IntervalOf[task]) + milliseconds) % IntervalOf[task]
          = (h.total + milliseconds) % IntervalOf[task]
    BY <1>1, <1>16, TasksAssumption, RemaindersAddUp
  <2> QED  BY <1>7, <1>10, <1>14, <1>15, <2>2, <2>3, <2>4
<1>17. ASSUME after.outcome = "running", NEW machine \in Machines, TickIntervalOf[machine] > 0
       PROVE  after.ticked[machine] = after.total % TickIntervalOf[machine]
  <2>1. PICK i \in 1..Len(MachineOrder) : machine = MachineOrder[i]
    BY DEF Machines
  <2>2. moved.ticked[machine] = (resumed.ticked[machine] + milliseconds) % TickIntervalOf[machine]
    <3>1. i <= Len(MachineOrder)
      BY <2>1, TaskOrderFacts
    <3> QED  BY <1>9, <1>12, <1>14, <1>17, <2>1, <3>1 DEF MachineClocksUpTo
  <2>3. h.ticked[machine] = h.total % TickIntervalOf[machine]
    BY <1>7, <1>10, <1>12, <1>14, <1>17 DEF HostClocks
  <2>4. ((h.total % TickIntervalOf[machine]) + milliseconds) % TickIntervalOf[machine]
          = (h.total + milliseconds) % TickIntervalOf[machine]
    <3>1. TickIntervalOf[machine] \in Nat \ {0}
      BY <1>17, MachinesAssumption
    <3> QED  BY <1>1, <3>1, RemaindersAddUp
  <2> QED  BY <1>7, <1>12, <1>14, <1>15, <2>2, <2>3, <2>4
<1>18. HostClocks(after)
  BY <1>16, <1>17 DEF HostClocks
<1> QED  BY <1>3, <1>14, <1>15, <1>18 DEF later


------------------------------------------------------------------------------
(* The constructor. *)

\* The interpreter before its first task has run.
LEMMA LoadedKeeps ==
  /\ HostOK(Host!Loaded) /\ HostClocks(Host!Loaded)
  /\ Host!Loaded.outcome = "running" /\ Host!Loaded.total = 0
<1> DEFINE known == UNION {PrefixSet(InitialLeaf[machine]) : machine \in Machines}
           clock == [path \in known |-> 0]
           shown == [device \in Host!Observed |-> InitialDevices[device]]
<1>1. Host!Tasks = Tasks /\ Host!Machines = Machines
  BY DEF Host!Tasks, Tasks, Host!Machines, Machines
<1>2. known \subseteq Paths
  BY MachinesAssumption, LeavesArePaths
<1>3. clock \in Clocks
  <2>1. clock \in [known -> Int]
    OBVIOUS
  <2> HIDE DEF clock, known
  <2> QED  BY <1>2, <2>1 DEF Clocks
<1>4. shown \in [Host!Observed -> Int]
  BY ReplayAssumption, EnvironmentAssumption
<1>5. \A leaf : Host!PrefixSet(leaf) = PrefixSet(leaf)
  BY SamePaths
<1>6. /\ Host!Loaded =
           [total |-> 0, outcome |-> "running",
            accumulated |-> [task \in Tasks |-> 0], counter |-> [task \in Tasks |-> 0],
            resumeAt |-> [task \in Tasks |-> 0], vars |-> InitialVars, shown |-> shown,
            leaf |-> InitialLeaf, ticked |-> [machine \in Machines |-> 0], entry |-> clock]
  BY <1>1, <1>5 DEF Host!Loaded, Host!NoProgress, Host!NotWaiting
<1> HIDE DEF clock, shown
<1>7. Host!Loaded \in HostStates
  BY <1>3, <1>4, <1>6, EnvironmentAssumption, MachinesAssumption DEF HostStates
<1>8. WaitsAreRemembered(Host!Loaded)
  BY <1>6 DEF WaitsAreRemembered, NotWaiting
<1>9. DivisorsAreNotZero => \A name \in Divisors : Host!Loaded.vars[name] # 0
  BY <1>6 DEF DivisorsAreNotZero
<1>10. HostOK(Host!Loaded)
  BY <1>6, <1>7, <1>8, <1>9 DEF HostOK, Fits
<1>11. ASSUME NEW interval \in Nat \ {0}
       PROVE  0 % interval = 0
  <2>1. 0 * interval = 0
    OBVIOUS
  <2>2. OnSchedule(0, 0, interval)
    BY <2>1 DEF OnSchedule
  <2> QED  BY <2>2, CaughtUp
<1>12. HostClocks(Host!Loaded)
  <2>1. \A task \in Tasks : RunMode[task] = "every" => IntervalOf[task] \in Nat \ {0}
    BY TasksAssumption
  <2>2. \A machine \in Machines :
          TickIntervalOf[machine] > 0 => TickIntervalOf[machine] \in Nat \ {0}
    BY MachinesAssumption
  <2> QED  BY <1>6, <1>11, <2>1, <2>2 DEF HostClocks
<1> QED  BY <1>6, <1>10, <1>12

\* What spends no time leaves the clocks as they are.
LEMMA ClocksStay ==
  ASSUME NEW g, HostClocks(g), NEW h \in From(g)
  PROVE  HostClocks(h)
BY DEF HostClocks, From

EnteredMachines == INSTANCE ForEachProofs WITH Op <- Host!EnterInitialStates

\* The constructor: the enter tasks of the initial states, and the loops.
LEMMA ConstructedKeeps ==
  HostOK(Host!Constructed) /\ HostClocks(Host!Constructed) /\ Host!Constructed.total = 0
<1> DEFINE loaded == Host!Loaded
           booted == Host!ForEach(Host!EnterInitialStates, "state_enter", loaded, MachineOrder)
<1>1. HostOK(loaded) /\ HostClocks(loaded) /\ loaded.total = 0 /\ loaded \in From(loaded)
  BY LoadedKeeps DEF From, HostOK
<1>2. Host!Constructed = Host!StartLoops(booted)
  BY DEF Host!Constructed
<1> HIDE DEF loaded
<1>3. ASSUME NEW machine \in Machines, NEW g \in From(loaded), g.outcome = "running"
      PROVE  Host!EnterInitialStates(g, "state_enter", machine) \in From(loaded)
  <2> DEFINE paths == EnumeratePrefixes(g.leaf[machine])
  <2>1. HostOK(g) /\ g.leaf[machine] \in Leaves
    BY DEF From, HostStates
  <2>2. Len(paths) \in Nat
    BY <2>1, LeavesArePaths DEF EnumeratePrefixes
  <2>3. Host!EnterInitialStates(g, "state_enter", machine)
          = Host!DispatchHooks(g, "state_enter", paths)
    BY SamePaths DEF Host!EnterInitialStates
  <2> HIDE DEF paths
  <2>4. Host!DispatchHooks(g, "state_enter", paths) \in From(g)
    BY <2>1, <2>2, DispatchHooksKeeps
  <2> QED  BY <2>3, <2>4, FromIsTransitive
<1>4. EnteredMachines!Loop("state_enter", loaded, MachineOrder) \in From(loaded)
  BY <1>1, <1>3, TaskOrderFacts, EnteredMachines!LoopStaysIn
<1>5. booted = EnteredMachines!Loop("state_enter", loaded, MachineOrder)
  BY DEF Host!ForEach, EnteredMachines!Loop
<1> HIDE DEF booted
<1>6. Host!StartLoops(booted) \in From(booted)
  BY <1>4, <1>5, StartLoopsKeeps DEF From
<1>7. Host!Constructed \in From(loaded)
  BY <1>2, <1>4, <1>5, <1>6, FromIsTransitive
<1>8. HostClocks(Host!Constructed)
  BY <1>1, <1>7, ClocksStay
<1> QED  BY <1>1, <1>7, <1>8 DEF From

------------------------------------------------------------------------------
(* The steps of a replay. *)

\* The least element of a set of naturals, as the package builder takes it.
LEMMA LeastOfThePackage ==
  ASSUME NEW S, S \subseteq Nat, S # {}
  PROVE  Package!Min(S) \in S
<1>1. Package!Min(S) = Host!Min(S)
  BY DEF Package!Min, Host!Min
<1> QED  BY <1>1, LeastElement

\* The first task of a kind is one of that kind.
LEMMA FirstOfAKind ==
  ASSUME NEW mode, Package!Registered(mode) # {}
  PROVE  Package!FirstOf(mode) \in Tasks /\ RunMode[Package!FirstOf(mode)] = mode
<1>1. Package!Registered(mode) \subseteq Nat
  BY TasksAssumption DEF Package!Registered
<1>2. Package!Min(Package!Registered(mode)) \in Package!Registered(mode)
  BY <1>1, LeastOfThePackage
<1> QED  BY <1>2, TasksAssumption DEF Package!Registered, Package!FirstOf

\* An interval of the package is a number of milliseconds.
LEMMA IntervalsAreNatural ==
  /\ Package!Registered("every") # {} => IntervalOf[Package!FirstOf("every")] \in Nat
  /\ Package!MachineTick \in Nat
  /\ Package!WaitingLoops # {} => Package!LoopWait \in Nat
<1>1. Package!Registered("every") # {} => IntervalOf[Package!FirstOf("every")] \in Nat
  BY FirstOfAKind, TasksAssumption
<1>2. Package!MachineTick \in Nat
  <2> DEFINE ticks == {tick \in Package!MachineTicks : tick >= 1}
  <2>1. Package!Machines = Machines
    BY DEF Package!Machines, Machines
  <2>2. ticks \subseteq Nat
    BY <2>1, MachinesAssumption DEF Package!MachineTicks
  <2>3. CASE ticks = {}
    <3>1. Package!MachineTick = Package!NoInterval
      BY <2>3 DEF Package!MachineTick
    <3> QED  BY <3>1 DEF Package!NoInterval
  <2>4. CASE ticks # {}
    <3>1. Package!MachineTick = Package!Min(ticks)
      BY <2>4 DEF Package!MachineTick
    <3> HIDE DEF ticks
    <3> QED  BY <2>2, <2>4, <3>1, LeastOfThePackage
  <2> QED  BY <2>3, <2>4
<1>3. ASSUME Package!WaitingLoops # {}
      PROVE  Package!LoopWait \in Nat
  <2> DEFINE first == Package!Min(Package!WaitingLoops)
             body == Body[TaskOrder[first]]
             waits == Package!LiteralWaits(body)
             wait == Package!Min(waits)
  <2>1. first \in Package!WaitingLoops
    <3>1. Package!WaitingLoops \subseteq Nat
      BY TasksAssumption DEF Package!WaitingLoops, Package!Registered
    <3> QED  BY <1>3, <3>1, LeastOfThePackage
  <2>2. TaskOrder[first] \in Tasks /\ waits # {}
    <3> HIDE DEF first
    <3>1. first \in Package!Registered("loop") /\ waits # {}
      BY <2>1 DEF Package!WaitingLoops
    <3>2. first \in DOMAIN TaskOrder
      BY <3>1 DEF Package!Registered
    <3> QED  BY <3>1, <3>2, TasksAssumption
  <2>3. body \in Seq(Statements)
    BY <2>2, TasksAssumption
  <2>4. Package!LoopWait = body[wait].duration.value
    BY DEF Package!LoopWait
  <2> HIDE DEF first, body
  <2>5. waits \subseteq Nat
    BY <2>3 DEF Package!LiteralWaits
  <2>6. wait \in waits
    <3> HIDE DEF waits
    <3> QED  BY <2>2, <2>5, LeastOfThePackage
  <2>7. /\ wait \in DOMAIN body /\ body[wait].kind = "wait"
        /\ body[wait].duration.kind = "integer" /\ body[wait].duration.value >= 1
    BY <2>6 DEF Package!LiteralWaits
  <2> HIDE DEF wait
  <2>8. body[wait].duration \in Expressions
    <3>1. body[wait] \in Statements
      BY <2>3, <2>7
    <3> QED  BY <2>7, <3>1 DEF Statements, SimpleStatements
  <2>9. body[wait].duration.value \in Int
    BY <2>7, <2>8 DEF Expressions
  <2> QED  BY <2>4, <2>7, <2>9
<1> QED  BY <1>1, <1>2, <1>3

\* A step of a replay is a tick of some milliseconds or an event of the program.
ReplaySteps ==
  [kind : {"tick_ms"}, milliseconds : Nat] \cup [kind : {"dispatch_device_event"}, name : Events]

LEMMA StepsOfReplays == Steps \subseteq ReplaySteps
<1>1. ASSUME NEW milliseconds \in Nat
      PROVE  Package!Tick(milliseconds) \in ReplaySteps
  BY DEF Package!Tick, ReplaySteps
<1>2. Package!LiveTickInterval \in Nat
  BY IntervalsAreNatural DEF Package!LiveTickInterval, Package!DefaultTick
<1>3. ASSUME NEW name \in Events
      PROVE  Package!Dispatch(name) \in ReplaySteps
  BY DEF Package!Dispatch, ReplaySteps
<1>4. Package!WithoutEvery \in ReplaySteps
  <2>1. Package!DefaultTick \in Nat
    BY DEF Package!DefaultTick
  <2> QED  BY <1>1, <2>1, IntervalsAreNatural DEF Package!WithoutEvery
<1>5. Package!InferredStep \in ReplaySteps
  <2>1. CASE Package!Registered("every") # {}
    BY <1>1, <2>1, IntervalsAreNatural DEF Package!InferredStep
  <2>2. CASE /\ Package!Registered("every") = {} /\ Package!Registered("on_event") # {}
             /\ Trigger[Package!FirstOf("on_event")] = "device_event"
    <3>1. EventOf[Package!FirstOf("on_event")] \in Events
      BY <2>2, FirstOfAKind, ReplayAssumption
    <3> QED  BY <1>3, <2>2, <3>1 DEF Package!InferredStep
  <2>3. CASE /\ Package!Registered("every") = {}
             /\ ~ (/\ Package!Registered("on_event") # {}
                   /\ Trigger[Package!FirstOf("on_event")] = "device_event")
    BY <1>4, <2>3 DEF Package!InferredStep
  <2> QED  BY <2>1, <2>2, <2>3
<1>6. \A i \in DOMAIN Package!InferredReplay : Package!InferredReplay[i] \in ReplaySteps
  BY <1>5 DEF Package!InferredReplay
<1> QED  BY <1>1, <1>2, <1>3, <1>6, EnvironmentAssumption DEF Steps


------------------------------------------------------------------------------
(* The theorems. *)

ReplayInvariant ==
  /\ HostOK(host) /\ HostClocks(host)
  /\ IndInv /\ IdleIsQuiet /\ ClockInvariant
  /\ total = host.total

\* The simulator's inner steps take no time.
LEMMA InternalTakesNoTime == Internal => total' = total
BY DEF Internal, taskVars, dataVars, machineVars, callVars, runVars,
   Drain, ExecuteStatement, ExecuteWait, StopDrainedTask, FinishBody, ResumeWaitingTask,
   ChargeEveryTask, FireEveryTask, LeaveEveryTask, StartLoopTask, OfferEventToTask,
   ChargeMachine, LeaveMachine, TickMachine, SwitchLeaf, DispatchHook, StartLifecycleTask,
   BootMachine, NextPhase, FlushPendingEffects

LEMMA ReplayInvariantInit == ReplayInit => ReplayInvariant
<1> SUFFICES ASSUME ReplayInit PROVE ReplayInvariant
  OBVIOUS
<1>1. Init /\ host = Host!Constructed
  BY DEF ReplayInit, Host!Init
<1>2. IdleIsQuiet /\ total = 0
  BY <1>1 DEF Init, IdleIsQuiet
<1> QED
  BY <1>1, <1>2, ConstructedKeeps, InitInvariant, ClockInvariantInit DEF ReplayInvariant

\* A step of the replay, of the simulator inside a call, or none.
LEMMA ReplayInvariantStep == ReplayInvariant /\ [ReplayNext]_<<vars, host>> => ReplayInvariant'
<1> SUFFICES ASSUME ReplayInvariant, [ReplayNext]_<<vars, host>>
             PROVE  ReplayInvariant'
  OBVIOUS
<1>1. /\ HostOK(host) /\ HostClocks(host) /\ IndInv /\ IdleIsQuiet /\ ClockInvariant
      /\ total = host.total
  BY DEF ReplayInvariant
<1>2. ASSUME [Next]_vars
      PROVE  IndInv' /\ IdleIsQuiet' /\ ClockInvariant'
  BY <1>1, <1>2, NextInvariant, IdleIsQuietStep, ClockInvariantStep
<1>3. CASE Simulate
  <2>1. [Next]_vars /\ host' = host /\ total' = total
    BY <1>3, InternalTakesNoTime DEF Simulate, Next
  <2> QED  BY <1>1, <1>2, <2>1 DEF ReplayInvariant
<1>4. CASE UNCHANGED <<vars, host>>
  <2>1. [Next]_vars /\ host' = host /\ total' = total
    BY <1>4 DEF vars
  <2> QED  BY <1>1, <1>2, <2>1 DEF ReplayInvariant
<1>5. ASSUME NEW milliseconds \in Nat, TickMs(milliseconds)
      PROVE  ReplayInvariant'
  <2>1. BeginTick(milliseconds, << >>) /\ << >> \in Seq(Effects)
    BY <1>5 DEF TickMs
  <2>2. IndInv' /\ ClockInvariant'
    BY <1>1, <2>1, BeginTickInvariant, TickBeginsOnSchedule
  <2>3. IdleIsQuiet' /\ total' = total + milliseconds
    BY <2>1 DEF BeginTick, IdleIsQuiet
  <2>4. HostOK(host') /\ HostClocks(host') /\ host'.total = host.total + milliseconds
    <3>1. host' = IF milliseconds <= 0 THEN host
                  ELSE Host!Advance([host EXCEPT !.total = @ + milliseconds], milliseconds)
      BY <1>5 DEF TickMs, Host!TickMilliseconds
    <3>2. CASE milliseconds <= 0
      <4>1. host.total \in Nat
        BY <1>1 DEF HostOK, HostStates
      <4> QED  BY <1>1, <3>1, <3>2, <4>1
    <3>3. CASE ~ (milliseconds <= 0)
      BY <1>1, <3>1, <3>3, AdvanceKeeps
    <3> QED  BY <3>2, <3>3
  <2> QED  BY <1>1, <2>2, <2>3, <2>4 DEF ReplayInvariant
<1>6. ASSUME NEW name \in Events, DispatchDeviceEvent(name)
      PROVE  ReplayInvariant'
  <2>1. DispatchScriptEvent(name) /\ host' = Host!ForEach(Host!OfferEvent, name, host, TaskOrder)
    BY <1>6 DEF DispatchDeviceEvent, Host!DispatchDeviceEvent
  <2>2. [Next]_vars /\ total' = total
    <3>1. External
      BY <2>1 DEF External
    <3> QED  BY <2>1, <3>1 DEF Next, DispatchScriptEvent
  <2>3. host' \in From(host)
    BY <1>1, <2>1, OfferEventKeeps
  <2>4. HostOK(host') /\ HostClocks(host') /\ host'.total = host.total
    BY <1>1, <2>3, ClocksStay DEF From
  <2> QED  BY <1>1, <1>2, <2>2, <2>4 DEF ReplayInvariant
<1>7. ASSUME NEW step \in Steps, ReplayStep(step)
      PROVE  ReplayInvariant'
  <2>1. step \in ReplaySteps
    BY StepsOfReplays
  <2> QED  BY <1>5, <1>6, <1>7, <2>1 DEF ReplayStep, ReplaySteps
<1> QED  BY <1>3, <1>4, <1>7 DEF ReplayNext

\* The invariant of the replays.
THEOREM ReplayKeepsInvariant == ReplaySpec => []ReplayInvariant
<1> QED  BY ReplayInvariantInit, ReplayInvariantStep, PTL DEF ReplaySpec

\* No package and no replay sends the interpreter into the loop of
\* start_runnable_loop_tasks that has no budget: a loop body that has a wait
\* somewhere is parked or given up whenever it is drained, even if the wait is
\* not positive, stands behind statements that throw, or its state is left.
THEOREM HostNeverHangs ==
  ASSUME LoopsWait
  PROVE  ReplaySpec => [](host.outcome # "hung")
<1>1. ReplayInvariant => host.outcome # "hung"
  BY DEF ReplayInvariant, HostOK
<1> QED  BY <1>1, ReplayKeepsInvariant, PTL

\* A package whose event tasks do not wait and whose divisors never become zero
\* keeps the interpreter running: no statement, read, method, transition or
\* reference it meets is one that it would answer with an exception.
THEOREM AcceptedPackagesKeepRunning ==
  ASSUME LoopsWait, EventTasksNeverWait, DivisorsAreNotZero
  PROVE  ReplaySpec => []HostKeepsRunning
<1>1. ReplayInvariant => HostKeepsRunning
  BY DEF ReplayInvariant, HostOK, HostStates, HostKeepsRunning, Fits
<1> QED  BY <1>1, ReplayKeepsInvariant, PTL

\* The clocks of the simulator and of the interpreter, between two calls: what
\* has passed of the interval of a machine or of an every task is the same in
\* both, whatever their bodies and transitions did.
ClocksAgree ==
  (phase = "idle" /\ host.outcome = "running") =>
    /\ total = host.total
    /\ \A machine \in Machines : TickIntervalOf[machine] > 0 =>
         machineAccumulated[machine] = host.ticked[machine]
    /\ \A task \in Tasks : (RunMode[task] = "every" /\ running[task]) =>
         accumulated[task] = host.accumulated[task]

\* Whatever the program does in between, and whatever the two make of its
\* expressions, simulator and interpreter tick their machines and start their
\* every tasks at the same simulated times.
THEOREM BothKeepTheSameTime == ReplaySpec => []ClocksAgree
<1>1. ReplayInvariant => ClocksAgree
  <2> SUFFICES ASSUME ReplayInvariant, phase = "idle", host.outcome = "running"
               PROVE  /\ total = host.total
                      /\ \A machine \in Machines : TickIntervalOf[machine] > 0 =>
                           machineAccumulated[machine] = host.ticked[machine]
                      /\ \A task \in Tasks : (RunMode[task] = "every" /\ running[task]) =>
                           accumulated[task] = host.accumulated[task]
    BY DEF ClocksAgree
  <2>1. SchedulesDoNotDrift /\ total = host.total /\ HostClocks(host)
    BY OnScheduleWhenIdle DEF ReplayInvariant
  <2>2. \A task \in Tasks : task \notin Commanded
    BY ReplayAssumption
  <2> QED  BY <2>1, <2>2 DEF SchedulesDoNotDrift, HostClocks
<1> QED  BY <1>1, ReplayKeepsInvariant, PTL

==============================================================================
