----------------------------- MODULE MirrorProofs -----------------------------
(***************************************************************************)
(* For every program of RunsAlike and every replay the simulator and the   *)
(* C++ interpreter show the same traces.                                   *)
(*                                                                         *)
(* The interpreter has carried out a whole call when the simulator has     *)
(* only begun it.  So the invariant compares the interpreter's state with  *)
(* what the interpreter would make of the simulator's: it mirrors that     *)
(* state in one of its own (Alike), finishes from there the body, the      *)
(* hooks, the transition, the loop and the call that the simulator is in   *)
(* the middle of, and what it gets must be the state it has.               *)
(***************************************************************************)
EXTENDS ConformanceProofs

------------------------------------------------------------------------------
(* The simulator during a replay of such a program. *)

\* No task is stopped: every wait is valid, and the budget suffices.
AllTasksRun == running = [task \in Tasks |-> TRUE]
BudgetSuffices == draining # NoTask => Len(Body[draining]) - programCounter[draining] < budget
EventTasksRest == \A task \in Tasks : RunMode[task] = "on_event" => resumeAt[task] = NotWaiting

\* A loop that was started has a wait before it.
WaitsAhead(task) ==
  \E i \in programCounter[task]..Len(Body[task]) : Body[task][i].kind = "wait"

\* Each loop of the runtime drains its own kind of task.
BodiesOfThePhase ==
  draining # NoTask =>
    /\ phase \in {"resume", "machines", "every", "loops", "event"}
    /\ phase = "resume" => RunMode[draining] # "on_event"
    /\ phase = "every" => RunMode[draining] = "every"
    /\ phase = "loops" => RunMode[draining] = "loop" /\ WaitsAhead(draining)
    /\ phase \in {"machines", "event"} => RunMode[draining] = "on_event"

\* States are left, and hooks run, in advanceStateMachines only.
PlansOfThePhase ==
  /\ hookTasks # {} => phase = "machines"
  /\ plan # << >> => phase \in {"boot", "machines"}
  /\ \A i \in DOMAIN plan : plan[i].hook # "enter" => phase = "machines"

\* The clocks a program reads belong to states that are not entered again.
TimedStatesStay ==
  /\ \A path \in TimedPaths : entryTime[path] = 0
  /\ \A i \in DOMAIN plan : plan[i].hook = "switch" =>
       \A path \in TimedPaths :
         Encloses(path, plan[i].path) => Encloses(path, activeLeaf[plan[i].path[1]])

\* Nobody writes the sensor.
SensorsStay ==
  /\ "adc" \in Devices => devices["adc"] = Host!DefaultAdc0Raw
  /\ \A i \in DOMAIN pendingEffects : pendingEffects[i].device # "adc"

Undisturbed ==
  /\ AllTasksRun /\ BudgetSuffices /\ EventTasksRest /\ BodiesOfThePhase
  /\ PlansOfThePhase /\ TimedStatesStay /\ SensorsStay

\* What is known of the simulator when one of its steps is considered.
Simulated == IndInv /\ IdleIsQuiet /\ TickInProgress /\ TransitionInvariant /\ Undisturbed

\* The statement a body has come to.
LEMMA StatementOfABody ==
  ASSUME RunsAlike, Simulated, AtStatement
  PROVE  /\ draining \in Tasks /\ programCounter[draining] \in DOMAIN Body[draining]
         /\ Statement \in Statements /\ Statement \in ProgramStatements
         /\ Package!SupportedStatement(Statement)
         /\ budget > 0
         /\ Statement.kind = "wait" =>
              /\ Statement.duration.kind = "integer" /\ Statement.duration.value > 0
              /\ ValidWait /\ Value(Statement.duration) = Statement.duration.value
              /\ RunMode[draining] # "on_event"
<1>1. /\ draining \in Tasks /\ programCounter[draining] \in Nat
      /\ programCounter[draining] >= 1 /\ budget \in Nat
  BY DEF Simulated, IndInv, TypeOK, DrainedTaskMoves, AtStatement
<1>2. Body[draining] \in Seq(Statements)
  BY <1>1, TasksAssumption
<1>3. programCounter[draining] \in DOMAIN Body[draining]
  BY <1>1, <1>2 DEF AtStatement
<1>4. /\ Statement \in Statements /\ Statement \in ProgramStatements
      /\ Package!SupportedStatement(Statement)
  BY <1>1, <1>3, StatementsAreAccepted DEF Statement
<1>5. budget > 0
  <2>1. Len(Body[draining]) \in Nat
    BY <1>2
  <2>2. Len(Body[draining]) - programCounter[draining] < budget
    BY DEF Simulated, Undisturbed, BudgetSuffices, AtStatement
  <2> QED  BY <1>1, <2>1, <2>2 DEF AtStatement
<1>6. ASSUME Statement.kind = "wait"
      PROVE  /\ Statement.duration.kind = "integer" /\ Statement.duration.value > 0
             /\ ValidWait /\ Value(Statement.duration) = Statement.duration.value
             /\ RunMode[draining] # "on_event"
  <2>1. Statement.duration.kind = "integer" /\ Statement.duration.value > 0
    BY <1>4, <1>6 DEF RunsAlike, WaitsAreWritten
  <2>2. Value(Statement.duration) = Statement.duration.value
    BY <2>1 DEF Value
  <2>3. RunMode[draining] # "on_event"
    BY <1>1, <1>3, <1>6 DEF RunsAlike, EventTasksNeverWait, Statement
  <2> QED  BY <2>1, <2>2, <2>3 DEF ValidWait, Defined
<1> QED  BY <1>1, <1>3, <1>4, <1>5, <1>6

\* No task is stopped.
LEMMA NobodyIsStopped == RunsAlike /\ Simulated => ~ StopDrainedTask
BY StatementOfABody DEF StopDrainedTask

\* The simulator starts undisturbed.
LEMMA UndisturbedInit == RunsAlike /\ Init => Undisturbed
<1> SUFFICES ASSUME RunsAlike, Init PROVE Undisturbed
  OBVIOUS
<1> USE DEF Init
<1>1. AllTasksRun /\ BudgetSuffices /\ EventTasksRest /\ BodiesOfThePhase /\ PlansOfThePhase
  BY DEF AllTasksRun, BudgetSuffices, EventTasksRest, BodiesOfThePhase, PlansOfThePhase
<1>2. SensorsStay
  BY DEF RunsAlike, SensorsAreAtDefault, SensorsStay
<1>3. ASSUME NEW path \in TimedPaths
      PROVE  entryTime[path] = 0
  <2>1. PICK machine \in Machines : path \in PrefixSet(InitialLeaf[machine])
    BY DEF RunsAlike, TimedStatesAreInitial
  <2>2. path \in Paths
    <3>1. InitialLeaf[machine] \in Nodes
      BY MachinesAssumption DEF Leaves
    <3> QED  BY <2>1, <3>1 DEF Paths
  <2> QED  BY <2>1, <2>2
<1>4. TimedStatesStay
  BY <1>3 DEF TimedStatesStay
<1> QED  BY <1>1, <1>2, <1>4 DEF Undisturbed

\* What the simulator does in a replay: nobody starts or stops a task, types a
\* line or moves a sensor.
Proceeds ==
  \/ Internal
  \/ \E milliseconds \in Nat : BeginTick(milliseconds, << >>)
  \/ \E name \in Events : DispatchScriptEvent(name)

\* The budget suffices for a body that is begun or resumed.
LEMMA BudgetOfABody ==
  ASSUME RunsAlike, NEW task \in Tasks, draining' = task, budget' = StatementBudget,
         programCounter'[task] \in Nat, programCounter'[task] >= 1
  PROVE  BudgetSuffices'
<1>1. Len(Body[task]) <= StatementBudget /\ Len(Body[task]) \in Nat /\ StatementBudget \in Nat
  BY TasksAssumption, EnvironmentAssumption DEF RunsAlike, BodiesAreShort
<1> QED  BY <1>1 DEF BudgetSuffices

\* A loop body waits somewhere.
LEMMA LoopBodyWaits ==
  ASSUME RunsAlike, NEW task \in Tasks, RunMode[task] = "loop", programCounter'[task] = 1
  PROVE  WaitsAhead(task)'
<1>1. PICK i \in DOMAIN Body[task] : Body[task][i].kind = "wait"
  BY DEF RunsAlike, LoopsWait
<1>2. i \in 1..Len(Body[task])
  BY <1>1, TasksAssumption
<1> QED  BY <1>1, <1>2 DEF WaitsAhead

\* Nothing in a replay stops a task: all of them go on being executed.
LEMMA RunningStays ==
  ASSUME RunsAlike, Simulated, Proceeds
  PROVE  AllTasksRun'
<1>1. running' = running
  BY NobodyIsStopped
  DEF Proceeds, Internal, taskVars, dataVars, machineVars, callVars, runVars,
      Drain, ExecuteStatement, ExecuteWait, FinishBody, ResumeWaitingTask,
      ChargeEveryTask, FireEveryTask, LeaveEveryTask, StartLoopTask, OfferEventToTask,
      ChargeMachine, LeaveMachine, TickMachine, SwitchLeaf, DispatchHook, StartLifecycleTask,
      BootMachine, NextPhase, FlushPendingEffects, BeginTick, DispatchScriptEvent
<1> QED  BY <1>1 DEF Simulated, Undisturbed, AllTasksRun

\* What of Undisturbed concerns the bodies.
BodiesAreFine == BudgetSuffices /\ EventTasksRest /\ BodiesOfThePhase

\* A statement, a wait and the end of a body leave the bodies in order.
LEMMA BodiesStayFineInTheBody ==
  ASSUME RunsAlike, Simulated, Drain
  PROVE  BodiesAreFine'
<1> USE DEF taskVars, dataVars, machineVars, callVars, runVars
<1>0. /\ programCounter \in [Tasks -> Nat] /\ resumeAt \in [Tasks -> Nat] /\ budget \in Nat
      /\ draining \in Tasks \cup {NoTask}
  BY DEF Simulated, IndInv, TypeOK
<1>1. BudgetSuffices /\ EventTasksRest /\ BodiesOfThePhase
  BY DEF Simulated, Undisturbed
<1>2. CASE ExecuteStatement
  <2>1. /\ AtStatement /\ draining' = draining /\ phase' = phase /\ resumeAt' = resumeAt
        /\ programCounter' = [programCounter EXCEPT ![draining] = @ + 1]
        /\ budget' = budget - 1 /\ Statement.kind # "wait"
    BY <1>2 DEF ExecuteStatement
  <2>2. draining \in Tasks /\ programCounter'[draining] = programCounter[draining] + 1
    BY <1>0, <2>1 DEF AtStatement
  <2>3. Len(Body[draining]) \in Nat
    BY <2>2, TasksAssumption
  <2>4. BudgetSuffices'
    BY <1>0, <1>1, <2>1, <2>2, <2>3 DEF BudgetSuffices, AtStatement
  <2>5. WaitsAhead(draining) => WaitsAhead(draining)'
    <3> SUFFICES ASSUME WaitsAhead(draining) PROVE WaitsAhead(draining)'
      OBVIOUS
    <3>1. PICK i \in programCounter[draining]..Len(Body[draining]) : Body[draining][i].kind = "wait"
      BY DEF WaitsAhead
    <3>2. i # programCounter[draining]
      BY <2>1, <3>1 DEF Statement
    <3>3. i \in (programCounter[draining] + 1)..Len(Body[draining])
      BY <1>0, <2>2, <2>3, <3>1, <3>2
    <3> QED  BY <2>1, <2>2, <3>1, <3>3 DEF WaitsAhead
  <2>6. BodiesOfThePhase'
    BY <1>1, <2>1, <2>2, <2>5 DEF BodiesOfThePhase, AtStatement
  <2> QED  BY <1>1, <2>1, <2>4, <2>6 DEF BodiesAreFine, EventTasksRest
<1>3. CASE ExecuteWait
  <2>1. /\ AtStatement /\ draining' = NoTask /\ phase' = phase /\ Statement.kind = "wait"
        /\ \E time : resumeAt' = [resumeAt EXCEPT ![draining] = time]
    BY <1>3 DEF ExecuteWait
  <2>2. draining \in Tasks /\ RunMode[draining] # "on_event"
    BY <2>1, StatementOfABody
  <2> QED
    BY <1>0, <1>1, <2>1, <2>2 DEF BodiesAreFine, BudgetSuffices, EventTasksRest, BodiesOfThePhase
<1>4. CASE FinishBody
  BY <1>1, <1>4 DEF FinishBody, BodiesAreFine, BudgetSuffices, EventTasksRest, BodiesOfThePhase
<1> QED  BY <1>2, <1>3, <1>4, NobodyIsStopped DEF Drain

\* A loop that begins or resumes the body of a task begins one of its own kind,
\* with a whole budget and, if it is the loop of the loops, a wait ahead.
LEMMA BodiesBeginFine ==
  ASSUME RunsAlike, Simulated,
         ResumeWaitingTask \/ FireEveryTask \/ StartLoopTask \/ OfferEventToTask
  PROVE  BodiesAreFine'
<1> USE DEF taskVars, dataVars, machineVars, callVars, runVars
<1>0. /\ programCounter \in [Tasks -> Nat] /\ resumeAt \in [Tasks -> Nat]
      /\ draining = NoTask /\ Current \in Tasks /\ Current # NoTask
  <2>1. Current \in Tasks
    BY CursorType
    DEF Simulated, IndInv, ResumeWaitingTask, FireEveryTask, StartLoopTask, OfferEventToTask, AtTask
  <2> QED
    BY <2>1, TasksAssumption
    DEF Simulated, IndInv, TypeOK, ResumeWaitingTask, FireEveryTask, StartLoopTask,
        OfferEventToTask, AtTask, Quiet
<1>1. EventTasksRest /\ phase' = phase
  BY DEF Simulated, Undisturbed, ResumeWaitingTask, FireEveryTask, StartLoopTask, OfferEventToTask
<1>2. CASE draining' = NoTask
  <2>1. \A task \in Tasks : resumeAt'[task] = NotWaiting \/ resumeAt'[task] = resumeAt[task]
    BY <1>0 DEF ResumeWaitingTask, FireEveryTask, StartLoopTask, OfferEventToTask
  <2> QED
    BY <1>1, <1>2, <2>1 DEF BodiesAreFine, BudgetSuffices, EventTasksRest, BodiesOfThePhase
<1>3. CASE draining' # NoTask
  <2>1. BeginDrain(Current)
    BY <1>0, <1>3 DEF ResumeWaitingTask, FireEveryTask, StartLoopTask, OfferEventToTask
  <2>2. draining' = Current /\ budget' = StatementBudget
    BY <2>1 DEF BeginDrain
  <2>3. CASE ResumeWaitingTask
    <3>1. CanResume(Current) /\ programCounter' = programCounter
          /\ resumeAt' = [resumeAt EXCEPT ![Current] = NotWaiting] /\ phase = "resume"
      BY <1>0, <1>3, <2>3 DEF ResumeWaitingTask
    <3>2. programCounter[Current] > 1
      BY <1>0, <3>1 DEF Simulated, IndInv, ParkedTasksHaveAWakeUp, CanResume
    <3>3. BudgetSuffices'
      BY <1>0, <2>2, <3>1, <3>2, BudgetOfABody
    <3>4. EventTasksRest'
      BY <1>0, <1>1, <3>1 DEF EventTasksRest
    <3>5. BodiesOfThePhase'
      BY <1>0, <1>1, <2>2, <3>1 DEF BodiesOfThePhase, CanResume
    <3> QED  BY <3>3, <3>4, <3>5 DEF BodiesAreFine
  <2>4. CASE FireEveryTask \/ StartLoopTask \/ OfferEventToTask
    <3>1. programCounter' = [programCounter EXCEPT ![Current] = 1] /\ resumeAt' = resumeAt
      BY <1>0, <1>3, <2>4 DEF FireEveryTask, StartLoopTask, OfferEventToTask
    <3>2. programCounter'[Current] = 1
      BY <1>0, <3>1
    <3>3. BudgetSuffices'
      BY <1>0, <2>2, <3>2, BudgetOfABody
    <3>4. EventTasksRest'
      BY <1>1, <3>1 DEF EventTasksRest
    <3>5. CASE FireEveryTask
      <4>1. RunMode[Current] = "every" /\ phase = "every"
        BY <3>5 DEF Simulated, TransitionInvariant, FireEveryTask
      <4> QED  BY <1>1, <2>2, <3>3, <3>4, <4>1 DEF BodiesAreFine, BodiesOfThePhase
    <3>6. CASE StartLoopTask
      <4>1. RunMode[Current] = "loop" /\ phase = "loops"
        BY <1>0, <1>3, <3>6 DEF StartLoopTask, CanStartLoop
      <4>2. PICK task \in Tasks : task = Current
        BY <1>0
      <4>3. WaitsAhead(task)'
        BY <3>2, <4>1, <4>2, LoopBodyWaits
      <4>4. draining' = task
        BY <2>2, <4>2
      <4>5. WaitsAhead(draining)'
        BY <4>3, <4>4 DEF WaitsAhead
      <4>6. BodiesOfThePhase'
        BY <1>1, <4>1, <4>2, <4>4, <4>5 DEF BodiesOfThePhase
      <4> QED  BY <3>3, <3>4, <4>6 DEF BodiesAreFine
    <3>7. CASE OfferEventToTask
      <4>1. RunMode[Current] = "on_event" /\ phase = "event"
        BY <1>0, <1>3, <3>7 DEF OfferEventToTask, CanBeOffered
      <4> QED  BY <1>1, <2>2, <3>3, <3>4, <4>1 DEF BodiesAreFine, BodiesOfThePhase
    <3> QED  BY <2>4, <3>5, <3>6, <3>7
  <2> QED  BY <2>3, <2>4
<1> QED  BY <1>2, <1>3

\* A hook begins the body of a lifecycle task, during a state tick only.
LEMMA LifecycleBodiesBeginFine ==
  ASSUME RunsAlike, Simulated, StartLifecycleTask
  PROVE  BodiesAreFine'
<1> USE DEF taskVars, dataVars, machineVars, callVars, runVars
<1>1. PICK next \in hookTasks :
        /\ hookTasks' = hookTasks \ {next}
        /\ IF running[TaskOrder[next]]
             THEN StartHookTask(TaskOrder[next])
             ELSE UNCHANGED <<resumeAt, programCounter, draining, budget>>
  BY DEF StartLifecycleTask
<1>2. PICK task : task = TaskOrder[next]
  OBVIOUS
<1>3. /\ task \in Tasks /\ RunMode[task] = "on_event" /\ task # NoTask
      /\ programCounter \in [Tasks -> Nat] /\ resumeAt \in [Tasks -> Nat]
      /\ draining = NoTask /\ phase' = phase /\ phase = "machines"
  <2>1. task \in LifecycleTaskSet
    BY <1>1, <1>2 DEF Simulated, IndInv, HooksStartLifecycleTasks
  <2>2. hookTasks # {}
    BY <1>1
  <2>3. phase = "machines"
    BY <2>2 DEF Simulated, Undisturbed, PlansOfThePhase
  <2> QED
    BY <2>1, <2>3, TasksAssumption DEF LifecycleTaskSet, Simulated, IndInv, TypeOK, StartLifecycleTask
<1>4. EventTasksRest
  BY DEF Simulated, Undisturbed
<1>5. CASE draining' = NoTask
  <2>1. \A other \in Tasks : resumeAt'[other] = NotWaiting \/ resumeAt'[other] = resumeAt[other]
    BY <1>1, <1>2, <1>3 DEF StartHookTask
  <2> QED
    BY <1>3, <1>4, <1>5, <2>1 DEF BodiesAreFine, BudgetSuffices, EventTasksRest, BodiesOfThePhase
<1>6. CASE draining' # NoTask
  <2>1. /\ BeginDrain(task) /\ programCounter' = [programCounter EXCEPT ![task] = 1]
        /\ resumeAt' = [resumeAt EXCEPT ![task] = NotWaiting]
    BY <1>1, <1>2, <1>3, <1>6 DEF StartHookTask
  <2>2. draining' = task /\ budget' = StatementBudget /\ programCounter'[task] = 1
    BY <1>3, <2>1 DEF BeginDrain
  <2>3. BudgetSuffices'
    BY <1>3, <2>2, BudgetOfABody
  <2>4. EventTasksRest'
    BY <1>3, <1>4, <2>1 DEF EventTasksRest
  <2>5. BodiesOfThePhase'
    BY <1>3, <2>2 DEF BodiesOfThePhase
  <2> QED  BY <2>3, <2>4, <2>5 DEF BodiesAreFine
<1> QED  BY <1>5, <1>6

\* The other steps touch no body.
LEMMA BodiesStayFine ==
  ASSUME RunsAlike, Simulated, Proceeds
  PROVE  BodiesAreFine'
<1>1. CASE Drain
  BY <1>1, BodiesStayFineInTheBody
<1>2. CASE ResumeWaitingTask \/ FireEveryTask \/ StartLoopTask \/ OfferEventToTask
  BY <1>2, BodiesBeginFine
<1>3. CASE StartLifecycleTask
  BY <1>3, LifecycleBodiesBeginFine
<1>4. CASE \/ ChargeEveryTask \/ LeaveEveryTask \/ ChargeMachine \/ LeaveMachine \/ TickMachine
           \/ SwitchLeaf \/ DispatchHook \/ BootMachine \/ NextPhase \/ FlushPendingEffects
           \/ (\E milliseconds \in Nat : BeginTick(milliseconds, << >>))
           \/ (\E name \in Events : DispatchScriptEvent(name))
  <2> USE DEF taskVars, dataVars, machineVars, callVars, runVars
  <2>1. /\ BudgetSuffices /\ EventTasksRest /\ BodiesOfThePhase
    BY DEF Simulated, Undisturbed
  <2>2. /\ draining = NoTask /\ draining' = NoTask /\ resumeAt' = resumeAt
    BY <1>4
    DEF Simulated, IdleIsQuiet, Quiet, ChargeEveryTask, LeaveEveryTask, AtTask, ChargeMachine,
        LeaveMachine, TickMachine, AtMachine, SwitchLeaf, DispatchHook, BootMachine, NextPhase,
        FlushPendingEffects, BeginTick, DispatchScriptEvent
  <2> QED  BY <2>1, <2>2 DEF BodiesAreFine, BudgetSuffices, EventTasksRest, BodiesOfThePhase
<1> QED  BY <1>1, <1>2, <1>3, <1>4 DEF Proceeds, Internal

\* A hook that is planned.
LEMMA NoStateEnterTask ==
  ASSUME RunsAlike, NEW path
  PROVE  HookTasks("enter", path) = {}
<1>1. \A i \in 1..Len(TaskOrder) : TaskOrder[i] \in Tasks
  BY DEF Tasks
<1> QED  BY <1>1 DEF RunsAlike, NoEnterTasks, HookTasks

\* A plan without its first entry.
LEMMA TailOf ==
  ASSUME Simulated, plan # << >>, plan' = Tail(plan)
  PROVE  /\ Len(plan) \in Nat \ {0} /\ Len(plan') = Len(plan) - 1
         /\ DOMAIN plan = 1..Len(plan) /\ DOMAIN plan' = 1..Len(plan')
         /\ \A i \in DOMAIN plan' : plan'[i] = plan[i + 1] /\ i + 1 \in DOMAIN plan
<1>1. /\ plan \in Seq(PlanSteps) /\ plan' \in Seq(PlanSteps)
      /\ Len(plan) \in Nat \ {0} /\ Len(plan') = Len(plan) - 1
      /\ \A i \in 1..Len(plan') : plan'[i] = plan[i + 1]
  <2>1. plan \in Seq(PlanSteps)
    BY DEF Simulated, IndInv, TypeOK
  <2> QED  BY <2>1
<1>2. DOMAIN plan = 1..Len(plan) /\ DOMAIN plan' = 1..Len(plan')
  BY <1>1
<1> QED  BY <1>1, <1>2

\* No state is left, and no hook runs, but in advanceStateMachines.
LEMMA PlansOfThePhaseStep ==
  ASSUME RunsAlike, Simulated, Proceeds
  PROVE  PlansOfThePhase'
<1> USE DEF taskVars, dataVars, machineVars, callVars, runVars
<1>0. PlansOfThePhase
  BY DEF Simulated, Undisturbed
<1>1. CASE Drain
  BY <1>0, <1>1 DEF Drain, ExecuteStatement, ExecuteWait, StopDrainedTask, FinishBody, PlansOfThePhase
<1>2. CASE \/ ResumeWaitingTask \/ ChargeEveryTask \/ FireEveryTask \/ LeaveEveryTask
           \/ StartLoopTask \/ OfferEventToTask \/ ChargeMachine \/ LeaveMachine \/ NextPhase
           \/ FlushPendingEffects
           \/ (\E milliseconds \in Nat : BeginTick(milliseconds, << >>))
           \/ (\E name \in Events : DispatchScriptEvent(name))
  <2>1. plan' = << >> /\ hookTasks' = {}
    BY <1>2
    DEF Simulated, IdleIsQuiet, Quiet, ResumeWaitingTask, ChargeEveryTask, FireEveryTask,
        LeaveEveryTask, StartLoopTask, OfferEventToTask, AtTask, ChargeMachine, LeaveMachine,
        AtMachine, NextPhase, FlushPendingEffects, BeginTick, DispatchScriptEvent
  <2> QED  BY <2>1 DEF PlansOfThePhase
<1>3. CASE TickMachine
  BY <1>3 DEF TickMachine, AtMachine, Quiet, PlansOfThePhase
<1>4. CASE SwitchLeaf \/ DispatchHook
  <2>1. plan # << >> /\ plan' = Tail(plan) /\ phase' = phase
    BY <1>4 DEF SwitchLeaf, DispatchHook
  <2>2. \A i \in DOMAIN plan' : plan'[i] = plan[i + 1] /\ i + 1 \in DOMAIN plan
    BY <2>1, TailOf
  <2>3. 1 \in DOMAIN plan
    BY <2>1, TailOf
  <2>4. hookTasks' # {} => phase = "machines"
    <3>1. CASE SwitchLeaf
      BY <1>0, <3>1 DEF SwitchLeaf, PlansOfThePhase
    <3>2. CASE DispatchHook /\ plan[1].hook = "enter"
      BY <3>2, NoStateEnterTask DEF DispatchHook
    <3>3. CASE DispatchHook /\ plan[1].hook = "exit"
      BY <1>0, <2>3, <3>3 DEF PlansOfThePhase
    <3> QED  BY <1>4, <3>1, <3>2, <3>3 DEF DispatchHook
  <2>5. plan' # << >> => phase \in {"boot", "machines"}
    BY <1>0, <2>1 DEF PlansOfThePhase
  <2> QED  BY <1>0, <2>1, <2>2, <2>4, <2>5 DEF PlansOfThePhase
<1>5. CASE StartLifecycleTask
  <2>1. hookTasks # {} /\ plan' = plan /\ phase' = phase
    BY <1>5 DEF StartLifecycleTask
  <2> QED  BY <1>0, <2>1 DEF PlansOfThePhase
<1>6. CASE BootMachine
  <2>1. /\ plan' = Hooks("enter", EnumeratePrefixes(activeLeaf[Machine]))
        /\ hookTasks' = {} /\ phase' = "boot"
    BY <1>6 DEF BootMachine, AtMachine, Quiet
  <2>2. \A i \in DOMAIN plan' : plan'[i].hook = "enter"
    BY <2>1 DEF Hooks
  <2> QED  BY <2>1, <2>2 DEF PlansOfThePhase
<1> QED  BY <1>1, <1>2, <1>3, <1>4, <1>5, <1>6 DEF Proceeds, Internal

\* A timed state is a state.
LEMMA TimedPathsType == RunsAlike => TimedPaths \subseteq Paths /\ TimedPaths \subseteq Seq(STRING) \ {NoPath}
<1> SUFFICES ASSUME RunsAlike, NEW path \in TimedPaths
             PROVE  path \in Paths /\ path \in Seq(STRING) \ {NoPath}
  OBVIOUS
<1>1. PICK machine \in Machines : path \in PrefixSet(InitialLeaf[machine])
  BY DEF RunsAlike, TimedStatesAreInitial
<1>2. PICK leaf \in LeavesOf(machine) : leaf = InitialLeaf[machine]
  BY ResolutionAssumption
<1>3. PICK n \in 1..Len(leaf) : path = Ancestor(leaf, n)
  BY <1>1, <1>2 DEF PrefixSet
<1>4. path \in Paths
  BY <1>2, <1>3, LeafPath
<1>5. path \in Seq(STRING) /\ Len(path) = n
  BY <1>2, <1>3, LeafPath, AncestorPath
<1> QED  BY <1>4, <1>5 DEF NoPath

\* The scope a taken transition is from.
LEMMA ScopeOfATransition ==
  ASSUME NEW machine \in Machines, activeLeaf[machine] \in LeavesOf(machine),
         NEW taken \in Taken(machine)
  PROVE  \E scope \in 0..Len(activeLeaf[machine]) :
           \E i \in DOMAIN TransitionsIn(machine, scope) :
             /\ taken = <<scope, i>>
             /\ TargetLeaf(machine, taken) = ResolveLeaf[TransitionsIn(machine, scope)[i].target]
<1> DEFINE leaf == activeLeaf[machine]
<1>1. taken \in Firing(machine)
  BY DEF Taken
<1>2. PICK scope \in 0..Len(leaf) :
        \E i \in DOMAIN TransitionsIn(machine, scope) : taken = <<scope, i>>
  <2> DEFINE At(scope) ==
        {<<scope, i>> : i \in {k \in DOMAIN TransitionsIn(machine, scope) :
                                Holds(TransitionsIn(machine, scope)[k].when)}}
  <2>1. PICK scope \in 0..Len(leaf) : taken \in At(scope)
    BY <1>1 DEF Firing
  <2>2. \E i \in DOMAIN TransitionsIn(machine, scope) : taken = <<scope, i>>
    BY <2>1
  <2> QED BY <2>2
<1>3. PICK i \in DOMAIN TransitionsIn(machine, scope) : taken = <<scope, i>>
  BY <1>2
<1>4. TargetLeaf(machine, taken) = ResolveLeaf[TransitionsIn(machine, scope)[i].target]
  BY <1>3 DEF TargetLeaf
<1> QED  BY <1>3, <1>4

\* A transition that leads into a timed state starts in it.
LEMMA TimedStatesAreNotEntered ==
  ASSUME RunsAlike, TypeOK, NEW machine \in Machines, activeLeaf[machine] \in LeavesOf(machine),
         NEW taken \in Taken(machine), NEW path \in TimedPaths,
         Encloses(path, TargetLeaf(machine, taken))
  PROVE  Encloses(path, activeLeaf[machine])
<1>0. PICK leaf \in LeavesOf(machine) : leaf = activeLeaf[machine]
  OBVIOUS
<1>1. PICK new \in LeavesOf(machine) : new = TargetLeaf(machine, taken)
  BY TargetIsOwnLeaf
<1>2. path \in Seq(STRING) /\ Len(path) > 0 /\ Len(path) \in Nat
  BY TimedPathsType DEF NoPath
<1>3. /\ leaf \in Seq(STRING) /\ Len(leaf) \in Nat \ {0} /\ leaf[1] = machine
      /\ new \in Seq(STRING) /\ Len(new) \in Nat \ {0} /\ new[1] = machine
  BY LeafPath
<1>4. PICK scope \in 0..Len(leaf) : \E i \in DOMAIN TransitionsIn(machine, scope) :
        new = ResolveLeaf[TransitionsIn(machine, scope)[i].target]
  BY <1>0, <1>1, ScopeOfATransition
<1>5. PICK i \in DOMAIN TransitionsIn(machine, scope) :
        new = ResolveLeaf[TransitionsIn(machine, scope)[i].target]
  BY <1>4
<1>6. NeverEnteredAgain(path)
  BY DEF RunsAlike, TimedStatesAreInitial
<1>7. CASE scope = 0
  <2>1. TransitionsIn(machine, scope) = GlobalTransitions[machine]
    BY <1>7 DEF TransitionsIn
  <2>2. i \in DOMAIN GlobalTransitions[machine]
        /\ new = ResolveLeaf[GlobalTransitions[machine][i].target]
    BY <1>5, <2>1
  <2>3. Len(path) = 1
    BY <1>1, <1>6, <2>2 DEF NeverEnteredAgain
  <2>4. path[1] = new[1]
    BY <1>1, <2>3 DEF Encloses
  <2> QED  BY <1>0, <1>3, <2>3, <2>4 DEF Encloses
<1>8. CASE scope # 0
  <2>1. PICK n \in 1..Len(leaf) : n = Len(leaf) - scope + 1
    BY <1>3, <1>8
  <2>2. PICK node : node = Ancestor(leaf, n)
    OBVIOUS
  <2>3. TransitionsIn(machine, scope) = IF node \in Nodes THEN LocalTransitions[node] ELSE << >>
    BY <1>0, <1>8, <2>1, <2>2 DEF TransitionsIn
  <2>4. node \in Nodes /\ TransitionsIn(machine, scope) = LocalTransitions[node]
    BY <1>5, <2>3
  <2>5. i \in DOMAIN LocalTransitions[node]
        /\ new = ResolveLeaf[LocalTransitions[node][i].target]
    BY <1>5, <2>4
  <2>6. Encloses(path, node)
    BY <1>1, <1>6, <2>4, <2>5 DEF NeverEnteredAgain
  <2>7. Len(node) = n /\ \A k \in 1..n : node[k] = leaf[k]
    BY <1>3, <2>2, AncestorPath
  <2> QED  BY <1>0, <1>2, <1>3, <2>6, <2>7 DEF Encloses
<1> QED  BY <1>7, <1>8

\* The states whose clocks a program reads are not entered a second time: a
\* transition that leads into one of them starts inside it.
LEMMA TimedStatesStayStep ==
  ASSUME RunsAlike, Simulated, Proceeds
  PROVE  TimedStatesStay'
<1> USE DEF taskVars, dataVars, machineVars, callVars, runVars
<1>0. TimedStatesStay
  BY DEF Simulated, Undisturbed
<1>1. CASE Drain
  BY <1>0, <1>1 DEF Drain, ExecuteStatement, ExecuteWait, StopDrainedTask, FinishBody, TimedStatesStay
<1>2. CASE \/ ResumeWaitingTask \/ ChargeEveryTask \/ FireEveryTask \/ LeaveEveryTask
           \/ StartLoopTask \/ OfferEventToTask \/ ChargeMachine \/ LeaveMachine \/ NextPhase
           \/ FlushPendingEffects
           \/ (\E milliseconds \in Nat : BeginTick(milliseconds, << >>))
           \/ (\E name \in Events : DispatchScriptEvent(name))
  <2>1. plan' = << >> /\ entryTime' = entryTime
    BY <1>2
    DEF Simulated, IdleIsQuiet, Quiet, ResumeWaitingTask, ChargeEveryTask, FireEveryTask,
        LeaveEveryTask, StartLoopTask, OfferEventToTask, AtTask, ChargeMachine, LeaveMachine,
        AtMachine, NextPhase, FlushPendingEffects, BeginTick, DispatchScriptEvent
  <2> QED  BY <1>0, <2>1 DEF TimedStatesStay
<1>3. CASE TickMachine
  <2>1. entryTime' = entryTime /\ activeLeaf' = activeLeaf
    BY <1>3 DEF TickMachine
  <2>2. Machine \in Machines
    BY <1>3, CursorType DEF Simulated, IndInv, TickMachine
  <2>3. PICK machine \in Machines : machine = Machine
    BY <2>2
  <2>4. PICK old \in LeavesOf(machine) : old = activeLeaf[machine]
    BY DEF Simulated, TransitionInvariant
  <2>5. CASE plan' = << >>
    BY <1>0, <2>1, <2>5 DEF TimedStatesStay
  <2>6. CASE plan' # << >>
    <3>1. PICK taken \in Taken(machine) : plan' = TransitionPlan(old, TargetLeaf(machine, taken))
      BY <1>3, <2>3, <2>4, <2>6 DEF TickMachine
    <3>2. PICK new \in LeavesOf(machine) : new = TargetLeaf(machine, taken)
      BY <2>4, TargetIsOwnLeaf DEF Simulated, IndInv
    <3>3. PICK at : Leads(plan', old, new, CommonLength(old, new), at)
      BY <3>1, <3>2, LeafPath, TransitionPlanSteps
    <3>4. PICK steps : steps = plan'
      OBVIOUS
    <3>5. ASSUME NEW i \in DOMAIN steps, steps[i].hook = "switch"
          PROVE  steps[i].path = new
      <4>1. steps \in Seq(PlanSteps)
        <5>1. Next
          BY <1>3 DEF Next, Internal
        <5> QED  BY <3>4, <5>1, NextInvariant DEF Simulated, IndInv, TypeOK
      <4>2. i \in 1..Len(steps) /\ Len(steps) \in Nat
        BY <4>1
      <4>3. Leads(steps, old, new, CommonLength(old, new), at)
        BY <3>3, <3>4
      <4>4. CASE i < at
        <5>1. i \in 1..(at - 1)
          BY <4>2, <4>3, <4>4 DEF Leads
        <5> QED  BY <3>5, <4>3, <5>1 DEF Leads
      <4>5. CASE i = at
        BY <4>3, <4>5 DEF Leads
      <4>6. CASE i > at
        <5>1. i - at \in 1..(Len(steps) - at) /\ at + (i - at) = i
          BY <4>2, <4>3, <4>6 DEF Leads
        <5> QED  BY <3>5, <4>3, <5>1 DEF Leads
      <4> QED  BY <4>2, <4>3, <4>4, <4>5, <4>6 DEF Leads
    <3>6. \A path \in TimedPaths : Encloses(path, new) => Encloses(path, old)
      BY <2>4, <3>2, TimedStatesAreNotEntered DEF Simulated, IndInv
    <3>7. new[1] = machine
      BY LeafPath
    <3> QED  BY <1>0, <2>1, <2>4, <3>4, <3>5, <3>6, <3>7 DEF TimedStatesStay
  <2> QED  BY <2>5, <2>6
<1>4. CASE DispatchHook
  <2>1. plan # << >> /\ plan' = Tail(plan) /\ entryTime' = entryTime /\ activeLeaf' = activeLeaf
    BY <1>4 DEF DispatchHook
  <2>2. \A i \in DOMAIN plan' : plan'[i] = plan[i + 1] /\ i + 1 \in DOMAIN plan
    BY <2>1, TailOf
  <2> QED  BY <1>0, <2>1, <2>2 DEF TimedStatesStay
<1>5. CASE SwitchLeaf
  <2>0. PICK machine \in Machines : \E old, new : \E shared \in Nat : LeafSwitches(machine, old, new, shared)
    BY <1>5, SwitchLeafSwitches DEF Simulated
  <2>00. PICK old, new : \E shared \in Nat : LeafSwitches(machine, old, new, shared)
    BY <2>0
  <2>1. PICK shared \in Nat : LeafSwitches(machine, old, new, shared)
    BY <2>00
  <2>2. /\ plan # << >> /\ plan[1].hook = "switch" /\ plan' = Tail(plan)
    BY <1>5 DEF SwitchLeaf
  <2>3. 1 \in DOMAIN plan /\ Len(plan') \in Nat /\ DOMAIN plan' = 1..Len(plan')
    BY <2>2, TailOf
  <2>4. /\ old \in Seq(STRING) /\ new \in Seq(STRING) /\ new[1] = machine
    BY <2>1, LeafPath DEF LeafSwitches
  <2>5. \A path \in TimedPaths : Encloses(path, new) => Encloses(path, old)
    BY <1>0, <2>1, <2>2, <2>3, <2>4 DEF TimedStatesStay, LeafSwitches
  <2>6. ASSUME NEW path \in TimedPaths
        PROVE  entryTime'[path] = 0
    <3>1. ASSUME NEW n \in (shared + 1)..Len(new), path = Ancestor(new, n)
          PROVE  FALSE
      <4>1. n \in 1..Len(new) /\ n \in Nat
        BY <2>4
      <4>2. Len(path) = n /\ \A i \in 1..n : path[i] = new[i]
        BY <2>4, <3>1, <4>1, AncestorPath
      <4>3. Encloses(path, new)
        BY <4>1, <4>2 DEF Encloses
      <4>4. Encloses(path, old)
        BY <2>5, <4>3
      <4>5. n \in SharedLengths(old, new)
        BY <2>4, <4>1, <4>2, <4>4 DEF Encloses, SharedLengths
      <4>6. n <= shared
        BY <2>1, <2>4, <4>5, CommonLengthIsGreatest DEF LeafSwitches
      <4> QED  BY <4>6
    <3>2. path \in Paths
      BY TimedPathsType
    <3>3. entryTime'[path] = entryTime[path]
      BY <2>1, <3>1, <3>2 DEF LeafSwitches
    <3> QED  BY <1>0, <3>3 DEF TimedStatesStay
  <2>7. \A i \in DOMAIN plan' : plan'[i].hook = "enter"
    BY <2>1, <2>3 DEF LeafSwitches
  <2> QED  BY <2>6, <2>7 DEF TimedStatesStay
<1>6. CASE StartLifecycleTask
  BY <1>0, <1>6 DEF StartLifecycleTask, TimedStatesStay
<1>7. CASE BootMachine
  <2>1. /\ plan' = Hooks("enter", EnumeratePrefixes(activeLeaf[Machine]))
        /\ entryTime' = entryTime
    BY <1>7 DEF BootMachine
  <2>2. \A i \in DOMAIN plan' : plan'[i].hook = "enter"
    BY <2>1 DEF Hooks
  <2> QED  BY <1>0, <2>1, <2>2 DEF TimedStatesStay
<1> QED  BY <1>1, <1>2, <1>3, <1>4, <1>5, <1>6, <1>7 DEF Proceeds, Internal

\* The statement that acts is one a program has.
LEMMA ChosenStatementFacts ==
  ASSUME RunsAlike, Simulated, AtStatement, Statement.kind # "wait"
  PROVE  /\ ChosenStatement \in SimpleStatements
         /\ Package!SupportedSimple(ChosenStatement)
         /\ ChosenStatement.value \in ProgramExpressions
         /\ Statement.kind = "if" =>
              /\ Statement.when \in Conditions /\ Statement.when.left \in ProgramExpressions
              /\ Package!SupportedExpression(Statement.when.left)
<1>1. /\ Statement \in Statements /\ Statement \in ProgramStatements
      /\ Package!SupportedStatement(Statement)
  BY StatementOfABody
<1>2. PICK statement \in ProgramStatements : statement = Statement
  BY <1>1
<1>3. Evaluated(statement) \subseteq ProgramExpressions
  BY DEF ProgramExpressions
<1>4. CASE statement.kind = "if"
  <2>1. statement \in [kind : {"if"}, when : Conditions, then : SimpleStatements,
                       otherwise : SimpleStatements]
    BY <1>1, <1>2, <1>4 DEF Statements, SimpleStatements
  <2>2. {statement.when.left, statement.then.value, statement.otherwise.value} \subseteq ProgramExpressions
    BY <1>3, <1>4 DEF Evaluated
  <2>3. /\ Package!SupportedExpression(statement.when.left)
        /\ Package!SupportedSimple(statement.then) /\ Package!SupportedSimple(statement.otherwise)
    BY <1>1, <1>2, <1>4 DEF Package!SupportedStatement
  <2> QED  BY <1>2, <1>4, <2>1, <2>2, <2>3 DEF ChosenStatement
<1>5. CASE statement.kind # "if"
  <2>1. statement \in SimpleStatements
    BY <1>1, <1>2, <1>5 DEF Statements
  <2>2. statement.value \in ProgramExpressions
    BY <1>2, <1>3, <1>5 DEF Evaluated
  <2>3. Package!SupportedSimple(statement)
    BY <1>1, <1>2, <1>5 DEF Package!SupportedStatement
  <2> QED  BY <1>2, <1>5, <2>1, <2>2, <2>3 DEF ChosenStatement
<1> QED  BY <1>4, <1>5

\* Nothing that a program of RunsAlike queues reaches the sensor.
LEMMA SensorsStayStep ==
  ASSUME RunsAlike, Simulated, Proceeds
  PROVE  SensorsStay'
<1> USE DEF taskVars, dataVars, machineVars, callVars, runVars
<1>0. SensorsStay
  BY DEF Simulated, Undisturbed
<1>1. CASE ExecuteStatement
  <2>1. /\ AtStatement /\ Statement.kind # "wait" /\ devices' = devices
        /\ \/ pendingEffects' = pendingEffects
           \/ /\ ChosenStatement.kind = "do"
              /\ \E value : pendingEffects' =
                   Append(pendingEffects, [device |-> ChosenStatement.device, value |-> value])
    BY <1>1 DEF ExecuteStatement
  <2>2. CASE pendingEffects' = pendingEffects
    BY <1>0, <2>1, <2>2 DEF SensorsStay
  <2>3. CASE pendingEffects' # pendingEffects
    <3>1. PICK value : /\ ChosenStatement.kind = "do"
                       /\ pendingEffects' =
                            Append(pendingEffects, [device |-> ChosenStatement.device, value |-> value])
      BY <2>1, <2>3
    <3>2. ChosenStatement.device # "adc"
      BY <2>1, <3>1, ChosenStatementFacts DEF Package!SupportedSimple, Package!SupportedMethods
    <3>3. pendingEffects \in Seq(Effects)
      BY DEF Simulated, IndInv, TypeOK
    <3>4. \A i \in DOMAIN pendingEffects' :
            \/ i \in DOMAIN pendingEffects /\ pendingEffects'[i] = pendingEffects[i]
            \/ pendingEffects'[i] = [device |-> ChosenStatement.device, value |-> value]
      <4>1. PICK effect : effect = [device |-> ChosenStatement.device, value |-> value]
        OBVIOUS
      <4>2. pendingEffects' = Append(pendingEffects, effect)
        BY <3>1, <4>1
      <4>3. \A i \in DOMAIN Append(pendingEffects, effect) :
            \/ i \in DOMAIN pendingEffects /\ Append(pendingEffects, effect)[i] = pendingEffects[i]
            \/ Append(pendingEffects, effect)[i] = effect
        BY <3>3
      <4> QED  BY <4>1, <4>2, <4>3
    <3> QED  BY <1>0, <2>1, <3>2, <3>4 DEF SensorsStay
  <2> QED  BY <2>2, <2>3
<1>2. CASE FlushPendingEffects
  <2>1. pendingEffects \in Seq(Effects)
    BY DEF Simulated, IndInv, TypeOK
  <2>2. \A i \in 1..Len(pendingEffects) : pendingEffects[i].device # "adc"
    BY <1>0, <2>1 DEF SensorsStay
  <2>3. "adc" \in Devices => devices'["adc"] = devices["adc"]
    BY <1>2, <2>2 DEF FlushPendingEffects
  <2>4. pendingEffects' = << >>
    BY <1>2 DEF FlushPendingEffects
  <2> QED  BY <1>0, <2>3, <2>4 DEF SensorsStay
<1>3. CASE \E milliseconds \in Nat : BeginTick(milliseconds, << >>)
  <2>1. pendingEffects \in Seq(Effects)
    BY DEF Simulated, IndInv, TypeOK
  <2>2. pendingEffects \o << >> = pendingEffects
    BY <2>1
  <2>3. pendingEffects' = pendingEffects /\ devices' = devices
    BY <1>3, <2>2 DEF BeginTick
  <2> QED  BY <1>0, <2>3 DEF SensorsStay
<1>4. CASE UNCHANGED <<devices, pendingEffects>>
  BY <1>0, <1>4 DEF SensorsStay
<1> QED
  BY <1>1, <1>2, <1>3, <1>4
  DEF Proceeds, Internal, Drain, ExecuteWait, StopDrainedTask, FinishBody, ResumeWaitingTask,
      ChargeEveryTask, FireEveryTask, LeaveEveryTask, StartLoopTask, OfferEventToTask,
      ChargeMachine, LeaveMachine, TickMachine, SwitchLeaf, DispatchHook, StartLifecycleTask,
      BootMachine, NextPhase, DispatchScriptEvent

\* Between two calls no effect is queued.
IdleIsFlushed == phase = "idle" => pendingEffects = << >>

\* A call ends with the flush, and what comes after it queues nothing.
LEMMA IdleIsFlushedStep ==
  ASSUME Simulated, IdleIsFlushed, Proceeds
  PROVE  IdleIsFlushed'
<1> USE DEF taskVars, dataVars, machineVars, callVars, runVars
<1>1. CASE phase' # "idle"
  BY <1>1 DEF IdleIsFlushed
<1>2. CASE FlushPendingEffects
  BY <1>2 DEF FlushPendingEffects, IdleIsFlushed
<1>3. CASE phase' = "idle" /\ phase # "idle" /\ ~ FlushPendingEffects
  BY <1>3
  DEF Proceeds, Internal, Drain, ExecuteStatement, ExecuteWait, StopDrainedTask, FinishBody,
      ResumeWaitingTask, ChargeEveryTask, FireEveryTask, LeaveEveryTask, StartLoopTask,
      OfferEventToTask, ChargeMachine, LeaveMachine, TickMachine, SwitchLeaf, DispatchHook,
      StartLifecycleTask, BootMachine, NextPhase, Following, BeginTick, DispatchScriptEvent
<1>4. CASE phase' = "idle" /\ phase = "idle"
  <2>1. Quiet
    BY <1>4 DEF Simulated, IdleIsQuiet
  <2> QED
    BY <1>4, <2>1
    DEF Quiet, Proceeds, Internal, Drain, AtStatement, ExecuteStatement, ExecuteWait,
        StopDrainedTask, FinishBody, ResumeWaitingTask, ChargeEveryTask, FireEveryTask,
        LeaveEveryTask, StartLoopTask, OfferEventToTask, ChargeMachine, LeaveMachine, TickMachine,
        SwitchLeaf, DispatchHook, StartLifecycleTask, BootMachine, NextPhase, Following,
        FlushPendingEffects, BeginTick, DispatchScriptEvent
<1> QED  BY <1>1, <1>2, <1>3, <1>4

\* The simulator stays undisturbed for the whole replay.
LEMMA UndisturbedStep == RunsAlike /\ Simulated /\ Proceeds => Undisturbed'
BY RunningStays, BodiesStayFine, PlansOfThePhaseStep, TimedStatesStayStep, SensorsStayStep
DEF BodiesAreFine, Undisturbed

------------------------------------------------------------------------------
(* The mirror: what the interpreter would do from the simulator's state on. *)

\* A body that has come no further than its first statement may be at it or
\* given up; the interpreter keeps no place in the body of an event task.
SamePlace(m, task) ==
  \/ RunMode[task] = "on_event" /\ m.counter[task] = NoProgress
  \/ RunMode[task] # "on_event" /\ m.counter[task] = programCounter[task]
  \/ /\ RunMode[task] = "loop" /\ task # draining
     /\ {m.counter[task], programCounter[task]} \subseteq {NoProgress, 1}

\* What was queued is shown at once.
Queued(device) == {i \in DOMAIN pendingEffects : pendingEffects[i].device = device}
SameOutputs(m) ==
  \A device \in Host!Observed :
    /\ Queued(device) = {} => m.shown[device] = devices[device]
    /\ \A i \in Queued(device) :
         (\A j \in Queued(device) : j <= i) => m.shown[device] = pendingEffects[i].value

\* m is a state of the interpreter that is as far as the simulator is.
Alike(m) ==
  /\ HostOK(m) /\ m.outcome = "running"
  /\ m.total = total /\ m.accumulated = accumulated /\ m.resumeAt = resumeAt
  /\ m.vars = varValues /\ m.leaf = activeLeaf /\ m.ticked = machineAccumulated
  /\ m.entry = Host!Loaded.entry
  /\ \A task \in Tasks : SamePlace(m, task)
  /\ SameOutputs(m)

RestOf(seq, k) == SubSeq(seq, k, Len(seq))

\* The rest of a body from a statement on.
BodyFrom(m, task, k) ==
  IF RunMode[task] = "on_event"
    THEN EventStatements!Loop(task, m, RestOf(Body[task], k))
    ELSE Host!Finish(Draining!Loop(task, m, RestOf(Body[task], k)), task)
AfterBody(m) ==
  IF draining = NoTask THEN m
  ELSE IF phase = "loops"
    THEN Host!AfterPass(BodyFrom(m, draining, programCounter[draining]), draining)
    ELSE BodyFrom(m, draining, programCounter[draining])

\* The exit tasks of a state that come at position k or later.
Due(trigger, path, k) ==
  {i \in k..Len(TaskOrder) : Trigger[TaskOrder[i]] = trigger /\ Membership[TaskOrder[i]] = path}
InHooks(h, g) ==
  \/ hookTasks = {} /\ g = h
  \/ \E path \in Paths : \E k \in 1..(Len(TaskOrder) + 1) :
       /\ hookTasks = Due("state_exit", path, k)
       /\ g = Hooked!Loop([trigger |-> "state_exit", path |-> path], h, RestOf(TaskOrder, k))

\* The rest of a transition: exit tasks, then the leaf; enter tasks there are none.
AfterExits(h, new, exits) ==
  Host!Enter(Host!Switched(DispatchedHooks!Loop("state_exit", h, exits), new[1], new), new[1], new)
InPlan(h, g) ==
  \/ g = h /\ \A i \in DOMAIN plan : plan[i].hook = "enter"
  \/ \E at \in DOMAIN plan :
       /\ \A i \in 1..(at - 1) : plan[i].hook = "exit"
       /\ plan[at].hook = "switch"
       /\ \A i \in DOMAIN plan : i > at => plan[i].hook = "enter"
       /\ g = AfterExits(h, plan[at].path, [i \in 1..(at - 1) |-> plan[i].path])

\* The rest of the loop of the phase, and of the call.
Resuming(h, k) ==
  ResumedTasks!Loop("loop", ResumedTasks!Loop("every", h, RestOf(TaskOrder, k)),
                    RestOf(TaskOrder, k))
CatchingUpMachine(h, machine, time) ==
  UsedTicks!Loop(machine, h, Host!Times(time \div TickIntervalOf[machine]))
CatchingUpTask(h, task, time) ==
  UsedIntervals!Loop(task, h, Host!Times(time \div IntervalOf[task]))
AfterLoop(h) ==
  CASE phase = "resume" -> Resuming(h, cursor)
    [] phase = "machines" /\ ~charged ->
         TickedMachines!Loop(elapsed, h, RestOf(MachineOrder, cursor))
    [] phase = "machines" /\ charged ->
         TickedMachines!Loop(elapsed, CatchingUpMachine(h, Machine, machineAccumulated[Machine]),
                             RestOf(MachineOrder, cursor + 1))
    [] phase = "every" /\ ~charged ->
         FiredTasks!Loop(elapsed, h, RestOf(TaskOrder, cursor))
    [] phase = "every" /\ charged ->
         FiredTasks!Loop(elapsed, CatchingUpTask(h, Current, accumulated[Current]),
                         RestOf(TaskOrder, cursor + 1))
    [] phase = "loops" -> StartedLoops!Loop("loop", h, RestOf(TaskOrder, cursor))
    [] phase = "event" -> OfferedTasks!Loop(event, h, RestOf(TaskOrder, cursor))
    [] OTHER -> h
AfterCall(h) ==
  CASE phase = "resume" ->
         Host!StartLoops(Host!AdvanceEvery(Host!AdvanceStateMachines(h, elapsed), elapsed))
    [] phase = "machines" -> Host!StartLoops(Host!AdvanceEvery(h, elapsed))
    [] phase \in {"every", "boot"} -> Host!StartLoops(h)
    [] OTHER -> h

\* What the interpreter makes of m.
LeadsTo(m, h) ==
  \E afterHooks, afterPlan :
    /\ InHooks(AfterBody(m), afterHooks) /\ InPlan(afterHooks, afterPlan)
    /\ h = AfterCall(AfterLoop(afterPlan))

Mirrored == \E m : Alike(m) /\ LeadsTo(m, host)

------------------------------------------------------------------------------
(* Expressions have the same value. *)

\* An expression of a program neither throws nor is undefined.
LEMMA SameValue ==
  ASSUME RunsAlike, Simulated, NEW m, Alike(m),
         NEW expr \in ProgramExpressions, Package!SupportedExpression(expr)
  PROVE  /\ ~ Host!Throws(m, expr) /\ Defined(expr) /\ Host!Value(m, expr) = Value(expr)
         /\ Value(expr) \in Int
<1>1. /\ HostOK(m) /\ m \in HostStates /\ Fits /\ m.vars = varValues /\ m.total = total
      /\ m.entry = Host!Loaded.entry
  BY DEF Alike, HostOK, Fits, RunsAlike
<1>2. ~ Host!Throws(m, expr)
  BY <1>1, NothingThrows
<1>3. expr \in Expressions
  BY ProgramExpressionsType
<1>4. Defined(expr)
  BY <1>1, <1>2 DEF Defined, Host!Throws
<1>5. Host!Value(m, expr) = Value(expr)
  <2>1. CASE expr \in [kind : {"integer"}, value : Int]
    BY <2>1 DEF Host!Value, Value
  <2>2. CASE expr \in [kind : {"var"}, name : Vars]
    BY <1>1, <2>2 DEF Host!Value, Value
  <2>3. CASE expr \in [kind : {"read"}, device : Devices]
    <3>1. expr.device = "adc"
      BY <2>3 DEF Package!SupportedExpression
    <3>2. devices["adc"] = Host!DefaultAdc0Raw
      BY <2>3, <3>1 DEF Simulated, Undisturbed, SensorsStay
    <3> QED  BY <2>3, <3>1, <3>2 DEF Host!Value, Value
  <2>4. CASE expr \in [kind : {"elapsed"}, path : Paths]
    <3>1. expr.path \in TimedPaths
      BY <2>4 DEF TimedPaths
    <3>2. entryTime[expr.path] = 0
      BY <3>1 DEF Simulated, Undisturbed, TimedStatesStay
    <3>3. Value(expr) = total
      BY <2>4, <3>2 DEF Value, Elapsed, NeverEntered, Simulated, IndInv, TypeOK
    <3>4. PICK machine \in Machines : expr.path \in PrefixSet(InitialLeaf[machine])
      BY <3>1 DEF RunsAlike, TimedStatesAreInitial
    <3>5. expr.path \in UNION {Host!PrefixSet(InitialLeaf[other]) : other \in Host!Machines}
      BY <3>4, SamePaths DEF Machines, Host!Machines
    <3>6. Host!Loaded.entry = [path \in UNION {Host!PrefixSet(InitialLeaf[other]) : other \in Host!Machines} |-> 0]
      BY DEF Host!Loaded
    <3>7. Host!Elapsed(m, expr.path) = m.total - 0
      BY <1>1, <3>5, <3>6 DEF Host!Elapsed
    <3>8. m.total \in Nat
      BY <1>1 DEF HostStates
    <3> QED  BY <1>1, <2>4, <3>3, <3>7, <3>8 DEF Host!Value
  <2>5. CASE expr \in [kind : {"quotient"}, of : Int, by : Vars]
    BY <1>1, <2>5 DEF Host!Value, Value, Quotient, Magnitude, Host!Quotient, Host!Magnitude
  <2> QED  BY <1>3, <2>1, <2>2, <2>3, <2>4, <2>5 DEF Expressions
<1>6. Host!Value(m, expr) \in Int
  BY <1>1, <1>2, <1>3, HostValueType
<1> QED  BY <1>2, <1>4, <1>5, <1>6

\* Conditions decide alike: those of an if and those of a transition.
LEMMA SameDecision ==
  ASSUME RunsAlike, Simulated, NEW m, Alike(m), NEW condition, condition.left \in ProgramExpressions,
         Package!SupportedExpression(condition.left)
  PROVE  Host!Holds(m, condition) <=> Holds(condition)
BY SameValue DEF Host!Holds, Host!Compares, Holds

\* A task finds its state active in one exactly when it does in the other.
LEMMA SameRunnable ==
  ASSUME NEW m, Alike(m), NEW task
  PROVE  Host!Runnable(m, task) <=> Runnable(task)
BY DEF Alike, Host!Runnable, Runnable, Host!NoPath, NoPath, Host!Encloses, Encloses

------------------------------------------------------------------------------
(* Steps of a body. *)

\* A statement that is not a wait.
LEMMA BodyGoesOn ==
  ASSUME NEW m, m.outcome = "running", NEW task \in Tasks, NEW k \in DOMAIN Body[task],
         Body[task][k].kind # "wait",
         NEW done, done = Host!ExecuteStatement(m, Body[task][k]), done.outcome = "running",
         NEW m2, m2 = (IF RunMode[task] = "on_event" THEN done ELSE [done EXCEPT !.counter[task] = @ + 1]),
         RunMode[task] # "on_event" => ~ Host!Parked(m, task)
  PROVE  BodyFrom(m, task, k) = BodyFrom(m2, task, k + 1)
<1>1. PICK body \in Seq(Statements) : body = Body[task]
  BY TasksAssumption
<1>2. k \in 1..Len(body)
  BY <1>1
<1>3. PICK statement : statement = body[k]
  OBVIOUS
<1>4. CASE RunMode[task] = "on_event"
  <2>1. Host!EventStatement(m, task, statement) = m2
    BY <1>1, <1>3, <1>4 DEF Host!EventStatement
  <2>2. EventStatements!Loop(task, m, SubSeq(body, k, Len(body)))
          = EventStatements!Loop(task, m2, SubSeq(body, k + 1, Len(body)))
    BY <1>2, <1>3, <2>1, EventStatements!LoopGoesOn
  <2> QED  BY <1>1, <1>4, <2>2 DEF BodyFrom, RestOf
<1>5. CASE RunMode[task] # "on_event"
  <2>1. Host!DrainStatement(m, task, statement) = m2
    BY <1>1, <1>3, <1>5 DEF Host!DrainStatement, Host!StepPast
  <2>2. Draining!Loop(task, m, SubSeq(body, k, Len(body)))
          = Draining!Loop(task, m2, SubSeq(body, k + 1, Len(body)))
    BY <1>2, <1>3, <2>1, Draining!LoopGoesOn
  <2> QED  BY <1>1, <1>5, <2>2 DEF BodyFrom, RestOf
<1> QED  BY <1>4, <1>5

\* A wait ends this run of the body, and nothing behind it is looked at.
LEMMA BodyWaits ==
  ASSUME NEW m, m.outcome = "running", NEW task \in Tasks, NEW k \in DOMAIN Body[task],
         RunMode[task] # "on_event", Body[task][k].kind = "wait",
         ~ Host!Throws(m, Body[task][k].duration), ~ Host!Parked(m, task),
         NEW m2, m2 = Host!Park(m, task, Host!Value(m, Body[task][k].duration)),
         Host!Parked(m2, task)
  PROVE  /\ BodyFrom(m, task, k) = m2
         /\ Host!AfterPass(m2, task) = m2
<1>1. PICK body \in Seq(Statements) : body = Body[task]
  BY TasksAssumption
<1>2. k \in 1..Len(body) /\ Len(body) \in Nat
  BY <1>1
<1>3. PICK statement : statement = body[k]
  OBVIOUS
<1>4. Host!DrainStatement(m, task, statement) = m2
  BY <1>1, <1>3 DEF Host!DrainStatement
<1>5. Draining!Loop(task, m, SubSeq(body, k, Len(body)))
        = Draining!Loop(task, m2, SubSeq(body, k + 1, Len(body)))
  BY <1>2, <1>3, <1>4, Draining!LoopGoesOn
<1>6. PICK rest : rest = SubSeq(body, k + 1, Len(body))
  OBVIOUS
<1>7. Len(rest) \in Nat
  BY <1>2, <1>6
<1>8. \A i \in 1..Len(rest) : \A g \in {m2} : Host!DrainStatement(g, task, rest[i]) \in {m2}
  BY DEF Host!DrainStatement
<1>9. Draining!Loop(task, m2, rest) \in {m2}
  BY <1>7, <1>8, Draining!LoopStaysIn
<1>10. BodyFrom(m, task, k) = Host!Finish(m2, task)
  BY <1>1, <1>5, <1>6, <1>9 DEF BodyFrom, RestOf
<1> QED  BY <1>10 DEF Host!Finish, Host!AfterPass

\* The end of a body.
LEMMA BodyEnds ==
  ASSUME NEW m, m.outcome = "running", NEW task \in Tasks, NEW k \in Nat, k > Len(Body[task]),
         RunMode[task] # "on_event" => ~ Host!Parked(m, task)
  PROVE  BodyFrom(m, task, k) =
           IF RunMode[task] = "on_event" THEN m
           ELSE [m EXCEPT !.counter[task] = IF RunMode[task] = "loop" THEN 1 ELSE NoProgress]
<1>1. PICK body \in Seq(Statements) : body = Body[task]
  BY TasksAssumption
<1>2. PICK rest : rest = SubSeq(body, k, Len(body))
  OBVIOUS
<1>3. Len(rest) = 0
  BY <1>1, <1>2
<1>4. EventStatements!Loop(task, m, rest) = m
  BY <1>3, EventStatements!LoopOverNothing
<1>5. Draining!Loop(task, m, rest) = m
  BY <1>3, Draining!LoopOverNothing
<1> QED  BY <1>1, <1>2, <1>4, <1>5 DEF BodyFrom, RestOf, Host!Finish, Host!NoProgress, NoProgress

\* What a simple statement does.
LEMMA PerformDoes ==
  ASSUME NEW m \in HostStates, NEW statement \in SimpleStatements,
         Package!SupportedSimple(statement), ~ Host!Throws(m, statement.value),
         NEW done, done = Host!Perform(m, statement)
  PROVE  /\ done.vars = IF statement.kind = "set"
              THEN [m.vars EXCEPT ![statement.name] = Host!Value(m, statement.value)] ELSE m.vars
         /\ done.shown = IF statement.kind = "do" /\ statement.device \in Host!Observed
              THEN [m.shown EXCEPT ![statement.device] = Host!Value(m, statement.value)] ELSE m.shown
         /\ done.leaf = m.leaf /\ done.entry = m.entry
<1>1. CASE statement.kind = "set"
  <2>1. done = [m EXCEPT !.vars[statement.name] = Host!Value(m, statement.value)]
    BY <1>1 DEF Host!Perform
  <2> QED  BY <1>1, <2>1 DEF HostStates
<1>2. CASE statement.kind = "do" /\ statement.device \in Host!Observed
  <2>1. statement.kind # "set"
    BY <1>2
  <2>2. done = [m EXCEPT !.shown[statement.device] = Host!Value(m, statement.value)]
    BY <1>2, <2>1 DEF Host!Perform, Host!Observed, Host!Unobserved
  <2> QED  BY <1>2, <2>2 DEF HostStates
<1>3. CASE statement.kind = "do" /\ statement.device \notin Host!Observed
  <2>1. statement.device \in Host!Unobserved
    BY <1>3 DEF Package!SupportedSimple, Package!SupportedMethods, Host!Observed, Host!Unobserved
  <2>2. done = m
    BY <1>3, <2>1 DEF Host!Perform
  <2> QED  BY <1>3, <2>2
<1> QED  BY <1>1, <1>2, <1>3 DEF SimpleStatements

\* The effect that was queued last is the one that is shown.
LEMMA OutputsAfterAnEffect ==
  ASSUME NEW m, SameOutputs(m), NEW done, NEW device, NEW value, pendingEffects \in Seq(Effects),
         pendingEffects' = Append(pendingEffects, [device |-> device, value |-> value]),
         devices' = devices, m.shown \in [Host!Observed -> Int],
         done.shown = IF device \in Host!Observed THEN [m.shown EXCEPT ![device] = value] ELSE m.shown
  PROVE  SameOutputs(done)'
<1>1. PICK effect : effect = [device |-> device, value |-> value]
  OBVIOUS
<1>2. PICK n \in Nat : n = Len(pendingEffects)
  OBVIOUS
<1>3. /\ DOMAIN pendingEffects = 1..n /\ DOMAIN pendingEffects' = 1..(n + 1)
      /\ pendingEffects'[n + 1] = effect
      /\ \A i \in 1..n : pendingEffects'[i] = pendingEffects[i]
  <2>1. pendingEffects' = Append(pendingEffects, effect)
    BY <1>1
  <2>2. /\ DOMAIN Append(pendingEffects, effect) = 1..(n + 1)
        /\ Append(pendingEffects, effect)[n + 1] = effect
        /\ \A i \in 1..n : Append(pendingEffects, effect)[i] = pendingEffects[i]
    BY <1>2
  <2> QED  BY <1>2, <2>1, <2>2
<1>4. effect.device = device /\ effect.value = value
  BY <1>1
<1> SUFFICES ASSUME NEW other \in Host!Observed
             PROVE  /\ Queued(other)' = {} => done.shown[other] = devices[other]
                    /\ \A i \in Queued(other)' :
                         (\A j \in Queued(other)' : j <= i) => done.shown[other] = pendingEffects'[i].value
  BY DEF SameOutputs
<1>5. CASE other = device
  <2>1. n + 1 \in Queued(other)' /\ Queued(other)' \subseteq 1..(n + 1)
    BY <1>2, <1>3, <1>4, <1>5 DEF Queued
  <2>2. done.shown[other] = value
    BY <1>5
  <2>3. ASSUME NEW i \in Queued(other)', \A j \in Queued(other)' : j <= i
        PROVE  i = n + 1
    BY <1>2, <2>1, <2>3
  <2> QED  BY <1>3, <1>4, <2>1, <2>2, <2>3
<1>6. CASE other # device
  <2>1. Queued(other)' = Queued(other)
    BY <1>2, <1>3, <1>4, <1>6 DEF Queued
  <2>2. done.shown[other] = m.shown[other]
    BY <1>6
  <2>3. \A i \in Queued(other) : pendingEffects'[i] = pendingEffects[i]
    BY <1>3 DEF Queued
  <2> QED  BY <2>1, <2>2, <2>3 DEF SameOutputs
<1> QED  BY <1>5, <1>6

\* Both execute the same statement with the same result.
LEMMA SameStatement ==
  ASSUME RunsAlike, Simulated, NEW m, Alike(m), ExecuteStatement,
         NEW done, done = Host!ExecuteStatement(m, Statement)
  PROVE  /\ done \in From(m) /\ done.outcome = "running"
         /\ done.counter = m.counter /\ done.resumeAt = m.resumeAt
         /\ done.leaf = m.leaf /\ done.entry = m.entry
         /\ done.vars = varValues' /\ SameOutputs(done)'
<1>0. /\ AtStatement /\ Statement.kind # "wait" /\ devices' = devices
      /\ HostOK(m) /\ m \in HostStates /\ m.outcome = "running" /\ m.vars = varValues
      /\ SameOutputs(m) /\ m.shown \in [Host!Observed -> Int]
  BY DEF ExecuteStatement, Alike, HostOK, HostStates
<1>1. /\ draining \in Tasks /\ programCounter[draining] \in DOMAIN Body[draining]
      /\ Package!SupportedStatement(Statement)
  BY <1>0, StatementOfABody
<1>2. PICK chosen : chosen = ChosenStatement
  OBVIOUS
<1>3. /\ chosen \in SimpleStatements /\ Package!SupportedSimple(chosen)
      /\ chosen.value \in ProgramExpressions /\ Package!SupportedExpression(chosen.value)
  BY <1>0, <1>2, ChosenStatementFacts DEF Package!SupportedSimple
<1>4. /\ ~ Host!Throws(m, chosen.value) /\ Defined(chosen.value)
      /\ Host!Value(m, chosen.value) = Value(chosen.value) /\ Value(chosen.value) \in Int
  BY <1>3, SameValue
<1>5. done = Host!Perform(m, chosen)
  <2>1. CASE Statement.kind = "if"
    <3>1. PICK condition : condition = Statement.when
      OBVIOUS
    <3>2. condition.left \in ProgramExpressions /\ Package!SupportedExpression(condition.left)
      BY <1>0, <2>1, <3>1, ChosenStatementFacts
    <3>3. ~ Host!Throws(m, condition.left) /\ (Host!Holds(m, condition) <=> Holds(condition))
      BY <3>2, SameValue, SameDecision
    <3> QED  BY <1>2, <2>1, <3>1, <3>3 DEF Host!ExecuteStatement, ChosenStatement
  <2>2. CASE Statement.kind # "if"
    BY <1>2, <2>2 DEF Host!ExecuteStatement, ChosenStatement
  <2> QED  BY <2>1, <2>2
<1>6. /\ done \in From(m) /\ done.counter = m.counter /\ done.resumeAt = m.resumeAt
  <2>1. PICK task \in Tasks, k \in Nat : k \in DOMAIN Body[task] /\ Statement = Body[task][k]
    <3>1. programCounter[draining] \in Nat
      BY <1>1 DEF Simulated, IndInv, TypeOK
    <3> QED  BY <1>1, <3>1 DEF Statement
  <2> QED  BY <1>0, <2>1, ExecuteStatementKeeps
<1>7. done.outcome = "running"
  BY <1>6 DEF From, HostOK, HostStates, RunsAlike, Fits
<1>8. /\ done.vars = IF chosen.kind = "set"
           THEN [m.vars EXCEPT ![chosen.name] = Value(chosen.value)] ELSE m.vars
      /\ done.shown = IF chosen.kind = "do" /\ chosen.device \in Host!Observed
           THEN [m.shown EXCEPT ![chosen.device] = Value(chosen.value)] ELSE m.shown
      /\ done.leaf = m.leaf /\ done.entry = m.entry
  BY <1>0, <1>3, <1>4, <1>5, PerformDoes
<1>9. done.vars = varValues'
  BY <1>0, <1>2, <1>4, <1>8 DEF ExecuteStatement
<1>10. SameOutputs(done)'
  <2>1. CASE chosen.kind = "do"
    <3>1. PICK device, value : device = chosen.device /\ value = Value(chosen.value)
      OBVIOUS
    <3>2. pendingEffects' = Append(pendingEffects, [device |-> device, value |-> value])
      BY <1>2, <1>4, <2>1, <3>1 DEF ExecuteStatement
    <3>3. pendingEffects \in Seq(Effects)
      BY DEF Simulated, IndInv, TypeOK
    <3>4. done.shown = IF device \in Host!Observed THEN [m.shown EXCEPT ![device] = value] ELSE m.shown
      BY <1>8, <2>1, <3>1
    <3> QED  BY <1>0, <3>2, <3>3, <3>4, OutputsAfterAnEffect
  <2>2. CASE chosen.kind # "do"
    <3>1. pendingEffects' = pendingEffects
      BY <1>2, <2>2 DEF ExecuteStatement
    <3>2. done.shown = m.shown
      BY <1>8, <2>2
    <3> QED  BY <1>0, <3>1, <3>2 DEF SameOutputs, Queued
  <2> QED  BY <2>1, <2>2
<1> QED  BY <1>6, <1>7, <1>8, <1>9, <1>10

\* Where the mirror is when a body is executed.
LEMMA PlaceOfABody ==
  ASSUME Simulated, NEW m, Alike(m), NEW task \in Tasks, draining = task
  PROVE  /\ programCounter[task] \in Nat /\ programCounter[task] >= 1
         /\ RunMode[task] = "on_event" => m.counter[task] = NoProgress
         /\ RunMode[task] # "on_event" =>
              m.counter[task] = programCounter[task] /\ ~ Host!Parked(m, task)
         /\ m.resumeAt[task] = NotWaiting /\ task # NoTask
<1>1. /\ programCounter[task] \in Nat /\ programCounter[task] >= 1
      /\ resumeAt[task] = NotWaiting /\ task # NoTask
  BY TasksAssumption DEF Simulated, IndInv, TypeOK, DrainedTaskMoves
<1>2. SamePlace(m, task) /\ m.resumeAt = resumeAt
  BY DEF Alike
<1> QED  BY <1>1, <1>2 DEF SamePlace, Host!Parked, NotWaiting, Host!NotWaiting, NoProgress, Host!NoProgress

\* A statement is executed on both sides.
LEMMA BodyStepStatement ==
  ASSUME RunsAlike, Simulated, NEW m, Alike(m), ExecuteStatement
  PROVE  \E m2 : Alike(m2)' /\ AfterBody(m2)' = AfterBody(m)
<1>1. PICK task \in Tasks : task = draining
  BY StatementOfABody DEF ExecuteStatement
<1>2. PICK k \in DOMAIN Body[task] : k = programCounter[task]
  BY <1>1, StatementOfABody DEF ExecuteStatement
<1>3. /\ k \in Nat /\ k >= 1
      /\ RunMode[task] = "on_event" => m.counter[task] = NoProgress
      /\ RunMode[task] # "on_event" => m.counter[task] = k /\ ~ Host!Parked(m, task)
      /\ m.resumeAt[task] = NotWaiting /\ task # NoTask
  BY <1>1, <1>2, PlaceOfABody
<1>4. /\ Body[task][k].kind # "wait" /\ Statement = Body[task][k]
      /\ programCounter' = [programCounter EXCEPT ![task] = k + 1]
      /\ UNCHANGED <<total, accumulated, resumeAt, devices, activeLeaf, machineAccumulated,
                     phase, draining>>
  BY <1>1, <1>2 DEF ExecuteStatement, machineVars, callVars, Statement
<1>5. PICK done : done = Host!ExecuteStatement(m, Body[task][k])
  OBVIOUS
<1>6. /\ done \in From(m) /\ done.outcome = "running"
      /\ done.counter = m.counter /\ done.resumeAt = m.resumeAt
      /\ done.leaf = m.leaf /\ done.entry = m.entry
      /\ done.vars = varValues' /\ SameOutputs(done)'
  BY <1>4, <1>5, SameStatement
<1>7. /\ HostOK(done) /\ done \in HostStates /\ done.total = m.total
      /\ done.accumulated = m.accumulated /\ done.ticked = m.ticked
  BY <1>6 DEF From
<1>8. PICK m2 : m2 = (IF RunMode[task] = "on_event" THEN done
                      ELSE [done EXCEPT !.counter[task] = @ + 1])
  OBVIOUS
<1>9. BodyFrom(m, task, k) = BodyFrom(m2, task, k + 1)
  BY <1>3, <1>4, <1>5, <1>6, <1>8, BodyGoesOn DEF Alike
<1>10. /\ HostOK(m2) /\ m2.outcome = "running" /\ m2.total = m.total
       /\ m2.accumulated = m.accumulated /\ m2.ticked = m.ticked
       /\ m2.resumeAt = m.resumeAt /\ m2.leaf = m.leaf /\ m2.entry = m.entry
       /\ m2.vars = varValues' /\ m2.shown = done.shown
       /\ \A other \in Tasks \ {task} : m2.counter[other] = m.counter[other]
       /\ RunMode[task] = "on_event" => m2.counter[task] = NoProgress
       /\ RunMode[task] # "on_event" => m2.counter[task] = k + 1
  <2>1. CASE RunMode[task] = "on_event"
    BY <1>3, <1>6, <1>7, <1>8, <2>1
  <2>2. CASE RunMode[task] # "on_event"
    <3>1. PICK n \in Nat : n = k + 1 /\ n = done.counter[task] + 1
      BY <1>3, <1>6, <2>2
    <3>2. m2 = [done EXCEPT !.counter[task] = n]
      BY <1>8, <2>2, <3>1
    <3>3. m2 \in From(done)
      BY <1>3, <1>6, <1>7, <3>2, TaskMovesKeep DEF NotWaiting, Host!NotWaiting
    <3>4. HostOK(m2)
      BY <3>3 DEF From
    <3>5. m.counter \in [Tasks -> Nat]
      BY <1>6, <1>7 DEF HostStates
    <3> QED  BY <1>6, <1>7, <2>2, <3>1, <3>2, <3>4, <3>5 DEF HostStates
  <2> QED  BY <2>1, <2>2
<1>11. ASSUME NEW other \in Tasks
       PROVE  SamePlace(m2, other)'
  <2>1. programCounter \in [Tasks -> Nat]
    BY DEF Simulated, IndInv, TypeOK
  <2>2. CASE other = task
    BY <1>2, <1>4, <1>10, <2>1, <2>2 DEF SamePlace
  <2>3. CASE other # task
    <3>1. SamePlace(m, other)
      BY DEF Alike
    <3> QED  BY <1>4, <1>10, <2>1, <2>3, <3>1 DEF SamePlace
  <2> QED  BY <2>2, <2>3
<1>12. SameOutputs(m2)'
  BY <1>6, <1>10 DEF SameOutputs
<1>13. Alike(m2)'
  BY <1>4, <1>10, <1>11, <1>12 DEF Alike
<1>14. programCounter'[draining'] = k + 1 /\ draining' = task
  <2>1. programCounter \in [Tasks -> Nat]
    BY DEF Simulated, IndInv, TypeOK
  <2> QED  BY <1>1, <1>4, <2>1
<1>15. AfterBody(m2)' = AfterBody(m)
  BY <1>1, <1>2, <1>3, <1>4, <1>9, <1>14 DEF AfterBody
<1> QED  BY <1>13, <1>15

\* A wait ends the body on both sides.
LEMMA BodyStepWait ==
  ASSUME RunsAlike, Simulated, NEW m, Alike(m), ExecuteWait
  PROVE  \E m2 : Alike(m2)' /\ AfterBody(m2)' = AfterBody(m)
<1>1. PICK task \in Tasks : task = draining
  BY StatementOfABody DEF ExecuteWait
<1>2. PICK k \in DOMAIN Body[task] : k = programCounter[task]
  BY <1>1, StatementOfABody DEF ExecuteWait
<1>3. PICK expr : expr = Body[task][k].duration
  OBVIOUS
<1>4. /\ Body[task][k].kind = "wait" /\ RunMode[task] # "on_event"
      /\ expr.kind = "integer" /\ expr.value > 0 /\ Value(expr) = expr.value
      /\ programCounter' = [programCounter EXCEPT ![task] = k + 1]
      /\ resumeAt' = [resumeAt EXCEPT ![task] = total + expr.value]
      /\ draining' = NoTask
      /\ UNCHANGED <<total, accumulated, devices, pendingEffects, varValues, activeLeaf,
                     machineAccumulated, phase>>
  BY <1>1, <1>2, <1>3, StatementOfABody
  DEF ExecuteWait, machineVars, callVars, dataVars, Statement
<1>5. /\ k \in Nat /\ k >= 1 /\ m.counter[task] = k /\ ~ Host!Parked(m, task)
      /\ task # NoTask
  BY <1>1, <1>2, <1>4, PlaceOfABody
<1>6. /\ HostOK(m) /\ m \in HostStates /\ m.outcome = "running" /\ m.total = total
      /\ m.accumulated = accumulated /\ m.resumeAt = resumeAt /\ m.vars = varValues
      /\ m.leaf = activeLeaf /\ m.ticked = machineAccumulated /\ m.entry = Host!Loaded.entry
      /\ SameOutputs(m)
  BY DEF Alike, HostOK
<1>7. ~ Host!Throws(m, expr) /\ Host!Value(m, expr) = expr.value
  BY <1>4 DEF Host!Throws, Host!Value
<1>8. PICK m2 : m2 = Host!Park(m, task, Host!Value(m, expr))
  OBVIOUS
<1>9. m2 = [m EXCEPT !.resumeAt[task] = m.total + expr.value, !.counter[task] = @ + 1]
  <2>1. Body[task][k] \in Statements
    BY StatementsAreAccepted
  <2>2. expr \in Expressions
    BY <1>3, <1>4, <2>1 DEF Statements, SimpleStatements
  <2>3. expr.value \in Int
    BY <1>4, <2>2 DEF Expressions
  <2>4. ~ (expr.value <= 0)
    BY <1>4, <2>3
  <2> QED  BY <1>7, <1>8, <2>4 DEF Host!Park
<1>10. Host!DrainStatement(m, task, Body[task][k]) = m2
  BY <1>3, <1>4, <1>5, <1>7, <1>8 DEF Host!DrainStatement
<1>11. m2.outcome = "running"
  BY <1>6, <1>9 DEF HostStates
<1>12. HostOK(m2) /\ Host!Parked(m2, task)
  BY <1>4, <1>6, <1>10, <1>11, DrainStatementKeeps DEF From
<1>13. BodyFrom(m, task, k) = m2 /\ Host!AfterPass(m2, task) = m2
  BY <1>3, <1>4, <1>5, <1>6, <1>7, <1>8, <1>12, BodyWaits
<1>14. /\ m2.total = m.total /\ m2.accumulated = m.accumulated /\ m2.ticked = m.ticked
       /\ m2.leaf = m.leaf /\ m2.entry = m.entry /\ m2.vars = m.vars /\ m2.shown = m.shown
       /\ m2.resumeAt = [m.resumeAt EXCEPT ![task] = m.total + expr.value]
       /\ m2.counter = [m.counter EXCEPT ![task] = @ + 1]
       /\ m.counter \in [Tasks -> Nat]
  BY <1>6, <1>9 DEF HostStates
<1>15. ASSUME NEW other \in Tasks
       PROVE  SamePlace(m2, other)'
  <2>1. programCounter \in [Tasks -> Nat] /\ other # NoTask
    BY TasksAssumption DEF Simulated, IndInv, TypeOK
  <2>2. CASE other = task
    BY <1>4, <1>5, <1>14, <2>1, <2>2 DEF SamePlace
  <2>3. CASE other # task
    <3>1. SamePlace(m, other)
      BY DEF Alike
    <3> QED  BY <1>4, <1>14, <2>1, <2>3, <3>1 DEF SamePlace
  <2> QED  BY <2>2, <2>3
<1>16. SameOutputs(m2)'
  BY <1>4, <1>6, <1>14 DEF SameOutputs, Queued
<1>17. Alike(m2)'
  BY <1>4, <1>6, <1>11, <1>12, <1>14, <1>15, <1>16 DEF Alike
<1>18. AfterBody(m2)' = AfterBody(m)
  BY <1>1, <1>2, <1>4, <1>5, <1>13 DEF AfterBody
<1> QED  BY <1>17, <1>18

\* A body that is over is over on both sides.
LEMMA BodyStepEnd ==
  ASSUME RunsAlike, Simulated, NEW m, Alike(m), FinishBody
  PROVE  \E m2 : Alike(m2)' /\ AfterBody(m2)' = AfterBody(m)
<1>1. PICK task \in Tasks : task = draining
  BY DEF FinishBody, Simulated, IndInv, TypeOK
<1>2. PICK k : k = programCounter[task]
  OBVIOUS
<1>3. /\ k \in Nat /\ k >= 1
      /\ RunMode[task] = "on_event" => m.counter[task] = NoProgress
      /\ RunMode[task] # "on_event" => m.counter[task] = k /\ ~ Host!Parked(m, task)
      /\ m.resumeAt[task] = NotWaiting /\ task # NoTask
  BY <1>1, <1>2, PlaceOfABody
<1>4. PICK n \in Nat : n = IF RunMode[task] = "loop" THEN 1 ELSE NoProgress
  BY DEF NoProgress
<1>5. /\ programCounter' = [programCounter EXCEPT ![task] = n]
      /\ draining' = NoTask /\ k > Len(Body[task])
      /\ UNCHANGED <<total, accumulated, resumeAt, devices, pendingEffects, varValues, activeLeaf,
                     machineAccumulated, phase>>
  <2>1. Len(Body[task]) \in Nat
    BY TasksAssumption
  <2> QED  BY <1>1, <1>2, <1>3, <1>4, <2>1
           DEF FinishBody, AtStatement, ProgressAfterEnd, machineVars, callVars, dataVars
<1>6. phase # "loops"
  <2>1. SUFFICES ASSUME phase = "loops" PROVE FALSE
    OBVIOUS
  <2>2. \E i \in k..Len(Body[task]) : Body[task][i].kind = "wait"
    BY <1>1, <1>2, <1>3, <2>1 DEF Simulated, Undisturbed, BodiesOfThePhase, WaitsAhead
  <2>3. Len(Body[task]) \in Nat
    BY TasksAssumption
  <2> QED  BY <1>3, <1>5, <2>2, <2>3
<1>7. /\ HostOK(m) /\ m \in HostStates /\ m.outcome = "running" /\ m.total = total
      /\ m.accumulated = accumulated /\ m.resumeAt = resumeAt /\ m.vars = varValues
      /\ m.leaf = activeLeaf /\ m.ticked = machineAccumulated /\ m.entry = Host!Loaded.entry
      /\ SameOutputs(m) /\ m.counter \in [Tasks -> Nat]
  BY DEF Alike, HostOK, HostStates
<1>8. PICK m2 : m2 = (IF RunMode[task] = "on_event" THEN m
                      ELSE [m EXCEPT !.counter[task] = n])
  OBVIOUS
<1>9. BodyFrom(m, task, k) = m2
  BY <1>3, <1>4, <1>5, <1>7, <1>8, BodyEnds
<1>10. /\ m2.total = m.total /\ m2.accumulated = m.accumulated /\ m2.ticked = m.ticked
       /\ m2.leaf = m.leaf /\ m2.entry = m.entry /\ m2.vars = m.vars /\ m2.shown = m.shown
       /\ m2.resumeAt = m.resumeAt /\ m2.outcome = m.outcome
       /\ \A other \in Tasks \ {task} : m2.counter[other] = m.counter[other]
       /\ RunMode[task] = "on_event" => m2.counter[task] = NoProgress
       /\ RunMode[task] # "on_event" => m2.counter[task] = n
  BY <1>3, <1>7, <1>8 DEF HostStates
<1>11. HostOK(m2)
  <2>1. [m EXCEPT !.counter[task] = n] \in From(m)
    BY <1>3, <1>7, TaskMovesKeep DEF NotWaiting, Host!NotWaiting
  <2> QED  BY <1>7, <1>8, <2>1 DEF From
<1>12. ASSUME NEW other \in Tasks
       PROVE  SamePlace(m2, other)'
  <2>1. programCounter \in [Tasks -> Nat] /\ other # NoTask
    BY TasksAssumption DEF Simulated, IndInv, TypeOK
  <2>2. CASE other = task
    BY <1>5, <1>10, <2>1, <2>2 DEF SamePlace
  <2>3. CASE other # task
    <3>1. SamePlace(m, other)
      BY DEF Alike
    <3> QED  BY <1>5, <1>10, <2>1, <2>3, <3>1 DEF SamePlace
  <2> QED  BY <2>2, <2>3
<1>13. SameOutputs(m2)'
  BY <1>5, <1>7, <1>10 DEF SameOutputs, Queued
<1>14. Alike(m2)'
  BY <1>5, <1>7, <1>10, <1>11, <1>12, <1>13 DEF Alike
<1>15. AfterBody(m2)' = AfterBody(m)
  BY <1>1, <1>2, <1>3, <1>5, <1>6, <1>9 DEF AfterBody
<1> QED  BY <1>14, <1>15

------------------------------------------------------------------------------
(* What is left of a call. *)

\* A body in progress leaves everything behind it as it is.
LEMMA LeadsToStays ==
  ASSUME NEW m, NEW m2, NEW h, LeadsTo(m, h), AfterBody(m2)' = AfterBody(m),
         UNCHANGED <<plan, hookTasks, callVars, accumulated, machineAccumulated>>
  PROVE  LeadsTo(m2, h)'
<1>1. PICK body : body = AfterBody(m)
  OBVIOUS
<1>2. PICK afterHooks, afterPlan :
        /\ InHooks(body, afterHooks) /\ InPlan(afterHooks, afterPlan)
        /\ h = AfterCall(AfterLoop(afterPlan))
  BY <1>1 DEF LeadsTo
<1>3. InHooks(body, afterHooks)'
  BY <1>2 DEF InHooks
<1>4. InPlan(afterHooks, afterPlan)'
  BY <1>2 DEF InPlan
<1>5. PICK looped : looped = AfterLoop(afterPlan)
  OBVIOUS
<1>6. AfterLoop(afterPlan)' = looped
  BY <1>5 DEF AfterLoop, callVars, Current, Machine
<1>7. AfterCall(looped)' = AfterCall(looped)
  BY DEF AfterCall, callVars
<1>8. h = AfterCall(AfterLoop(afterPlan))'
  BY <1>2, <1>5, <1>6, <1>7
<1> QED  BY <1>1, <1>3, <1>4, <1>8 DEF LeadsTo

\* A step of the body in progress brings the mirror as far as the simulator.
LEMMA BodyStep ==
  ASSUME RunsAlike, Simulated, Mirrored, Drain, host' = host
  PROVE  Mirrored'
<1>1. PICK m : Alike(m) /\ LeadsTo(m, host)
  BY DEF Mirrored
<1>2. \E m2 : Alike(m2)' /\ AfterBody(m2)' = AfterBody(m)
  BY <1>1, NobodyIsStopped, BodyStepStatement, BodyStepWait, BodyStepEnd DEF Drain
<1>3. PICK m2 : Alike(m2)' /\ AfterBody(m2)' = AfterBody(m)
  BY <1>2
<1>4. UNCHANGED <<plan, hookTasks, callVars, accumulated, machineAccumulated>>
  BY NobodyIsStopped DEF Drain, ExecuteStatement, ExecuteWait, FinishBody, machineVars
<1>5. PICK h : h = host
  OBVIOUS
<1>6. LeadsTo(m2, h)'
  BY <1>1, <1>3, <1>4, <1>5, LeadsToStays
<1> QED  BY <1>3, <1>5, <1>6 DEF Mirrored

\* No hook is due: the loop over the tasks passes over them all.
LEMMA NoHookIsDue ==
  ASSUME NEW path, NEW k \in 1..(Len(TaskOrder) + 1), Due("state_exit", path, k) = {}, NEW h
  PROVE  Hooked!Loop([trigger |-> "state_exit", path |-> path], h, RestOf(TaskOrder, k)) = h
<1>1. PICK hook : hook = [trigger |-> "state_exit", path |-> path]
  OBVIOUS
<1>2. PICK order \in Seq(Tasks) : order = TaskOrder
  BY TasksAssumption
<1>3. PICK rest : rest = SubSeq(order, k, Len(order))
  OBVIOUS
<1>4. /\ Len(rest) = Len(order) - k + 1 /\ Len(rest) \in Nat
      /\ \A i \in 1..(Len(order) - k + 1) : rest[i] = order[k + i - 1]
  BY <1>2, <1>3, Hooked!RestOfASequence
<1>5. ASSUME NEW i \in 1..Len(rest), NEW g \in {h}
      PROVE  Host!RunHook(g, hook, rest[i]) \in {h}
  <2>1. k + i - 1 \in k..Len(order) /\ rest[i] = order[k + i - 1]
    BY <1>2, <1>4
  <2>2. ~ (Trigger[rest[i]] = "state_exit" /\ Membership[rest[i]] = path)
    BY <1>2, <2>1 DEF Due
  <2>3. hook.trigger = "state_exit" /\ hook.path = path
    BY <1>1
  <2> QED  BY <2>2, <2>3 DEF Host!RunHook
<1>6. Hooked!Loop(hook, h, rest) \in {h}
  BY <1>4, <1>5, Hooked!LoopStaysIn
<1> QED  BY <1>1, <1>2, <1>3, <1>6 DEF RestOf

\* When no hook is left the interpreter has nothing to do for one.
LEMMA HooksAreOver ==
  ASSUME NEW h, NEW g, InHooks(h, g), hookTasks = {}
  PROVE  g = h
BY NoHookIsDue DEF InHooks

\* Without hooks and without a transition only the loop and the call are left.
LEMMA MirrorLeads ==
  ASSUME NEW m, NEW h, LeadsTo(m, h), hookTasks = {}, plan = << >>
  PROVE  h = AfterCall(AfterLoop(AfterBody(m)))
<1>1. PICK body : body = AfterBody(m)
  OBVIOUS
<1>2. PICK afterHooks, afterPlan :
        /\ InHooks(body, afterHooks) /\ InPlan(afterHooks, afterPlan)
        /\ h = AfterCall(AfterLoop(afterPlan))
  BY <1>1 DEF LeadsTo
<1>3. afterHooks = body
  BY <1>2, HooksAreOver
<1>4. afterPlan = afterHooks
  BY <1>2 DEF InPlan
<1> QED  BY <1>1, <1>2, <1>3, <1>4

\* The same, for the state a step leads to.
LEMMA MirrorIsLed ==
  ASSUME NEW m, NEW h, hookTasks' = {}, plan' = << >>, h = AfterCall(AfterLoop(AfterBody(m)))'
  PROVE  LeadsTo(m, h)'
<1>1. PICK body : body = AfterBody(m)'
  OBVIOUS
<1>2. InHooks(body, body)'
  BY DEF InHooks
<1>3. InPlan(body, body)'
  BY DEF InPlan
<1>4. h = AfterCall(AfterLoop(body))'
  BY <1>1
<1> QED  BY <1>1, <1>2, <1>3, <1>4 DEF LeadsTo

------------------------------------------------------------------------------
(* Intervals. *)

\* How a step that moves clocks only is mirrored.
LEMMA ClocksMove ==
  ASSUME NEW m, Alike(m), NEW m2, m2 \in HostStates,
         m2.outcome = m.outcome, m2.total = m.total, m2.counter = m.counter,
         m2.resumeAt = m.resumeAt, m2.vars = m.vars, m2.shown = m.shown, m2.leaf = m.leaf,
         m2.entry = m.entry, m2.accumulated = accumulated', m2.ticked = machineAccumulated',
         UNCHANGED <<total, resumeAt, programCounter, devices, pendingEffects, varValues,
                     activeLeaf, draining>>
  PROVE  Alike(m2)'
<1>1. HostOK(m2)
  BY DEF Alike, HostOK, WaitsAreRemembered
<1>2. \A task \in Tasks : SamePlace(m2, task)'
  BY DEF Alike, SamePlace
<1>3. SameOutputs(m2)'
  BY DEF Alike, SameOutputs, Queued
<1> QED  BY <1>1, <1>2, <1>3 DEF Alike

\* A time shorter than an interval holds no whole one.
LEMMA NoWholeInterval ==
  ASSUME NEW time \in Nat, NEW interval \in Int, time < interval
  PROVE  time \div interval = 0
OBVIOUS

\* A machine is given the time that has passed.
LEMMA ChargeMachineMirrors ==
  ASSUME Simulated, NEW m, Alike(m), ChargeMachine
  PROVE  \E m2 : Alike(m2)' /\ AfterLoop(AfterBody(m2))' = AfterLoop(m)
<1> USE DEF taskVars, dataVars, machineVars, callVars, runVars
<1>1. PICK machine \in Machines : machine = Machine
  BY CursorType DEF ChargeMachine, Simulated, IndInv
<1>2. PICK order \in Seq(Machines) : order = MachineOrder
  BY MachinesAssumption
<1>3. PICK k \in 1..Len(order) : k = cursor
  BY <1>2 DEF ChargeMachine, AtMachine, Simulated, IndInv, TypeOK
<1>4. PICK interval \in Int : interval = TickIntervalOf[machine] /\ interval > 0
  BY <1>1, MachinesAssumption DEF ChargeMachine
<1>5. PICK passed \in Nat : passed = elapsed
  BY DEF Simulated, IndInv, TypeOK
<1>6. /\ HostOK(m) /\ m \in HostStates /\ m.outcome = "running" /\ m.ticked = machineAccumulated
      /\ m.accumulated = accumulated /\ m.ticked \in [Machines -> Int]
  BY DEF Alike, HostOK, HostStates
<1>7. PICK time \in Int : time = m.ticked[machine] + passed
  BY <1>6
<1>8. PICK m2 : m2 = [m EXCEPT !.ticked[machine] = time]
  OBVIOUS
<1>9. /\ m2 \in HostStates /\ m2.outcome = m.outcome /\ m2.total = m.total
      /\ m2.counter = m.counter /\ m2.resumeAt = m.resumeAt /\ m2.vars = m.vars
      /\ m2.shown = m.shown /\ m2.leaf = m.leaf /\ m2.entry = m.entry
      /\ m2.accumulated = m.accumulated /\ m2.ticked = [m.ticked EXCEPT ![machine] = time]
  <2>1. m2 \in HostStates
    BY <1>6, <1>8, MachineClockIsSet
  <2> QED  BY <1>6, <1>8, <2>1 DEF HostStates
<1>10. /\ machineAccumulated' = [machineAccumulated EXCEPT ![machine] = time]
       /\ accumulated' = accumulated
  BY <1>1, <1>5, <1>6, <1>7 DEF ChargeMachine
<1>11. Alike(m2)'
  <2>1. m2.ticked = machineAccumulated' /\ m2.accumulated = accumulated'
    BY <1>6, <1>9, <1>10
  <2> QED  BY <1>9, <2>1, ClocksMove DEF ChargeMachine
<1>12. Host!TickMachine(m, passed, machine) = UsedTicks!Loop(machine, m2, Host!Times(time \div interval))
  <2>1. [m EXCEPT !.ticked[machine] = @ + passed] = m2
    BY <1>7, <1>8
  <2>2. Host!TickMachine(m, passed, machine) = Host!ChargeMachine(m, passed, machine)
    BY <1>4 DEF Host!TickMachine
  <2>3. Host!ChargeMachine(m, passed, machine)
          = UsedTicks!Loop(machine, [m EXCEPT !.ticked[machine] = @ + passed],
              Host!Times((m.ticked[machine] + passed) \div TickIntervalOf[machine]))
    BY DEF Host!ChargeMachine, Host!ForEach, UsedTicks!Loop
  <2> QED  BY <1>4, <1>7, <2>1, <2>2, <2>3
<1>13. AfterLoop(m) = TickedMachines!Loop(passed, Host!TickMachine(m, passed, machine),
                                          SubSeq(order, k + 1, Len(order)))
  <2>1. AfterLoop(m) = TickedMachines!Loop(passed, m, SubSeq(order, k, Len(order)))
    BY <1>2, <1>3, <1>5 DEF ChargeMachine, AfterLoop, RestOf
  <2>2. order[k] = machine
    BY <1>1, <1>2, <1>3 DEF Machine
  <2> QED  BY <1>6, <2>1, <2>2, TickedMachines!LoopGoesOn
<1>14. AfterBody(m2)' = m2
  BY DEF ChargeMachine, AtMachine, Quiet, AfterBody
<1>15. machineAccumulated'[machine] = time
  BY <1>6, <1>10
<1>16. AfterLoop(m2)' = TickedMachines!Loop(passed, UsedTicks!Loop(machine, m2, Host!Times(time \div interval)),
                                           SubSeq(order, k + 1, Len(order)))
  <2>1. phase' = "machines" /\ charged' = TRUE /\ cursor' = k /\ elapsed' = passed
    BY <1>3, <1>5 DEF ChargeMachine
  <2>2. MachineOrder[k] = machine
    BY <1>1, <1>3 DEF Machine
  <2> QED  BY <1>2, <1>4, <1>15, <2>1, <2>2 DEF AfterLoop, RestOf, CatchingUpMachine, Machine
<1>17. PICK body : body = m2
  OBVIOUS
<1> QED  BY <1>11, <1>12, <1>13, <1>14, <1>16

\* A machine whose interval has not come round is left; the interpreter's loop
\* over whole intervals then has no round left.
LEMMA LeaveMachineMirrors ==
  ASSUME Simulated, NEW m, Alike(m), LeaveMachine
  PROVE  \E m2 : Alike(m2)' /\ AfterLoop(AfterBody(m2))' = AfterLoop(m)
<1> USE DEF taskVars, dataVars, machineVars, callVars, runVars
<1>1. PICK machine \in Machines : machine = Machine
  BY CursorType DEF LeaveMachine, Simulated, IndInv
<1>2. PICK order \in Seq(Machines) : order = MachineOrder
  BY MachinesAssumption
<1>3. PICK k \in 1..Len(order) : k = cursor
  BY <1>2 DEF LeaveMachine, AtMachine, Simulated, IndInv, TypeOK
<1>4. PICK interval \in Int : interval = TickIntervalOf[machine]
  BY MachinesAssumption
<1>5. PICK passed \in Nat : passed = elapsed
  BY DEF Simulated, IndInv, TypeOK
<1>6. /\ HostOK(m) /\ m \in HostStates /\ m.outcome = "running" /\ m.ticked = machineAccumulated
      /\ m.accumulated = accumulated /\ m.ticked \in [Machines -> Int]
      /\ machineAccumulated \in [Machines -> Nat] /\ charged \in BOOLEAN
  BY DEF Alike, HostOK, HostStates, Simulated, IndInv, TypeOK
<1>7. PICK m2 : m2 = IF charged THEN m ELSE [m EXCEPT !.ticked[machine] = 0]
  OBVIOUS
<1>8. /\ m2 \in HostStates /\ m2.outcome = m.outcome /\ m2.total = m.total
      /\ m2.counter = m.counter /\ m2.resumeAt = m.resumeAt /\ m2.vars = m.vars
      /\ m2.shown = m.shown /\ m2.leaf = m.leaf /\ m2.entry = m.entry
      /\ m2.accumulated = m.accumulated
      /\ m2.ticked = IF charged THEN m.ticked ELSE [m.ticked EXCEPT ![machine] = 0]
  <2>1. CASE charged
    BY <1>6, <1>7, <2>1
  <2>2. CASE ~ charged
    <3>1. PICK zero \in Int : zero = 0
      OBVIOUS
    <3>2. m2 = [m EXCEPT !.ticked[machine] = zero]
      BY <1>7, <2>2, <3>1
    <3>3. m2 \in HostStates
      BY <1>6, <3>2, MachineClockIsSet
    <3> QED  BY <1>6, <2>2, <3>1, <3>2, <3>3 DEF HostStates
  <2> QED  BY <2>1, <2>2
<1>9. /\ machineAccumulated' = IF charged THEN machineAccumulated
                               ELSE [machineAccumulated EXCEPT ![machine] = 0]
      /\ accumulated' = accumulated
  BY <1>1 DEF LeaveMachine
<1>10. Alike(m2)'
  <2>1. m2.ticked = machineAccumulated' /\ m2.accumulated = accumulated'
    BY <1>6, <1>8, <1>9
  <2> QED  BY <1>8, <2>1, ClocksMove DEF LeaveMachine
<1>11. AfterBody(m2)' = m2
  BY DEF LeaveMachine, AtMachine, Quiet, AfterBody
<1>12. AfterLoop(m2)' = TickedMachines!Loop(passed, m2, SubSeq(order, k + 1, Len(order)))
  BY <1>2, <1>3, <1>5 DEF LeaveMachine, AfterLoop, RestOf
<1>13. CASE charged
  <2>1. 0 <= machineAccumulated[machine] /\ machineAccumulated[machine] < interval
    BY <1>1, <1>4, <1>6, <1>13 DEF LeaveMachine
  <2>2. PICK time \in Nat : time = machineAccumulated[machine]
    BY <1>6
  <2>3. time \div interval = 0
    BY <2>1, <2>2, NoWholeInterval
  <2>4. Len(Host!Times(0)) = 0
    BY DEF Host!Times
  <2>5. CatchingUpMachine(m, machine, machineAccumulated[machine]) = m
    BY <1>4, <2>2, <2>3, <2>4, UsedTicks!LoopOverNothing DEF CatchingUpMachine
  <2>6. AfterLoop(m) = TickedMachines!Loop(passed, m, SubSeq(order, k + 1, Len(order)))
    BY <1>1, <1>2, <1>3, <1>5, <1>13, <2>5 DEF LeaveMachine, AfterLoop, RestOf
  <2> QED  BY <1>7, <1>10, <1>11, <1>12, <1>13, <2>6
<1>14. CASE ~ charged
  <2>1. AfterLoop(m) = TickedMachines!Loop(passed, m, SubSeq(order, k, Len(order)))
    BY <1>2, <1>3, <1>5, <1>14 DEF LeaveMachine, AfterLoop, RestOf
  <2>2. order[k] = machine
    BY <1>1, <1>2, <1>3 DEF Machine
  <2>3. interval <= 0
    BY <1>1, <1>4, <1>14 DEF LeaveMachine
  <2>4. Host!TickMachine(m, passed, machine) = m2
    BY <1>4, <1>7, <1>14, <2>3 DEF Host!TickMachine
  <2> QED  BY <1>6, <1>10, <1>11, <1>12, <2>1, <2>2, <2>4, TickedMachines!LoopGoesOn
<1> QED  BY <1>13, <1>14

\* A task is given time on both sides.
LEMMA ChargeEveryTaskMirrors ==
  ASSUME Simulated, NEW m, Alike(m), ChargeEveryTask
  PROVE  \E m2 : Alike(m2)' /\ AfterLoop(AfterBody(m2))' = AfterLoop(m)
<1> USE DEF taskVars, dataVars, machineVars, callVars, runVars
<1>1. PICK task \in Tasks : task = Current
  BY CursorType DEF ChargeEveryTask, Simulated, IndInv
<1>2. PICK order \in Seq(Tasks) : order = TaskOrder
  BY TasksAssumption
<1>3. PICK k \in 1..Len(order) : k = cursor
  BY <1>2 DEF ChargeEveryTask, AtTask, Simulated, IndInv, TypeOK
<1>4. PICK interval \in Nat : interval = IntervalOf[task] /\ RunMode[task] = "every"
  BY <1>1, TasksAssumption DEF ChargeEveryTask
<1>5. PICK passed \in Nat : passed = elapsed
  BY DEF Simulated, IndInv, TypeOK
<1>6. /\ HostOK(m) /\ m \in HostStates /\ m.outcome = "running" /\ m.ticked = machineAccumulated
      /\ m.accumulated = accumulated /\ m.accumulated \in [Tasks -> Int]
  BY DEF Alike, HostOK, HostStates
<1>7. PICK time \in Int : time = m.accumulated[task] + passed
  BY <1>6
<1>8. PICK m2 : m2 = [m EXCEPT !.accumulated[task] = time]
  OBVIOUS
<1>9. /\ m2 \in HostStates /\ m2.outcome = m.outcome /\ m2.total = m.total
      /\ m2.counter = m.counter /\ m2.resumeAt = m.resumeAt /\ m2.vars = m.vars
      /\ m2.shown = m.shown /\ m2.leaf = m.leaf /\ m2.entry = m.entry
      /\ m2.ticked = m.ticked /\ m2.accumulated = [m.accumulated EXCEPT ![task] = time]
  BY <1>6, <1>8 DEF HostStates
<1>10. /\ accumulated' = [accumulated EXCEPT ![task] = time]
       /\ machineAccumulated' = machineAccumulated
  BY <1>1, <1>5, <1>6, <1>7 DEF ChargeEveryTask
<1>11. Alike(m2)'
  <2>1. m2.ticked = machineAccumulated' /\ m2.accumulated = accumulated'
    BY <1>6, <1>9, <1>10
  <2> QED  BY <1>9, <2>1, ClocksMove DEF ChargeEveryTask
<1>12. Host!FireEvery(m, passed, task) = UsedIntervals!Loop(task, m2, Host!Times(time \div interval))
  <2>1. [m EXCEPT !.accumulated[task] = @ + passed] = m2
    BY <1>7, <1>8
  <2>2. Host!FireEvery(m, passed, task) = Host!ChargeEvery(m, passed, task)
    BY <1>4, TasksAssumption DEF Host!FireEvery
  <2>3. Host!ChargeEvery(m, passed, task)
          = UsedIntervals!Loop(task, [m EXCEPT !.accumulated[task] = @ + passed],
              Host!Times((m.accumulated[task] + passed) \div IntervalOf[task]))
    BY DEF Host!ChargeEvery, Host!ForEach, UsedIntervals!Loop
  <2> QED  BY <1>4, <1>7, <2>1, <2>2, <2>3
<1>13. AfterLoop(m) = FiredTasks!Loop(passed, Host!FireEvery(m, passed, task),
                                      SubSeq(order, k + 1, Len(order)))
  <2>1. AfterLoop(m) = FiredTasks!Loop(passed, m, SubSeq(order, k, Len(order)))
    BY <1>2, <1>3, <1>5 DEF ChargeEveryTask, AfterLoop, RestOf
  <2>2. order[k] = task
    BY <1>1, <1>2, <1>3 DEF Current
  <2> QED  BY <1>6, <2>1, <2>2, FiredTasks!LoopGoesOn
<1>14. AfterBody(m2)' = m2
  BY DEF ChargeEveryTask, AtTask, Quiet, AfterBody
<1>15. accumulated'[task] = time
  BY <1>6, <1>10
<1>16. AfterLoop(m2)' = FiredTasks!Loop(passed, UsedIntervals!Loop(task, m2, Host!Times(time \div interval)),
                                        SubSeq(order, k + 1, Len(order)))
  <2>1. phase' = "every" /\ charged' = TRUE /\ cursor' = k /\ elapsed' = passed
    BY <1>3, <1>5 DEF ChargeEveryTask
  <2>2. TaskOrder[k] = task
    BY <1>1, <1>3 DEF Current
  <2> QED  BY <1>2, <1>4, <1>15, <2>1, <2>2 DEF AfterLoop, RestOf, CatchingUpTask, Current
<1> QED  BY <1>11, <1>12, <1>13, <1>14, <1>16

\* What is left of the loop over the every tasks while one of them catches up.
LEMMA FiringTask ==
  ASSUME Simulated, NEW m, NEW task, task = Current, phase = "every", AtTask, charged
  PROVE  /\ RunMode[task] = "every" /\ task \in Tasks /\ IntervalOf[task] \in Nat
         /\ IntervalOf[task] > 0
         /\ AfterLoop(m) = FiredTasks!Loop(elapsed, CatchingUpTask(m, task, accumulated[task]),
                                           RestOf(TaskOrder, cursor + 1))
<1>1. RunMode[task] = "every" /\ task \in Tasks
  BY CursorType DEF Simulated, IndInv, TransitionInvariant
<1> QED  BY <1>1, TasksAssumption DEF AfterLoop

\* An every task is left when no whole interval remains, other tasks at once.
LEMMA LeaveEveryTaskMirrors ==
  ASSUME Simulated, NEW m, Alike(m), LeaveEveryTask
  PROVE  \E m2 : Alike(m2)' /\ AfterLoop(AfterBody(m2))' = AfterLoop(m)
<1> USE DEF taskVars, dataVars, machineVars, callVars, runVars
<1>1. PICK task \in Tasks : task = Current
  BY CursorType DEF LeaveEveryTask, Simulated, IndInv
<1>2. PICK order \in Seq(Tasks) : order = TaskOrder
  BY TasksAssumption
<1>3. PICK k \in 1..Len(order) : k = cursor
  BY <1>2 DEF LeaveEveryTask, AtTask, Simulated, IndInv, TypeOK
<1>4. PICK passed \in Nat : passed = elapsed
  BY DEF Simulated, IndInv, TypeOK
<1>5. /\ m \in HostStates /\ m.outcome = "running" /\ m.ticked = machineAccumulated
      /\ m.accumulated = accumulated /\ accumulated \in [Tasks -> Nat] /\ charged \in BOOLEAN
  BY DEF Alike, HostOK, Simulated, IndInv, TypeOK
<1>6. Alike(m)'
  <2>1. m.ticked = machineAccumulated' /\ m.accumulated = accumulated'
    BY <1>5 DEF LeaveEveryTask
  <2> QED  BY <1>5, <2>1, ClocksMove DEF LeaveEveryTask
<1>7. AfterBody(m)' = m
  BY DEF LeaveEveryTask, AtTask, Quiet, AfterBody
<1>8. AfterLoop(m)' = FiredTasks!Loop(passed, m, SubSeq(order, k + 1, Len(order)))
  BY <1>2, <1>3, <1>4 DEF LeaveEveryTask, AfterLoop, RestOf
<1>9. CASE charged
  <2>0. phase = "every" /\ AtTask /\ accumulated[task] < IntervalOf[task]
    BY <1>1, <1>9 DEF LeaveEveryTask
  <2>1. /\ IntervalOf[task] \in Nat
        /\ AfterLoop(m) = FiredTasks!Loop(elapsed, CatchingUpTask(m, task, accumulated[task]),
                                          RestOf(TaskOrder, cursor + 1))
    BY <1>1, <1>9, <2>0, FiringTask
  <2>2. PICK time \in Nat, interval \in Nat : time = accumulated[task] /\ interval = IntervalOf[task]
    BY <1>5, <2>1
  <2>3. time \div interval = 0
    BY <2>0, <2>2, NoWholeInterval
  <2>4. Len(Host!Times(0)) = 0
    BY DEF Host!Times
  <2>5. CatchingUpTask(m, task, accumulated[task]) = m
    BY <2>2, <2>3, <2>4, UsedIntervals!LoopOverNothing DEF CatchingUpTask
  <2> QED  BY <1>2, <1>3, <1>4, <1>6, <1>7, <1>8, <2>1, <2>5 DEF RestOf
<1>10. CASE ~ charged
  <2>1. AfterLoop(m) = FiredTasks!Loop(passed, m, SubSeq(order, k, Len(order)))
    BY <1>2, <1>3, <1>4, <1>10 DEF LeaveEveryTask, AfterLoop, RestOf
  <2>2. order[k] = task
    BY <1>1, <1>2, <1>3 DEF Current
  <2>3. running[task]
    BY DEF Simulated, Undisturbed, AllTasksRun
  <2>4. Host!FireEvery(m, passed, task) = m
    BY <1>1, <1>10, <2>3 DEF Host!FireEvery, LeaveEveryTask
  <2> QED  BY <1>5, <1>6, <1>7, <1>8, <2>1, <2>2, <2>4, FiredTasks!LoopGoesOn
<1> QED  BY <1>9, <1>10

------------------------------------------------------------------------------
(* Bodies that begin. *)

\* How a step that begins or moves one task is mirrored.
LEMMA TaskMoves ==
  ASSUME Simulated, NEW m, Alike(m), NEW task \in Tasks, NEW m2, HostOK(m2), m2.outcome = "running",
         m2.total = m.total, m2.vars = m.vars, m2.shown = m.shown, m2.leaf = m.leaf,
         m2.entry = m.entry, m2.ticked = m.ticked,
         m2.resumeAt = resumeAt', m2.accumulated = accumulated',
         \A other \in Tasks \ {task} :
           m2.counter[other] = m.counter[other] /\ programCounter'[other] = programCounter[other],
         SamePlace(m2, task)', draining' \in {NoTask, task},
         UNCHANGED <<total, devices, pendingEffects, varValues, activeLeaf, machineAccumulated>>
  PROVE  Alike(m2)'
<1>1. ASSUME NEW other \in Tasks
      PROVE  SamePlace(m2, other)'
  <2>1. CASE other = task
    BY <2>1
  <2>2. CASE other # task
    <3>1. SamePlace(m, other) /\ other # draining'
      BY <2>2, TasksAssumption DEF Alike
    <3> QED  BY <2>2, <3>1 DEF SamePlace
  <2> QED  BY <2>1, <2>2
<1>2. SameOutputs(m2)'
  BY DEF Alike, SameOutputs, Queued
<1> QED  BY <1>1, <1>2 DEF Alike

\* Draining a body from where it is.
LEMMA DrainIsBodyFrom ==
  ASSUME NEW m, NEW task \in Tasks, RunMode[task] # "on_event", Host!Runnable(m, task),
         NEW k, k = m.counter[task]
  PROVE  Host!Drain(m, task) = BodyFrom(m, task, k)
<1>1. Host!Drain(m, task)
        = Host!Finish(Draining!Loop(task, m, SubSeq(Body[task], m.counter[task], Len(Body[task]))), task)
  BY DEF Host!Drain, Host!ForEach, Draining!Loop
<1> QED  BY <1>1 DEF BodyFrom, RestOf

\* A body that begins: the task stands at its first statement.
Begun(m, task) == [m EXCEPT !.counter[task] = 1]

\* The mirror in which a body has just begun: what the interpreter's drain makes
\* of it is what is left of the body.
LEMMA BodyIsBegun ==
  ASSUME NEW m, HostOK(m), m.outcome = "running", NEW task \in Tasks,
         m.resumeAt[task] = NotWaiting
  PROVE  /\ HostOK(Begun(m, task)) /\ Begun(m, task).outcome = "running"
         /\ Begun(m, task).total = m.total /\ Begun(m, task).vars = m.vars
         /\ Begun(m, task).shown = m.shown /\ Begun(m, task).leaf = m.leaf
         /\ Begun(m, task).entry = m.entry /\ Begun(m, task).ticked = m.ticked
         /\ Begun(m, task).resumeAt = m.resumeAt
         /\ Begun(m, task).accumulated = m.accumulated /\ Begun(m, task).counter[task] = 1
         /\ \A other \in Tasks \ {task} : Begun(m, task).counter[other] = m.counter[other]
         /\ RunMode[task] # "on_event" /\ Host!Runnable(m, task) =>
              Host!Drain(Begun(m, task), task) = BodyFrom(Begun(m, task), task, 1)
<1>1. PICK one \in Nat : one = 1
  OBVIOUS
<1>0. PICK m2 : m2 = Begun(m, task)
  OBVIOUS
<1>2. m2 = [m EXCEPT !.counter[task] = one]
  BY <1>0, <1>1 DEF Begun
<1>3. m2 \in From(m)
  <2>1. [m EXCEPT !.counter[task] = one] \in From(m)
    BY <1>1, TaskMovesKeep
  <2> QED  BY <1>2, <2>1
<1>4. HostOK(m2)
  BY <1>3 DEF From
<1>5. /\ m2.outcome = "running"
      /\ m2.total = m.total /\ m2.vars = m.vars /\ m2.shown = m.shown /\ m2.leaf = m.leaf
      /\ m2.entry = m.entry /\ m2.ticked = m.ticked /\ m2.resumeAt = m.resumeAt
      /\ m2.accumulated = m.accumulated /\ m2.counter[task] = 1
      /\ \A other \in Tasks \ {task} : m2.counter[other] = m.counter[other]
  BY <1>1, <1>2 DEF HostOK, HostStates
<1>6. Host!Runnable(m, task) => Host!Runnable(m2, task)
  BY <1>5 DEF Host!Runnable
<1>7. RunMode[task] # "on_event" /\ Host!Runnable(m, task) =>
        Host!Drain(m2, task) = BodyFrom(m2, task, one)
  BY <1>1, <1>5, <1>6, DrainIsBodyFrom
<1> QED  BY <1>0, <1>1, <1>4, <1>5, <1>7

\* One interval, or one tick, of a task or machine that catches up.
LEMMA OneInterval ==
  ASSUME NEW m, m.outcome = "running", NEW task, NEW n \in Nat, n >= 1
  PROVE  UsedIntervals!Loop(task, m, Host!Times(n))
           = UsedIntervals!Loop(task, Host!UseInterval(m, task, 1), Host!Times(n - 1))
<1>1. PICK seq, rest : seq = Host!Times(n) /\ rest = Host!Times(n - 1)
  OBVIOUS
<1>2. Len(seq) = n /\ Len(rest) = n - 1 /\ seq[1] = 1
  BY <1>1 DEF Host!Times
<1>3. UsedIntervals!Behind(task, seq, 1, rest)
  BY DEF UsedIntervals!Behind, Host!UseInterval
<1>4. UsedIntervals!Runs(m)
  BY DEF UsedIntervals!Runs
<1>5. Len(seq) \in Nat /\ Len(rest) \in Nat /\ Len(seq) = 1 + Len(rest)
  BY <1>2
<1>6. UsedIntervals!Loop(task, m, seq)
        = UsedIntervals!Loop(task, Host!UseInterval(m, task, seq[1]), rest)
  BY <1>3, <1>4, <1>5, UsedIntervals!LoopBegins
<1> QED  BY <1>1, <1>2, <1>6

\* A time as long as an interval is one interval and the rest.
LEMMA OneTick ==
  ASSUME NEW m, m.outcome = "running", NEW machine, NEW n \in Nat, n >= 1
  PROVE  UsedTicks!Loop(machine, m, Host!Times(n))
           = UsedTicks!Loop(machine, Host!UseTick(m, machine, 1), Host!Times(n - 1))
<1>1. PICK seq, rest : seq = Host!Times(n) /\ rest = Host!Times(n - 1)
  OBVIOUS
<1>2. Len(seq) = n /\ Len(rest) = n - 1 /\ seq[1] = 1
  BY <1>1 DEF Host!Times
<1>3. UsedTicks!Behind(machine, seq, 1, rest)
  BY DEF UsedTicks!Behind, Host!UseTick
<1>4. UsedTicks!Runs(m)
  BY DEF UsedTicks!Runs
<1>5. Len(seq) \in Nat /\ Len(rest) \in Nat /\ Len(seq) = 1 + Len(rest)
  BY <1>2
<1>6. UsedTicks!Loop(machine, m, seq)
        = UsedTicks!Loop(machine, Host!UseTick(m, machine, seq[1]), rest)
  BY <1>3, <1>4, <1>5, UsedTicks!LoopBegins
<1> QED  BY <1>1, <1>2, <1>6

\* What is left holds one whole interval less.
LEMMA OneIntervalLess ==
  ASSUME NEW time \in Nat, NEW interval \in Nat, interval > 0, time >= interval
  PROVE  /\ time \div interval \in Nat /\ time \div interval >= 1
         /\ (time - interval) \div interval = (time \div interval) - 1
<1>1. PICK n \in Int, r \in Int : /\ n = time \div interval /\ time = n * interval + r
                                  /\ 0 <= r /\ r < interval
  <2>1. /\ time \div interval \in Int /\ time % interval \in Int
        /\ time = (time \div interval) * interval + (time % interval)
        /\ 0 <= time % interval /\ time % interval < interval
    OBVIOUS
  <2> QED  BY <2>1
<1>2. n >= 1
  <2>1. SUFFICES ASSUME n <= 0 PROVE FALSE
    BY <1>1
  <2>2. n * interval <= 0
    BY <1>1, <2>1
  <2> QED  BY <1>1, <2>2
<1>3. (n - 1) * interval + r = time - interval
  BY <1>1
<1>4. ((n - 1) * interval + r) \div interval = n - 1
  BY <1>1, <1>2
<1> QED  BY <1>1, <1>2, <1>3, <1>4

\* An interval of an every task is used up on both sides, and starts its body or not.
LEMMA FireEveryTaskMirrors ==
  ASSUME Simulated, NEW m, Alike(m), FireEveryTask
  PROVE  \E m2 : Alike(m2)' /\ AfterLoop(AfterBody(m2))' = AfterLoop(m)
<1> USE DEF taskVars, dataVars, machineVars, callVars, runVars
<1>1. PICK task \in Tasks : task = Current
  BY CursorType DEF FireEveryTask, Simulated, IndInv
<1>2. /\ RunMode[task] = "every"
      /\ AfterLoop(m) = FiredTasks!Loop(elapsed, CatchingUpTask(m, task, accumulated[task]),
                                        RestOf(TaskOrder, cursor + 1))
      /\ IntervalOf[task] \in Nat /\ IntervalOf[task] > 0
  BY <1>1, FiringTask DEF FireEveryTask
<1>3. /\ accumulated \in [Tasks -> Nat] /\ programCounter \in [Tasks -> Nat]
      /\ resumeAt \in [Tasks -> Nat]
  BY DEF Simulated, IndInv, TypeOK
<1>4. PICK time, interval \in Nat : time = accumulated[task] /\ interval = IntervalOf[task]
  BY <1>2, <1>3
<1>5. time >= interval /\ interval > 0
  BY <1>1, <1>2, <1>4 DEF FireEveryTask
<1>6. PICK n \in Nat : /\ n = time \div interval /\ n >= 1 /\ (time - interval) \div interval = n - 1
  BY <1>5, OneIntervalLess
<1>7. /\ HostOK(m) /\ m \in HostStates /\ m.outcome = "running" /\ m.ticked = machineAccumulated
      /\ m.accumulated = accumulated /\ m.resumeAt = resumeAt /\ m.accumulated \in [Tasks -> Int]
      /\ m.counter[task] = programCounter[task]
  BY <1>2 DEF Alike, HostOK, HostStates, SamePlace
<1>8. PICK left \in Int : left = time - interval
  OBVIOUS
<1>9. PICK m1 : m1 = [m EXCEPT !.accumulated[task] = left]
  OBVIOUS
<1>10. /\ m1 \in HostStates /\ m1.outcome = m.outcome /\ m1.total = m.total
       /\ m1.counter = m.counter /\ m1.resumeAt = m.resumeAt /\ m1.vars = m.vars
       /\ m1.shown = m.shown /\ m1.leaf = m.leaf /\ m1.entry = m.entry
       /\ m1.ticked = m.ticked /\ m1.accumulated = [m.accumulated EXCEPT ![task] = left]
  BY <1>7, <1>9 DEF HostStates
<1>11. HostOK(m1)
  BY <1>7, <1>10 DEF HostOK, WaitsAreRemembered
<1>12. Host!UseInterval(m, task, 1) = Host!StartEvery(m1, task)
  <2>1. [m EXCEPT !.accumulated[task] = @ - IntervalOf[task]] = m1
    BY <1>4, <1>7, <1>8, <1>9
  <2> QED  BY <2>1 DEF Host!UseInterval
<1>13. CatchingUpTask(m, task, accumulated[task])
         = UsedIntervals!Loop(task, Host!StartEvery(m1, task), Host!Times(n - 1))
  BY <1>4, <1>6, <1>7, <1>12, OneInterval DEF CatchingUpTask
<1>14. /\ accumulated' = [accumulated EXCEPT ![task] = left]
       /\ machineAccumulated' = machineAccumulated /\ resumeAt' = resumeAt
       /\ phase' = "every" /\ charged' = TRUE /\ cursor' = cursor /\ elapsed' = elapsed
       /\ draining = NoTask /\ phase = "every"
       /\ UNCHANGED <<total, devices, pendingEffects, varValues, activeLeaf, machineAccumulated>>
       /\ IF CanFire(task)
            THEN /\ programCounter' = [programCounter EXCEPT ![task] = 1]
                 /\ draining' = task
            ELSE UNCHANGED <<programCounter, draining>>
  BY <1>1, <1>4, <1>8 DEF FireEveryTask, CarryOver, AtTask, Quiet, BeginDrain
<1>15. accumulated'[task] = left /\ left \div interval = n - 1
  BY <1>3, <1>6, <1>8, <1>14
<1>16. ASSUME NEW body
       PROVE  AfterLoop(body)' = FiredTasks!Loop(elapsed,
                 UsedIntervals!Loop(task, body, Host!Times(n - 1)), RestOf(TaskOrder, cursor + 1))
  <2>1. Current' = task
    BY <1>1, <1>14 DEF Current
  <2> QED  BY <1>4, <1>14, <1>15, <2>1 DEF AfterLoop, CatchingUpTask
<1>17. CanFire(task) <=> m1.counter[task] = Host!NoProgress /\ Host!Runnable(m1, task)
  <2>1. Host!Runnable(m1, task) <=> Host!Runnable(m, task)
    BY <1>10 DEF Host!Runnable
  <2>2. Host!Runnable(m, task) <=> Runnable(task)
    BY SameRunnable
  <2> QED  BY <1>7, <1>10, <2>1, <2>2 DEF CanFire, NoProgress, Host!NoProgress
<1>18. CASE CanFire(task)
  <2>1. m1.resumeAt[task] = NotWaiting
    <3>1. task # NoTask /\ programCounter[task] = NoProgress
      BY <1>18, TasksAssumption DEF CanFire
    <3> QED  BY <1>2, <1>7, <1>10, <1>14, <3>1
             DEF Simulated, IndInv, ParkedTasksHaveAWakeUp, NoProgress
  <2>2. PICK m2 : m2 = Begun(m1, task)
    OBVIOUS
  <2>3. /\ HostOK(m2) /\ m2.outcome = "running"
        /\ m2.total = m1.total /\ m2.vars = m1.vars /\ m2.shown = m1.shown /\ m2.leaf = m1.leaf
        /\ m2.entry = m1.entry /\ m2.ticked = m1.ticked /\ m2.resumeAt = m1.resumeAt
        /\ m2.accumulated = m1.accumulated /\ m2.counter[task] = 1
        /\ \A other \in Tasks \ {task} : m2.counter[other] = m1.counter[other]
        /\ Host!Drain(m2, task) = BodyFrom(m2, task, 1)
    <3>1. m1.outcome = "running" /\ Host!Runnable(m1, task) /\ RunMode[task] # "on_event"
      BY <1>2, <1>7, <1>10, <1>17, <1>18
    <3> QED  BY <1>11, <2>1, <2>2, <3>1, BodyIsBegun
  <2>4. Host!StartEvery(m1, task) = BodyFrom(m2, task, 1)
    BY <1>17, <1>18, <2>2, <2>3 DEF Host!StartEvery, Begun
  <2>5. programCounter'[task] = 1 /\ draining' = task /\ task # NoTask
    BY <1>3, <1>14, <1>18, TasksAssumption
  <2>6. Alike(m2)'
    <3>1. \A other \in Tasks \ {task} :
            m2.counter[other] = m.counter[other] /\ programCounter'[other] = programCounter[other]
      BY <1>3, <1>10, <1>14, <1>18, <2>3
    <3>2. SamePlace(m2, task)'
      BY <1>2, <2>3, <2>5 DEF SamePlace
    <3>3. m2.resumeAt = resumeAt' /\ m2.accumulated = accumulated'
      BY <1>7, <1>10, <1>14, <2>3
    <3>4. /\ m2.total = m.total /\ m2.vars = m.vars /\ m2.shown = m.shown /\ m2.leaf = m.leaf
          /\ m2.entry = m.entry /\ m2.ticked = m.ticked
      BY <1>10, <2>3
    <3>5. draining' \in {NoTask, task}
      BY <2>5
    <3> QED  BY <1>14, <2>3, <3>1, <3>2, <3>3, <3>4, <3>5, TaskMoves
  <2>7. AfterBody(m2)' = BodyFrom(m2, task, 1)
    BY <1>14, <2>5 DEF AfterBody
  <2> QED  BY <1>2, <1>13, <1>16, <2>4, <2>6, <2>7
<1>19. CASE ~ CanFire(task)
  <2>1. Host!StartEvery(m1, task) = m1
    BY <1>17, <1>19 DEF Host!StartEvery
  <2>2. Alike(m1)'
    <3>1. m1.ticked = machineAccumulated' /\ m1.accumulated = accumulated'
      BY <1>7, <1>10, <1>14
    <3> QED  BY <1>10, <1>14, <1>19, <3>1, ClocksMove
  <2>3. AfterBody(m1)' = m1
    BY <1>14, <1>19 DEF AfterBody
  <2> QED  BY <1>2, <1>13, <1>16, <2>1, <2>2, <2>3
<1> QED  BY <1>18, <1>19

\* A task that is given up.
GivenUp(m, task) == [m EXCEPT !.counter[task] = NoProgress]

\* A body whose state is not active is given up by both.
LEMMA BodyIsGivenUp ==
  ASSUME NEW m, HostOK(m), m.outcome = "running", NEW task \in Tasks,
         m.resumeAt[task] = NotWaiting
  PROVE  /\ HostOK(GivenUp(m, task)) /\ GivenUp(m, task).outcome = "running"
         /\ GivenUp(m, task).total = m.total /\ GivenUp(m, task).vars = m.vars
         /\ GivenUp(m, task).shown = m.shown /\ GivenUp(m, task).leaf = m.leaf
         /\ GivenUp(m, task).entry = m.entry /\ GivenUp(m, task).ticked = m.ticked
         /\ GivenUp(m, task).resumeAt = m.resumeAt
         /\ GivenUp(m, task).accumulated = m.accumulated
         /\ GivenUp(m, task).counter[task] = NoProgress
         /\ \A other \in Tasks \ {task} : GivenUp(m, task).counter[other] = m.counter[other]
<1>1. PICK zero \in Nat : zero = NoProgress
  BY DEF NoProgress
<1>2. PICK m2 : m2 = GivenUp(m, task)
  OBVIOUS
<1>3. m2 = [m EXCEPT !.counter[task] = zero]
  BY <1>1, <1>2 DEF GivenUp
<1>4. m2 \in From(m)
  <2>1. [m EXCEPT !.counter[task] = zero] \in From(m)
    BY <1>1, TaskMovesKeep
  <2> QED  BY <1>3, <2>1
<1>5. HostOK(m2)
  BY <1>4 DEF From
<1>6. /\ m2.outcome = "running"
      /\ m2.total = m.total /\ m2.vars = m.vars /\ m2.shown = m.shown /\ m2.leaf = m.leaf
      /\ m2.entry = m.entry /\ m2.ticked = m.ticked /\ m2.resumeAt = m.resumeAt
      /\ m2.accumulated = m.accumulated /\ m2.counter[task] = NoProgress
      /\ \A other \in Tasks \ {task} : m2.counter[other] = m.counter[other]
  BY <1>1, <1>3 DEF HostOK, HostStates
<1> QED  BY <1>2, <1>5, <1>6

\* What the two think of a loop.
LEMMA SameLoop ==
  ASSUME RunsAlike, Simulated, NEW m, Alike(m), NEW task \in Tasks, RunMode[task] = "loop",
         draining = NoTask
  PROVE  /\ CanStartLoop(task) => Host!MayStartLoop(m, task) /\ m.resumeAt[task] = NotWaiting
                                  /\ Host!Runnable(m, task)
         /\ Runnable(task) /\ ~ CanStartLoop(task) => ~ Host!MayStartLoop(m, task)
         /\ ~ Runnable(task) /\ Host!MayStartLoop(m, task) =>
              /\ m.resumeAt[task] = NotWaiting /\ programCounter[task] \in {NoProgress, 1}
              /\ ~ Host!Runnable(m, task)
<1>1. /\ task # NoTask /\ running[task] /\ programCounter \in [Tasks -> Nat]
      /\ resumeAt \in [Tasks -> Nat] /\ m.resumeAt = resumeAt
      /\ m.counter[task] = programCounter[task]
           \/ {m.counter[task], programCounter[task]} \subseteq {NoProgress, 1}
  BY TasksAssumption
  DEF Simulated, IndInv, TypeOK, Undisturbed, AllTasksRun, Alike, SamePlace
<1>2. \/ programCounter[task] = NoProgress /\ resumeAt[task] = NotWaiting
      \/ programCounter[task] > 1 /\ resumeAt[task] # NotWaiting
      \/ programCounter[task] = 1 /\ resumeAt[task] = NotWaiting
  BY <1>1 DEF Simulated, IndInv, ParkedTasksHaveAWakeUp
<1>3. Host!Runnable(m, task) <=> Runnable(task)
  BY SameRunnable
<1> QED
  BY <1>1, <1>2, <1>3
  DEF CanStartLoop, Host!MayStartLoop, NoProgress, Host!NoProgress, NotWaiting, Host!NotWaiting

\* A loop begins its body, or is passed over.
LEMMA StartLoopTaskMirrors ==
  ASSUME RunsAlike, Simulated, NEW m, Alike(m), StartLoopTask
  PROVE  \E m2 : Alike(m2)' /\ AfterLoop(AfterBody(m2))' = AfterLoop(m)
<1> USE DEF taskVars, dataVars, machineVars, callVars, runVars
<1>1. PICK task \in Tasks : task = Current
  BY CursorType DEF StartLoopTask, Simulated, IndInv
<1>2. PICK order \in Seq(Tasks) : order = TaskOrder
  BY TasksAssumption
<1>3. PICK k \in 1..Len(order) : k = cursor
  BY <1>2 DEF StartLoopTask, AtTask, Simulated, IndInv, TypeOK
<1>4. /\ HostOK(m) /\ m.outcome = "running" /\ m.ticked = machineAccumulated
      /\ m.accumulated = accumulated /\ m.resumeAt = resumeAt
      /\ programCounter \in [Tasks -> Nat] /\ task # NoTask
  BY TasksAssumption DEF Alike, Simulated, IndInv, TypeOK
<1>5. AfterLoop(m) = StartedLoops!Loop("loop", Host!StartLoop(m, "loop", task),
                                       SubSeq(order, k + 1, Len(order)))
  <2>1. AfterLoop(m) = StartedLoops!Loop("loop", m, SubSeq(order, k, Len(order)))
    BY <1>2, <1>3 DEF StartLoopTask, AfterLoop, RestOf
  <2>2. order[k] = task
    BY <1>1, <1>2, <1>3 DEF Current
  <2> QED  BY <1>4, <2>1, <2>2, StartedLoops!LoopGoesOn
<1>6. ASSUME NEW body
      PROVE  AfterLoop(body)' = StartedLoops!Loop("loop", body, SubSeq(order, k + 1, Len(order)))
  BY <1>2, <1>3 DEF StartLoopTask, AfterLoop, RestOf
<1>7. /\ draining = NoTask /\ phase' = "loops"
      /\ UNCHANGED <<total, resumeAt, accumulated, devices, pendingEffects, varValues, activeLeaf,
                     machineAccumulated>>
      /\ IF CanStartLoop(task)
           THEN /\ programCounter' = [programCounter EXCEPT ![task] = 1]
                /\ draining' = task
           ELSE UNCHANGED <<programCounter, draining>>
  BY <1>1 DEF StartLoopTask, AtTask, Quiet, BeginDrain
<1>8. CASE CanStartLoop(task)
  <2>1. RunMode[task] = "loop"
    BY <1>8 DEF CanStartLoop
  <2>2. Host!MayStartLoop(m, task) /\ m.resumeAt[task] = NotWaiting /\ Host!Runnable(m, task)
    BY <1>7, <1>8, <2>1, SameLoop
  <2>3. PICK m2 : m2 = Begun(m, task)
    OBVIOUS
  <2>4. /\ HostOK(m2) /\ m2.outcome = "running"
        /\ m2.total = m.total /\ m2.vars = m.vars /\ m2.shown = m.shown /\ m2.leaf = m.leaf
        /\ m2.entry = m.entry /\ m2.ticked = m.ticked /\ m2.resumeAt = m.resumeAt
        /\ m2.accumulated = m.accumulated /\ m2.counter[task] = 1
        /\ \A other \in Tasks \ {task} : m2.counter[other] = m.counter[other]
        /\ Host!Drain(m2, task) = BodyFrom(m2, task, 1)
    BY <1>4, <2>1, <2>2, <2>3, BodyIsBegun
  <2>5. Host!StartLoop(m, "loop", task) = Host!AfterPass(BodyFrom(m2, task, 1), task)
    BY <2>1, <2>2, <2>3, <2>4 DEF Host!StartLoop, Begun
  <2>6. programCounter'[task] = 1 /\ draining' = task
    BY <1>4, <1>7, <1>8
  <2>7. Alike(m2)'
    <3>1. \A other \in Tasks \ {task} :
            m2.counter[other] = m.counter[other] /\ programCounter'[other] = programCounter[other]
      BY <1>4, <1>7, <1>8, <2>4
    <3>2. SamePlace(m2, task)'
      BY <2>1, <2>4, <2>6 DEF SamePlace
    <3>3. m2.resumeAt = resumeAt' /\ m2.accumulated = accumulated'
      BY <1>4, <1>7, <2>4
    <3>4. draining' \in {NoTask, task}
      BY <2>6
    <3> QED  BY <1>7, <2>4, <3>1, <3>2, <3>3, <3>4, TaskMoves
  <2>8. AfterBody(m2)' = Host!AfterPass(BodyFrom(m2, task, 1), task)
    BY <1>4, <1>7, <2>6 DEF AfterBody
  <2> QED  BY <1>5, <1>6, <2>5, <2>7, <2>8
<1>9. CASE ~ CanStartLoop(task)
  <2>0. draining' = NoTask /\ programCounter' = programCounter
    BY <1>7, <1>9
  <2>1. CASE Host!StartLoop(m, "loop", task) = m
    <3>1. Alike(m)'
      <4>1. m.ticked = machineAccumulated' /\ m.accumulated = accumulated' /\ m \in HostStates
        BY <1>4, <1>7 DEF HostOK
      <4> QED  BY <1>7, <2>0, <4>1, ClocksMove
    <3>2. AfterBody(m)' = m
      BY <2>0 DEF AfterBody
    <3> QED  BY <1>5, <1>6, <2>1, <3>1, <3>2
  <2>2. CASE Host!StartLoop(m, "loop", task) # m
    <3>1. RunMode[task] = "loop" /\ Host!MayStartLoop(m, task)
      BY <2>2 DEF Host!StartLoop
    <3>2. /\ m.resumeAt[task] = NotWaiting /\ programCounter[task] \in {NoProgress, 1}
          /\ ~ Host!Runnable(m, task)
      BY <1>7, <1>9, <3>1, SameLoop
    <3>3. PICK m1 : m1 = Begun(m, task)
      OBVIOUS
    <3>4. PICK m2 : m2 = GivenUp(m1, task)
      OBVIOUS
    <3>5. /\ HostOK(m1) /\ m1.outcome = "running"
          /\ m1.total = m.total /\ m1.vars = m.vars /\ m1.shown = m.shown /\ m1.leaf = m.leaf
          /\ m1.entry = m.entry /\ m1.ticked = m.ticked /\ m1.resumeAt = m.resumeAt
          /\ m1.accumulated = m.accumulated
          /\ \A other \in Tasks \ {task} : m1.counter[other] = m.counter[other]
      BY <1>4, <3>2, <3>3, BodyIsBegun
    <3>6. m1.resumeAt[task] = NotWaiting
      BY <3>2, <3>5
    <3>7. /\ HostOK(m2) /\ m2.outcome = "running"
          /\ m2.total = m1.total /\ m2.vars = m1.vars /\ m2.shown = m1.shown /\ m2.leaf = m1.leaf
          /\ m2.entry = m1.entry /\ m2.ticked = m1.ticked /\ m2.resumeAt = m1.resumeAt
          /\ m2.accumulated = m1.accumulated /\ m2.counter[task] = NoProgress
          /\ \A other \in Tasks \ {task} : m2.counter[other] = m1.counter[other]
      BY <3>4, <3>5, <3>6, BodyIsGivenUp
    <3>8. ~ Host!Runnable(m1, task)
      BY <3>2, <3>5 DEF Host!Runnable
    <3>9. Host!Drain(m1, task) = m2
      BY <3>4, <3>8 DEF Host!Drain, GivenUp, NoProgress, Host!NoProgress
    <3>10. Host!AfterPass(m2, task) = m2
      BY <3>7 DEF Host!AfterPass, Host!Parked, NoProgress, Host!NoProgress
    <3>11. Host!StartLoop(m, "loop", task) = m2
      BY <3>1, <3>3, <3>9, <3>10 DEF Host!StartLoop, Begun
    <3>12. Alike(m2)'
      <4>1. \A other \in Tasks \ {task} :
              m2.counter[other] = m.counter[other] /\ programCounter'[other] = programCounter[other]
        BY <2>0, <3>5, <3>7
      <4>2. SamePlace(m2, task)'
        BY <1>4, <2>0, <3>1, <3>2, <3>7 DEF SamePlace
      <4>3. m2.resumeAt = resumeAt' /\ m2.accumulated = accumulated'
        BY <1>4, <1>7, <3>5, <3>7
      <4>4. draining' \in {NoTask, task}
        BY <2>0
      <4>5. /\ m2.total = m.total /\ m2.vars = m.vars /\ m2.shown = m.shown /\ m2.leaf = m.leaf
            /\ m2.entry = m.entry /\ m2.ticked = m.ticked
        BY <3>5, <3>7
      <4> QED  BY <1>7, <3>7, <4>1, <4>2, <4>3, <4>4, <4>5, TaskMoves
    <3>13. AfterBody(m2)' = m2
      BY <2>0 DEF AfterBody
    <3> QED  BY <1>5, <1>6, <3>11, <3>12, <3>13
  <2> QED  BY <2>1, <2>2
<1> QED  BY <1>8, <1>9

\* An event task that is not being executed has not begun.
LEMMA EventTaskRests ==
  ASSUME Simulated, NEW task \in Tasks, RunMode[task] = "on_event", draining # task
  PROVE  programCounter[task] = NoProgress /\ resumeAt[task] = NotWaiting
BY DEF Simulated, IndInv, Undisturbed, EventTasksRest, ParkedTasksHaveAWakeUp

\* An event task runs its whole body.
LEMMA EventBody ==
  ASSUME NEW m, NEW task \in Tasks, RunMode[task] = "on_event"
  PROVE  Host!DrainOnEvent(m, task) = BodyFrom(m, task, 1)
<1>1. PICK body \in Seq(Statements) : body = Body[task]
  BY TasksAssumption
<1>2. Host!DrainOnEvent(m, task) = EventStatements!Loop(task, m, Body[task])
  BY DEF Host!DrainOnEvent, Host!ForEach, EventStatements!Loop
<1>3. EventStatements!Loop(task, m, SubSeq(body, 1, Len(body))) = EventStatements!Loop(task, m, body)
  BY EventStatements!LoopIsWhole
<1> QED  BY <1>1, <1>2, <1>3 DEF BodyFrom, RestOf

\* An event task takes the event, or is passed over.
LEMMA OfferEventToTaskMirrors ==
  ASSUME RunsAlike, Simulated, NEW m, Alike(m), OfferEventToTask
  PROVE  \E m2 : Alike(m2)' /\ AfterLoop(AfterBody(m2))' = AfterLoop(m)
<1> USE DEF taskVars, dataVars, machineVars, callVars, runVars
<1>1. PICK task \in Tasks : task = Current
  BY CursorType DEF OfferEventToTask, Simulated, IndInv
<1>2. PICK order \in Seq(Tasks) : order = TaskOrder
  BY TasksAssumption
<1>3. PICK k \in 1..Len(order) : k = cursor
  BY <1>2 DEF OfferEventToTask, AtTask, Simulated, IndInv, TypeOK
<1>4. PICK name : name = event
  OBVIOUS
<1>5. /\ HostOK(m) /\ m.outcome = "running" /\ m.ticked = machineAccumulated
      /\ m.accumulated = accumulated /\ m.resumeAt = resumeAt /\ SamePlace(m, task)
      /\ programCounter \in [Tasks -> Nat] /\ task # NoTask /\ running[task]
  BY TasksAssumption DEF Alike, Simulated, IndInv, TypeOK, Undisturbed, AllTasksRun
<1>6. AfterLoop(m) = OfferedTasks!Loop(name, Host!OfferEvent(m, name, task),
                                       SubSeq(order, k + 1, Len(order)))
  <2>1. AfterLoop(m) = OfferedTasks!Loop(name, m, SubSeq(order, k, Len(order)))
    BY <1>2, <1>3, <1>4 DEF OfferEventToTask, AfterLoop, RestOf
  <2>2. order[k] = task
    BY <1>1, <1>2, <1>3 DEF Current
  <2> QED  BY <1>5, <2>1, <2>2, OfferedTasks!LoopGoesOn
<1>7. ASSUME NEW body
      PROVE  AfterLoop(body)' = OfferedTasks!Loop(name, body, SubSeq(order, k + 1, Len(order)))
  BY <1>2, <1>3, <1>4 DEF OfferEventToTask, AfterLoop, RestOf
<1>8. /\ draining = NoTask /\ phase' = "event"
      /\ UNCHANGED <<total, resumeAt, accumulated, devices, pendingEffects, varValues, activeLeaf,
                     machineAccumulated>>
      /\ IF CanBeOffered(task)
           THEN /\ programCounter' = [programCounter EXCEPT ![task] = 1]
                /\ draining' = task
           ELSE UNCHANGED <<programCounter, draining>>
  BY <1>1 DEF OfferEventToTask, AtTask, Quiet, BeginDrain
<1>9. /\ CanBeOffered(task) => RunMode[task] = "on_event"
      /\ CanBeOffered(task) <=> /\ Trigger[task] = "device_event" /\ EventOf[task] = name
                                /\ Host!Runnable(m, task)
  <2>1. Host!Runnable(m, task) <=> Runnable(task)
    BY SameRunnable
  <2>2. Trigger[task] = "device_event" => RunMode[task] = "on_event"
    BY TasksAssumption
  <2>3. RunMode[task] = "on_event" => programCounter[task] = NoProgress
    BY <1>5, <1>8, EventTaskRests
  <2> QED  BY <1>4, <1>5, <2>1, <2>2, <2>3 DEF CanBeOffered
<1>10. CASE CanBeOffered(task)
  <2>1. RunMode[task] = "on_event" /\ m.counter[task] = NoProgress
    BY <1>5, <1>9, <1>10 DEF SamePlace
  <2>2. Host!OfferEvent(m, name, task) = BodyFrom(m, task, 1)
    BY <1>9, <1>10, <2>1, EventBody DEF Host!OfferEvent
  <2>3. programCounter'[task] = 1 /\ draining' = task
    BY <1>5, <1>8, <1>10
  <2>4. Alike(m)'
    <3>1. \A other \in Tasks \ {task} :
            m.counter[other] = m.counter[other] /\ programCounter'[other] = programCounter[other]
      BY <1>5, <1>8, <1>10
    <3>2. SamePlace(m, task)'
      BY <2>1, <2>3 DEF SamePlace
    <3>3. m.resumeAt = resumeAt' /\ m.accumulated = accumulated'
      BY <1>5, <1>8
    <3>4. draining' \in {NoTask, task}
      BY <2>3
    <3> QED  BY <1>5, <1>8, <3>1, <3>2, <3>3, <3>4, TaskMoves
  <2>5. AfterBody(m)' = BodyFrom(m, task, 1)
    BY <1>5, <1>8, <2>3 DEF AfterBody
  <2> QED  BY <1>6, <1>7, <2>2, <2>4, <2>5
<1>11. CASE ~ CanBeOffered(task)
  <2>1. Host!OfferEvent(m, name, task) = m
    BY <1>9, <1>11 DEF Host!OfferEvent
  <2>2. draining' = NoTask /\ programCounter' = programCounter
    BY <1>8, <1>11
  <2>3. Alike(m)'
    <3>1. m.ticked = machineAccumulated' /\ m.accumulated = accumulated' /\ m \in HostStates
      BY <1>5, <1>8 DEF HostOK
    <3> QED  BY <1>8, <2>2, <3>1, ClocksMove
  <2>4. AfterBody(m)' = m
    BY <2>2 DEF AfterBody
  <2> QED  BY <1>6, <1>7, <2>1, <2>3, <2>4
<1> QED  BY <1>10, <1>11

------------------------------------------------------------------------------
(* Tasks that go on after a wait. *)

\* Behind a loop task there is no every task, so the pass over the every tasks
\* has nothing left to do.
LEMMA EveryPassIsOver ==
  ASSUME TasksAreGrouped, NEW k \in 1..Len(TaskOrder), RunMode[TaskOrder[k]] = "loop",
         NEW j \in k..(Len(TaskOrder) + 1), NEW h
  PROVE  ResumedTasks!Loop("every", h, SubSeq(TaskOrder, j, Len(TaskOrder))) = h
<1>1. PICK order \in Seq(Tasks) : order = TaskOrder
  BY TasksAssumption
<1>2. PICK end \in j..(Len(order) + 1) : end = Len(order) + 1
  BY <1>1
<1>3. /\ j \in 1..(Len(order) + 1) /\ k \in 1..Len(order) /\ Len(order) \in Nat
      /\ DOMAIN order = 1..Len(order) /\ j >= k
  BY <1>1
<1>4. ASSUME NEW i \in j..(end - 1)
      PROVE  Host!ResumeTask(h, "every", order[i]) = h
  <2>1. i \in 1..Len(order) /\ ~ (i < k)
    BY <1>2, <1>3
  <2>2. RunMode[order[i]] # "every"
    BY <1>1, <1>3, <2>1 DEF TasksAreGrouped
  <2> QED  BY <2>2 DEF Host!ResumeTask
<1>5. ResumedTasks!Loop("every", h, SubSeq(order, j, Len(order)))
        = ResumedTasks!Loop("every", h, SubSeq(order, end, Len(order)))
  BY <1>2, <1>3, <1>4, ResumedTasks!LoopPassesOver
<1>6. ResumedTasks!Loop("every", h, SubSeq(order, Len(order) + 1, Len(order))) = h
  BY <1>1, ResumedTasks!LoopIsOver
<1> QED  BY <1>1, <1>2, <1>5, <1>6

\* A pass over the tasks of one kind passes over the others.
LEMMA PassesOverOtherKinds ==
  ASSUME NEW k \in 1..Len(TaskOrder), NEW mode, RunMode[TaskOrder[k]] # mode, NEW h
  PROVE  ResumedTasks!Loop(mode, h, SubSeq(TaskOrder, k, Len(TaskOrder)))
           = ResumedTasks!Loop(mode, h, SubSeq(TaskOrder, k + 1, Len(TaskOrder)))
<1>1. PICK order \in Seq(Tasks) : order = TaskOrder
  BY TasksAssumption
<1>2. PICK next \in k..(Len(order) + 1) : next = k + 1
  BY <1>1
<1>3. k \in 1..(Len(order) + 1)
  BY <1>1
<1>4. ASSUME NEW i \in k..(next - 1)
      PROVE  Host!ResumeTask(h, mode, order[i]) = h
  <2>1. i = k
    BY <1>2
  <2> QED  BY <1>1, <2>1 DEF Host!ResumeTask
<1>5. ResumedTasks!Loop(mode, h, SubSeq(order, k, Len(order)))
        = ResumedTasks!Loop(mode, h, SubSeq(order, next, Len(order)))
  BY <1>2, <1>3, <1>4, ResumedTasks!LoopPassesOver
<1> QED  BY <1>1, <1>2, <1>5

\* The two passes of the interpreter go on together.
LEMMA ResumingGoesOn ==
  ASSUME TasksAreGrouped, NEW k \in 1..Len(TaskOrder), NEW m, m.outcome = "running",
         NEW task \in Tasks, task = TaskOrder[k]
  PROVE  Resuming(m, k) = Resuming(IF RunMode[task] = "on_event" THEN m
                                   ELSE Host!ResumeTask(m, RunMode[task], task), k + 1)
<1>1. PICK order \in Seq(Tasks) : order = TaskOrder
  BY TasksAssumption
<1>2. k \in 1..Len(order) /\ k + 1 \in k..(Len(order) + 1) /\ k \in k..(Len(order) + 1)
  BY <1>1
<1>3. CASE RunMode[task] = "on_event"
  <2>1. ResumedTasks!Loop("every", m, SubSeq(TaskOrder, k, Len(TaskOrder)))
          = ResumedTasks!Loop("every", m, SubSeq(TaskOrder, k + 1, Len(TaskOrder)))
    BY <1>3, PassesOverOtherKinds
  <2>2. PICK h : h = ResumedTasks!Loop("every", m, SubSeq(TaskOrder, k, Len(TaskOrder)))
    OBVIOUS
  <2>3. ResumedTasks!Loop("loop", h, SubSeq(TaskOrder, k, Len(TaskOrder)))
          = ResumedTasks!Loop("loop", h, SubSeq(TaskOrder, k + 1, Len(TaskOrder)))
    BY <1>3, PassesOverOtherKinds
  <2> QED  BY <1>3, <2>1, <2>2, <2>3 DEF Resuming, RestOf
<1>4. CASE RunMode[task] = "every"
  <2>1. PICK m2 : m2 = Host!ResumeTask(m, "every", task)
    OBVIOUS
  <2>2. ResumedTasks!Loop("every", m, SubSeq(order, k, Len(order)))
          = ResumedTasks!Loop("every", Host!ResumeTask(m, "every", order[k]),
                              SubSeq(order, k + 1, Len(order)))
    BY <1>2, ResumedTasks!LoopGoesOn
  <2>3. PICK h : h = ResumedTasks!Loop("every", m, SubSeq(TaskOrder, k, Len(TaskOrder)))
    OBVIOUS
  <2>4. ResumedTasks!Loop("loop", h, SubSeq(TaskOrder, k, Len(TaskOrder)))
          = ResumedTasks!Loop("loop", h, SubSeq(TaskOrder, k + 1, Len(TaskOrder)))
    BY <1>4, PassesOverOtherKinds
  <2> QED  BY <1>1, <1>4, <2>1, <2>2, <2>3, <2>4 DEF Resuming, RestOf
<1>5. CASE RunMode[task] = "loop"
  <2>1. PICK m2 : m2 = Host!ResumeTask(m, "loop", task)
    OBVIOUS
  <2>2. ResumedTasks!Loop("every", m, SubSeq(TaskOrder, k, Len(TaskOrder))) = m
    BY <1>1, <1>2, <1>5, EveryPassIsOver
  <2>3. ResumedTasks!Loop("every", m2, SubSeq(TaskOrder, k + 1, Len(TaskOrder))) = m2
    BY <1>1, <1>2, <1>5, EveryPassIsOver
  <2>4. ResumedTasks!Loop("loop", m, SubSeq(order, k, Len(order)))
          = ResumedTasks!Loop("loop", Host!ResumeTask(m, "loop", order[k]),
                              SubSeq(order, k + 1, Len(order)))
    BY <1>2, ResumedTasks!LoopGoesOn
  <2> QED  BY <1>1, <1>5, <2>1, <2>2, <2>3, <2>4 DEF Resuming, RestOf
<1> QED  BY <1>3, <1>4, <1>5, TasksAssumption

\* A task that is awake again.
Awake(m, task) == [m EXCEPT !.resumeAt[task] = NotWaiting]

\* What waking a task changes.
LEMMA TaskIsAwake ==
  ASSUME NEW m, HostOK(m), m.outcome = "running", NEW task \in Tasks
  PROVE  /\ HostOK(Awake(m, task)) /\ Awake(m, task).outcome = "running"
         /\ Awake(m, task).total = m.total /\ Awake(m, task).vars = m.vars
         /\ Awake(m, task).shown = m.shown /\ Awake(m, task).leaf = m.leaf
         /\ Awake(m, task).entry = m.entry /\ Awake(m, task).ticked = m.ticked
         /\ Awake(m, task).resumeAt = [m.resumeAt EXCEPT ![task] = NotWaiting]
         /\ Awake(m, task).accumulated = m.accumulated /\ Awake(m, task).counter = m.counter
<1>1. PICK m2 : m2 = Awake(m, task)
  OBVIOUS
<1>2. m2 = [m EXCEPT !.resumeAt[task] = NotWaiting]
  BY <1>1 DEF Awake
<1>3. m2 \in From(m)
  <2>1. [m EXCEPT !.resumeAt[task] = NotWaiting] \in From(m)
    BY TaskMovesKeep
  <2> QED  BY <1>2, <2>1
<1>4. HostOK(m2)
  BY <1>3 DEF From
<1>5. /\ m2.outcome = "running"
      /\ m2.total = m.total /\ m2.vars = m.vars /\ m2.shown = m.shown /\ m2.leaf = m.leaf
      /\ m2.entry = m.entry /\ m2.ticked = m.ticked
      /\ m2.resumeAt = [m.resumeAt EXCEPT ![task] = NotWaiting]
      /\ m2.accumulated = m.accumulated /\ m2.counter = m.counter
  BY <1>2 DEF HostOK, HostStates
<1> QED  BY <1>1, <1>4, <1>5

\* A task whose wait is over goes on, the others are passed over.  The simulator
\* comes to them in one pass over all tasks, the interpreter in one over the
\* every tasks and one over the loops; TasksAreGrouped makes it the same order.
LEMMA ResumeWaitingTaskMirrors ==
  ASSUME RunsAlike, Simulated, NEW m, Alike(m), ResumeWaitingTask
  PROVE  \E m2 : Alike(m2)' /\ AfterLoop(AfterBody(m2))' = AfterLoop(m)
<1> USE DEF taskVars, dataVars, machineVars, callVars, runVars
<1>1. PICK task \in Tasks : task = Current
  BY CursorType DEF ResumeWaitingTask, Simulated, IndInv
<1>2. PICK k \in 1..Len(TaskOrder) : k = cursor
  BY TasksAssumption DEF ResumeWaitingTask, AtTask, Simulated, IndInv, TypeOK
<1>3. PICK mode : mode = RunMode[task]
  OBVIOUS
<1>4. /\ HostOK(m) /\ m.outcome = "running" /\ m.ticked = machineAccumulated
      /\ m.accumulated = accumulated /\ m.resumeAt = resumeAt /\ m.total = total
      /\ SamePlace(m, task) /\ programCounter \in [Tasks -> Nat] /\ resumeAt \in [Tasks -> Nat]
      /\ task # NoTask /\ running[task] /\ mode \in {"every", "loop", "on_event"}
  BY <1>3, TasksAssumption
  DEF Alike, Simulated, IndInv, TypeOK, Undisturbed, AllTasksRun
<1>5. AfterLoop(m) = Resuming(IF mode = "on_event" THEN m
                              ELSE Host!ResumeTask(m, mode, task), k + 1)
  <2>1. AfterLoop(m) = Resuming(m, k)
    BY <1>2 DEF ResumeWaitingTask, AfterLoop
  <2>2. TaskOrder[k] = task /\ TasksAreGrouped
    BY <1>1, <1>2 DEF Current, RunsAlike
  <2> QED  BY <1>3, <1>4, <2>1, <2>2, ResumingGoesOn
<1>6. ASSUME NEW body
      PROVE  AfterLoop(body)' = Resuming(body, k + 1)
  BY <1>2 DEF ResumeWaitingTask, AfterLoop
<1>7. /\ draining = NoTask /\ phase' = "resume" /\ programCounter' = programCounter
      /\ UNCHANGED <<total, accumulated, devices, pendingEffects, varValues, activeLeaf,
                     machineAccumulated>>
      /\ IF CanResume(task)
           THEN /\ resumeAt' = [resumeAt EXCEPT ![task] = NotWaiting]
                /\ draining' = task
           ELSE UNCHANGED <<resumeAt, draining>>
  BY <1>1 DEF ResumeWaitingTask, AtTask, Quiet, BeginDrain
<1>8. mode # "on_event" => (CanResume(task) <=> Host!IsDue(m, task))
  <2>1. Host!Runnable(m, task) <=> Runnable(task)
    BY SameRunnable
  <2> QED  BY <1>3, <1>4, <2>1 DEF CanResume, Host!IsDue, NotWaiting, Host!NotWaiting
<1>9. CASE CanResume(task)
  <2>1. mode # "on_event" /\ Host!Runnable(m, task)
    BY <1>3, <1>8, <1>9 DEF CanResume, Host!IsDue
  <2>2. PICK n \in Nat : n = programCounter[task] /\ n > 1
    BY <1>4, <1>7, <1>9 DEF CanResume, Simulated, IndInv, ParkedTasksHaveAWakeUp
  <2>3. m.counter[task] = n
    BY <1>3, <1>4, <2>1, <2>2 DEF SamePlace, NoProgress
  <2>4. PICK m2 : m2 = Awake(m, task)
    OBVIOUS
  <2>5. /\ HostOK(m2) /\ m2.outcome = "running"
        /\ m2.total = m.total /\ m2.vars = m.vars /\ m2.shown = m.shown /\ m2.leaf = m.leaf
        /\ m2.entry = m.entry /\ m2.ticked = m.ticked
        /\ m2.resumeAt = [m.resumeAt EXCEPT ![task] = NotWaiting]
        /\ m2.accumulated = m.accumulated /\ m2.counter = m.counter
    BY <1>4, <2>4, TaskIsAwake
  <2>6. Host!Runnable(m2, task)
    BY <2>1, <2>5 DEF Host!Runnable
  <2>7. Host!Drain(m2, task) = BodyFrom(m2, task, n)
    BY <1>3, <2>1, <2>3, <2>5, <2>6, DrainIsBodyFrom
  <2>8. Host!ResumeTask(m, mode, task) = BodyFrom(m2, task, n)
    BY <1>3, <1>8, <1>9, <2>1, <2>4, <2>7
    DEF Host!ResumeTask, Awake, NotWaiting, Host!NotWaiting
  <2>9. draining' = task
    BY <1>7, <1>9
  <2>10. Alike(m2)'
    <3>1. \A other \in Tasks \ {task} :
            m2.counter[other] = m.counter[other] /\ programCounter'[other] = programCounter[other]
      BY <1>7, <2>5
    <3>2. SamePlace(m2, task)'
      BY <1>3, <1>7, <2>1, <2>2, <2>3, <2>5 DEF SamePlace
    <3>3. m2.resumeAt = resumeAt' /\ m2.accumulated = accumulated'
      BY <1>4, <1>7, <1>9, <2>5
    <3>4. draining' \in {NoTask, task}
      BY <2>9
    <3> QED  BY <1>7, <2>5, <3>1, <3>2, <3>3, <3>4, TaskMoves
  <2>11. AfterBody(m2)' = BodyFrom(m2, task, n)
    BY <1>4, <1>7, <2>2, <2>9 DEF AfterBody
  <2> QED  BY <1>5, <1>6, <2>1, <2>8, <2>10, <2>11
<1>10. CASE ~ CanResume(task)
  <2>1. mode # "on_event" => Host!ResumeTask(m, mode, task) = m
    BY <1>8, <1>10 DEF Host!ResumeTask
  <2>2. draining' = NoTask /\ resumeAt' = resumeAt
    BY <1>7, <1>10
  <2>3. Alike(m)'
    <3>1. m.ticked = machineAccumulated' /\ m.accumulated = accumulated' /\ m \in HostStates
      BY <1>4, <1>7 DEF HostOK
    <3> QED  BY <1>7, <2>2, <3>1, ClocksMove
  <2>4. AfterBody(m)' = m
    BY <2>2 DEF AfterBody
  <2> QED  BY <1>5, <1>6, <2>1, <2>3, <2>4
<1> QED  BY <1>9, <1>10

\* What is left of the call when the loop goes on in its phase.
LEMMA CallGoesOn ==
  ASSUME NEW m, NEW m2, phase' = phase, elapsed' = elapsed,
         AfterLoop(AfterBody(m2))' = AfterLoop(m)
  PROVE  AfterCall(AfterLoop(AfterBody(m2)))' = AfterCall(AfterLoop(m))
BY DEF AfterCall

\* A step of a loop whose mirror is known.
LEMMA LoopStepIsMirrored ==
  ASSUME Mirrored, Quiet, host' = host, hookTasks' = {}, plan' = << >>,
         phase' = phase, elapsed' = elapsed,
         \A m : Alike(m) => \E m2 : Alike(m2)' /\ AfterLoop(AfterBody(m2))' = AfterLoop(m)
  PROVE  Mirrored'
<1>1. PICK m : Alike(m) /\ LeadsTo(m, host)
  BY DEF Mirrored
<1>2. PICK h : h = host
  OBVIOUS
<1>3. AfterBody(m) = m
  BY DEF AfterBody, Quiet
<1>4. h = AfterCall(AfterLoop(m))
  <2>1. h = AfterCall(AfterLoop(AfterBody(m)))
    BY <1>1, <1>2, MirrorLeads DEF Quiet
  <2> QED  BY <1>3, <2>1
<1>5. PICK m2 : Alike(m2)' /\ AfterLoop(AfterBody(m2))' = AfterLoop(m)
  BY <1>1
<1>6. h = AfterCall(AfterLoop(AfterBody(m2)))'
  BY <1>4, <1>5, CallGoesOn
<1>7. LeadsTo(m2, h)'
  BY <1>6, MirrorIsLed
<1>8. host' = h
  BY <1>2
<1> QED  BY <1>5, <1>7, <1>8 DEF Mirrored

\* The steps of the loops that begin no transition.
LEMMA LoopStep ==
  ASSUME RunsAlike, Simulated, Mirrored, host' = host,
         \/ ChargeMachine \/ LeaveMachine
         \/ ChargeEveryTask \/ FireEveryTask \/ LeaveEveryTask
         \/ ResumeWaitingTask \/ StartLoopTask \/ OfferEventToTask
  PROVE  Mirrored'
<1>1. /\ Quiet /\ hookTasks' = {} /\ plan' = << >> /\ phase' = phase /\ elapsed' = elapsed
  BY DEF ChargeMachine, LeaveMachine, ChargeEveryTask, FireEveryTask, LeaveEveryTask,
         ResumeWaitingTask, StartLoopTask, OfferEventToTask, AtMachine, AtTask, Quiet,
         taskVars, dataVars, machineVars, callVars, runVars
<1>2. ASSUME NEW m, Alike(m)
      PROVE  \E m2 : Alike(m2)' /\ AfterLoop(AfterBody(m2))' = AfterLoop(m)
  BY <1>2, ChargeMachineMirrors, LeaveMachineMirrors, ChargeEveryTaskMirrors,
     FireEveryTaskMirrors, LeaveEveryTaskMirrors, ResumeWaitingTaskMirrors,
     StartLoopTaskMirrors, OfferEventToTaskMirrors
<1> QED  BY <1>1, <1>2, LoopStepIsMirrored

------------------------------------------------------------------------------
(* State machines. *)

\* Without hooks and a body the transition, the loop and the call are left.
LEMMA PlanLeads ==
  ASSUME NEW m, NEW h, LeadsTo(m, h), hookTasks = {}, draining = NoTask
  PROVE  \E g : InPlan(m, g) /\ h = AfterCall(AfterLoop(g))
<1>1. AfterBody(m) = m
  BY DEF AfterBody
<1>2. PICK f, g : InHooks(m, f) /\ InPlan(f, g) /\ h = AfterCall(AfterLoop(g))
  BY <1>1 DEF LeadsTo
<1>3. f = m
  BY <1>2, HooksAreOver
<1> QED  BY <1>2, <1>3

\* The same, for the state a step leads to.
LEMMA PlanIsLed ==
  ASSUME NEW m, NEW g, NEW h, hookTasks' = {}, draining' = NoTask,
         InPlan(m, g)', h = AfterCall(AfterLoop(g))'
  PROVE  LeadsTo(m, h)'
<1>1. AfterBody(m)' = m
  BY DEF AfterBody
<1>2. InHooks(m, m)'
  BY DEF InHooks
<1>3. InHooks(AfterBody(m), m)'
  BY <1>1, <1>2 DEF InHooks
<1> QED  BY <1>3 DEF LeadsTo

\* The transitions of a scope, as both look for them.
LEMMA TransitionsOfAScope ==
  ASSUME NEW machine \in Machines, NEW scope \in Nat,
         NEW transitions, transitions = TransitionsIn(machine, scope)
  PROVE  /\ Host!TransitionsFrom(machine, activeLeaf[machine], scope) = transitions
         /\ transitions \in Seq(TransitionRecords)
         /\ \A i \in DOMAIN transitions :
              /\ transitions[i].when.left \in ProgramExpressions
              /\ Package!SupportedExpression(transitions[i].when.left)
<1> DEFINE leaf == activeLeaf[machine]
           node == Ancestor(leaf, Len(leaf) - scope + 1)
<1>1. transitions = IF scope = 0 THEN GlobalTransitions[machine]
                    ELSE IF node \in Nodes THEN LocalTransitions[node] ELSE << >>
  BY DEF TransitionsIn
<1>2. Host!TransitionsFrom(machine, leaf, scope) = transitions
  BY <1>1, SamePaths DEF Host!TransitionsFrom
<1> HIDE DEF node
<1>3. /\ transitions \in Seq(TransitionRecords)
      /\ \A i \in DOMAIN transitions : Package!SupportedCondition(transitions[i].when)
      /\ ConditionsOf(transitions) \subseteq ProgramExpressions
  <2>1. /\ GlobalTransitions[machine] \in Seq(TransitionRecords)
        /\ \A i \in DOMAIN GlobalTransitions[machine] :
             Package!SupportedCondition(GlobalTransitions[machine][i].when)
        /\ ConditionsOf(GlobalTransitions[machine]) \subseteq ProgramExpressions
    <3>1. machine \in Package!Machines
      BY DEF Package!Machines, Machines
    <3>2. Package!SupportedTransitions(machine, GlobalTransitions[machine])
      BY <3>1, PackageAssumption DEF Package!Accepted, Package!SupportedMachines
    <3> QED  BY <3>2, MachinesAssumption DEF Package!SupportedTransitions, ProgramExpressions
  <2>2. ASSUME node \in Nodes
        PROVE  /\ LocalTransitions[node] \in Seq(TransitionRecords)
               /\ \A i \in DOMAIN LocalTransitions[node] :
                    Package!SupportedCondition(LocalTransitions[node][i].when)
               /\ ConditionsOf(LocalTransitions[node]) \subseteq ProgramExpressions
    <3>1. Package!SupportedTransitions(Head(node), LocalTransitions[node])
      BY <2>2, PackageAssumption DEF Package!Accepted, Package!SupportedMachines
    <3> QED
      BY <2>2, <3>1, MachinesAssumption DEF Package!SupportedTransitions, ProgramExpressions
  <2>3. << >> \in Seq(TransitionRecords) /\ DOMAIN << >> = {} /\ ConditionsOf(<< >>) = {}
    BY DEF ConditionsOf
  <2> QED  BY <1>1, <2>1, <2>2, <2>3
<1>4. \A i \in DOMAIN transitions :
        /\ transitions[i].when.left \in ProgramExpressions
        /\ Package!SupportedExpression(transitions[i].when.left)
  BY <1>3 DEF ConditionsOf, Package!SupportedCondition, Package!SupportedExpression
<1> QED  BY <1>2, <1>3, <1>4

\* In every scope the same conditions decide, and none of them throws.
LEMMA SameFiring ==
  ASSUME RunsAlike, Simulated, NEW m, Alike(m), NEW m1, m1.vars = m.vars, m1.entry = m.entry,
         m1.total = m.total, NEW machine \in Machines, NEW scope \in Nat,
         NEW transitions, transitions = TransitionsIn(machine, scope)
  PROVE  /\ Host!Deciding(m1, transitions) = {i \in DOMAIN transitions : Holds(transitions[i].when)}
         /\ \A i \in DOMAIN transitions : ~ Host!Throws(m1, transitions[i].when.left)
<1>1. ASSUME NEW i \in DOMAIN transitions
      PROVE  /\ ~ Host!Throws(m1, transitions[i].when.left)
             /\ Host!Holds(m1, transitions[i].when) <=> Holds(transitions[i].when)
  <2>1. PICK condition : condition = transitions[i].when
    OBVIOUS
  <2>2. condition.left \in ProgramExpressions /\ Package!SupportedExpression(condition.left)
    BY <2>1, TransitionsOfAScope
  <2>3. ~ Host!Throws(m, condition.left) /\ (Host!Holds(m, condition) <=> Holds(condition))
    BY <2>2, SameValue, SameDecision
  <2>4. Host!Throws(m1, condition.left) <=> Host!Throws(m, condition.left)
    BY DEF Host!Throws
  <2>5. Host!Value(m1, condition.left) = Host!Value(m, condition.left)
    BY DEF Host!Value, Host!Elapsed
  <2> QED  BY <2>1, <2>3, <2>4, <2>5 DEF Host!Holds
<1> QED  BY <1>1 DEF Host!Deciding

\* Where a condition holds.
LEMMA FiringFacts ==
  ASSUME NEW machine
  PROVE  /\ \A scope \in 0..Len(activeLeaf[machine]) : \A i \in DOMAIN TransitionsIn(machine, scope) :
              Holds(TransitionsIn(machine, scope)[i].when) => <<scope, i>> \in Firing(machine)
         /\ \A taken \in Firing(machine) :
              \E scope \in 0..Len(activeLeaf[machine]) : \E i \in DOMAIN TransitionsIn(machine, scope) :
                taken = <<scope, i>> /\ Holds(TransitionsIn(machine, scope)[i].when)
<1> DEFINE At(scope) ==
      {<<scope, i>> : i \in {k \in DOMAIN TransitionsIn(machine, scope) :
                              Holds(TransitionsIn(machine, scope)[k].when)}}
<1>1. Firing(machine) = UNION {At(scope) : scope \in 0..Len(activeLeaf[machine])}
  BY DEF Firing
<1>2. ASSUME NEW scope \in 0..Len(activeLeaf[machine]), NEW i \in DOMAIN TransitionsIn(machine, scope),
             Holds(TransitionsIn(machine, scope)[i].when)
      PROVE  <<scope, i>> \in Firing(machine)
  <2>1. <<scope, i>> \in At(scope)
    BY <1>2
  <2> QED  BY <1>1, <2>1
<1>3. ASSUME NEW taken \in Firing(machine)
      PROVE  \E scope \in 0..Len(activeLeaf[machine]) : \E i \in DOMAIN TransitionsIn(machine, scope) :
               taken = <<scope, i>> /\ Holds(TransitionsIn(machine, scope)[i].when)
  <2>1. PICK scope \in 0..Len(activeLeaf[machine]) : taken \in At(scope)
    BY <1>1
  <2> QED  BY <2>1
<1> QED  BY <1>2, <1>3

\* The earliest transition is the one both take.
LEMMA TickDecides ==
  ASSUME RunsAlike, Simulated, NEW m, Alike(m), NEW m1, m1.vars = m.vars, m1.entry = m.entry,
         m1.total = m.total, m1.leaf = m.leaf, NEW machine \in Machines
  PROVE  /\ Firing(machine) = {} => Host!RunStateMachineTick(m1, machine) = m1
         /\ \A taken \in Taken(machine) :
              Host!RunStateMachineTick(m1, machine)
                = Host!MoveTo(m1, machine, TargetLeaf(machine, taken))
<1> DEFINE leaf == activeLeaf[machine]
           At(scope) == TransitionsIn(machine, scope)
           In(scope) == Host!TransitionsFrom(machine, m1.leaf[machine], scope)
           scopes == {scope \in 0..Len(m1.leaf[machine]) : Host!Deciding(m1, In(scope)) # {}}
<1>1. m1.leaf[machine] = leaf /\ Len(leaf) \in Nat
  <2>1. m1.leaf = activeLeaf
    BY DEF Alike
  <2>2. leaf \in LeavesOf(machine)
    BY DEF Simulated, TransitionInvariant
  <2> QED  BY <2>1, <2>2, LeafPath
<1>2. ASSUME NEW scope \in 0..Len(leaf)
      PROVE  /\ In(scope) = At(scope) /\ At(scope) \in Seq(TransitionRecords)
             /\ Host!Deciding(m1, At(scope)) = {i \in DOMAIN At(scope) : Holds(At(scope)[i].when)}
             /\ \A i \in DOMAIN At(scope) : ~ Host!Throws(m1, At(scope)[i].when.left)
  <2>1. scope \in Nat
    BY <1>1
  <2>2. PICK transitions : transitions = TransitionsIn(machine, scope)
    OBVIOUS
  <2>3. /\ Host!Deciding(m1, transitions) = {i \in DOMAIN transitions : Holds(transitions[i].when)}
        /\ \A i \in DOMAIN transitions : ~ Host!Throws(m1, transitions[i].when.left)
    BY <2>1, <2>2, SameFiring
  <2>4. /\ Host!TransitionsFrom(machine, leaf, scope) = transitions
        /\ transitions \in Seq(TransitionRecords)
    BY <2>1, <2>2, TransitionsOfAScope
  <2> QED  BY <1>1, <2>2, <2>3, <2>4
<1>3. Host!RunStateMachineTick(m1, machine)
        = IF scopes = {} THEN m1 ELSE Host!TakeFirst(m1, machine, In(Host!Min(scopes)))
  BY DEF Host!RunStateMachineTick
<1>4. \A scope : scope \in scopes <=>
        scope \in 0..Len(leaf) /\ \E i \in DOMAIN At(scope) : Holds(At(scope)[i].when)
  BY <1>1, <1>2
<1> HIDE DEF scopes, In, At, leaf
<1>5. ASSUME Firing(machine) = {}
      PROVE  Host!RunStateMachineTick(m1, machine) = m1
  <2>1. scopes = {}
    BY <1>4, <1>5, FiringFacts DEF At, leaf
  <2> QED  BY <1>3, <2>1
<1>6. ASSUME NEW taken \in Taken(machine)
      PROVE  Host!RunStateMachineTick(m1, machine)
               = Host!MoveTo(m1, machine, TargetLeaf(machine, taken))
  <2>1. taken \in Firing(machine) /\ \A other \in Firing(machine) :
          taken[1] < other[1] \/ (taken[1] = other[1] /\ taken[2] <= other[2])
    BY DEF Taken
  <2>2. PICK scope \in 0..Len(leaf) : \E i \in DOMAIN At(scope) :
          taken = <<scope, i>> /\ Holds(At(scope)[i].when)
    BY <2>1, FiringFacts DEF At, leaf
  <2>3. PICK i \in DOMAIN At(scope) : taken = <<scope, i>> /\ Holds(At(scope)[i].when)
    BY <2>2
  <2>4. scope \in scopes /\ scopes \subseteq Nat
    BY <1>1, <1>4, <2>3
  <2>5. Host!Min(scopes) \in scopes /\ Host!Min(scopes) <= scope
    BY <2>4, LeastElement
  <2>6. PICK least \in 0..Len(leaf) : least = Host!Min(scopes)
    BY <1>4, <2>5
  <2>7. PICK k \in DOMAIN At(least) : Holds(At(least)[k].when)
    BY <1>4, <2>5, <2>6
  <2>8. least = scope
    <3>1. <<least, k>> \in Firing(machine)
      BY <2>7, FiringFacts DEF At, leaf
    <3>2. scope < least \/ scope = least
      BY <2>1, <2>3, <3>1
    <3> QED  BY <1>1, <2>5, <2>6, <3>2
  <2> DEFINE met == {j \in DOMAIN At(scope) : Holds(At(scope)[j].when)}
  <2>9. Host!Deciding(m1, At(scope)) = met /\ In(scope) = At(scope)
        /\ ~ Host!Throws(m1, At(scope)[i].when.left)
    BY <1>2
  <2>10. i \in met /\ met \subseteq Nat
    BY <1>2, <2>3
  <2>11. Host!Min(met) = i
    <3>1. Host!Min(met) \in met /\ Host!Min(met) <= i
      BY <2>10, LeastElement
    <3>2. <<scope, Host!Min(met)>> \in Firing(machine)
      BY <3>1, FiringFacts DEF At, leaf
    <3>3. scope < scope \/ i <= Host!Min(met)
      BY <2>1, <2>3, <3>2
    <3>4. scope \in Nat /\ i \in Nat /\ Host!Min(met) \in Nat
      BY <1>1, <2>10, <3>1
    <3> QED  BY <3>1, <3>3, <3>4
  <2> HIDE DEF met
  <2>12. Host!RunStateMachineTick(m1, machine) = Host!Take(m1, machine, At(scope)[i])
    <3>1. Host!TakeFirst(m1, machine, At(scope)) = Host!Take(m1, machine, At(scope)[Host!Min(met)])
      BY <2>9 DEF Host!TakeFirst
    <3>2. Host!RunStateMachineTick(m1, machine) = Host!TakeFirst(m1, machine, At(scope))
      BY <1>3, <2>4, <2>6, <2>8, <2>9
    <3> QED  BY <2>11, <3>1, <3>2
  <2>13. Host!ResolveLeaf[At(scope)[i].target] = TargetLeaf(machine, taken)
    <3>1. Host!ResolveLeaf = ResolveLeaf
      BY DEF Host!ResolveLeaf, ResolveLeaf
    <3> QED  BY <2>3, <3>1 DEF TargetLeaf, At
  <2> QED  BY <2>9, <2>12, <2>13 DEF Host!Take
<1> QED  BY <1>5, <1>6

\* Nothing that keeps the interpreter's invariant stops it.
LEMMA ItRuns ==
  ASSUME RunsAlike, NEW m, HostOK(m)
  PROVE  m.outcome = "running"
BY DEF HostOK, HostStates, RunsAlike, Fits

\* The leaf a machine goes to, and the transition that is planned.
LEMMA MoveIsPlanned ==
  ASSUME RunsAlike, NEW m, HostOK(m), NEW machine \in Machines,
         NEW old \in LeavesOf(machine), NEW new \in LeavesOf(machine), m.leaf[machine] = old,
         plan' = IF new = old THEN << >> ELSE TransitionPlan(old, new)
  PROVE  InPlan(m, Host!MoveTo(m, machine, new))'
<1>1. CASE new = old
  <2>1. Host!MoveTo(m, machine, new) = m
    BY <1>1 DEF Host!MoveTo
  <2>2. plan' = << >>
    BY <1>1
  <2> QED  BY <2>1, <2>2 DEF InPlan
<1>2. CASE new # old
  <2> DEFINE paths == ExitPaths(old, new)
             shared == CommonLength(old, new)
  <2>1. old \in Leaves /\ new \in Leaves /\ new[1] = machine /\ old \in Seq(STRING) /\ new \in Seq(STRING)
        /\ Len(old) \in Nat
    BY LeafPath
  <2>2. shared \in Nat /\ shared <= Len(old)
    BY <2>1, CommonLengthBounds
  <2>3. PICK at \in Nat \ {0} : at = Len(old) - shared + 1
    BY <2>1, <2>2
  <2>4. PICK steps : steps = TransitionPlan(old, new)
    OBVIOUS
  <2>5. Leads(steps, old, new, shared, at)
    BY <2>1, <2>3, <2>4, TransitionPlanSteps
  <2>6. steps \in Seq(PlanSteps)
    BY <2>1, <2>4, TransitionPlanType
  <2>7. /\ at \in 1..Len(steps) /\ DOMAIN steps = 1..Len(steps)
        /\ \A i \in 1..(at - 1) : steps[i].hook = "exit" /\ steps[i].path = Ancestor(old, shared + at - i)
        /\ steps[at].hook = "switch" /\ steps[at].path = new
        /\ \A i \in 1..(Len(steps) - at) : steps[at + i].hook = "enter"
    <3>1. DOMAIN steps = 1..Len(steps)
      BY <2>6
    <3> HIDE DEF shared
    <3> QED  BY <2>5, <3>1 DEF Leads
  <2>8. \A i \in DOMAIN steps : i > at => steps[i].hook = "enter"
    <3>1. ASSUME NEW i \in DOMAIN steps, i > at
          PROVE  steps[i].hook = "enter"
      <4>1. i - at \in 1..(Len(steps) - at) /\ at + (i - at) = i
        BY <2>6, <2>7, <3>1
      <4> QED  BY <2>7, <4>1
    <3> QED  BY <3>1
  <2>9. paths = [i \in 1..(at - 1) |-> steps[i].path]
    <3>1. paths = [i \in 1..(at - 1) |-> Ancestor(old, Len(old) - i + 1)]
      BY <2>3, <2>1, <2>2 DEF ExitPaths
    <3>2. \A i \in 1..(at - 1) : shared + at - i = Len(old) - i + 1
      BY <2>1, <2>2, <2>3
    <3>3. \A i \in 1..(at - 1) : steps[i].path = Ancestor(old, Len(old) - i + 1)
      BY <2>7, <3>2
    <3> QED  BY <3>1, <3>3
  <2> HIDE DEF shared, paths
  <2>10. PICK exited : exited = DispatchedHooks!Loop("state_exit", m, paths)
    OBVIOUS
  <2>11. Host!Exit(m, machine, new) = exited
    <3>1. Host!DispatchHooks(m, "state_exit", paths) = DispatchedHooks!Loop("state_exit", m, paths)
      BY DEF Host!DispatchHooks, Host!ForEach, DispatchedHooks!Loop
    <3>2. Host!Exit(m, machine, new) = Host!DispatchHooks(m, "state_exit", paths)
      BY SamePaths DEF Host!Exit, paths
    <3> QED  BY <2>10, <3>1, <3>2
  <2>12. exited.outcome = "running"
    <3>1. Len(paths) \in Nat
      BY <2>3, <2>9
    <3>2. Host!DispatchHooks(m, "state_exit", paths) \in From(m)
      BY <3>1, DispatchHooksKeeps
    <3>3. Host!Exit(m, machine, new) = Host!DispatchHooks(m, "state_exit", paths)
      BY SamePaths DEF Host!Exit, paths
    <3>4. HostOK(exited)
      BY <2>11, <3>2, <3>3 DEF From
    <3> QED  BY <3>4, ItRuns
  <2>13. Host!MoveTo(m, machine, new) = AfterExits(m, new, paths)
    <3>1. Host!MoveTo(m, machine, new) = Host!ApplyLeafTransition(m, machine, new)
      BY <1>2 DEF Host!MoveTo
    <3>2. Host!ApplyLeafTransition(m, machine, new)
            = Host!Enter(Host!Switched(exited, machine, new), machine, new)
      BY <2>11, <2>12 DEF Host!ApplyLeafTransition
    <3> QED  BY <2>1, <2>10, <3>1, <3>2 DEF AfterExits
  <2>14. plan' = steps
    BY <1>2, <2>4
  <2>15. PICK g : g = Host!MoveTo(m, machine, new)
    OBVIOUS
  <2>16. g = AfterExits(m, steps[at].path, [i \in 1..(at - 1) |-> steps[i].path])
    BY <2>7, <2>9, <2>13, <2>15
  <2>17. at \in DOMAIN steps /\ \A i \in 1..(at - 1) : steps[i].hook = "exit"
    BY <2>7
  <2> QED  BY <2>7, <2>8, <2>14, <2>15, <2>16, <2>17 DEF InPlan
<1> QED  BY <1>1, <1>2

\* A machine without a tick interval is never given time.
ChargedMachinesTick == (phase = "machines" /\ charged) => TickIntervalOf[Machine] > 0

\* Only a machine with a tick interval is given time.
LEMMA ChargedMachinesTickStep ==
  ASSUME Simulated, ChargedMachinesTick, Proceeds
  PROVE  ChargedMachinesTick'
<1> USE DEF taskVars, dataVars, machineVars, callVars, runVars
<1>1. CASE Drain
  BY <1>1
  DEF ChargedMachinesTick, Machine, Drain, ExecuteStatement, ExecuteWait, StopDrainedTask, FinishBody
<1>2. CASE ChargeMachine \/ LeaveMachine \/ TickMachine
  BY <1>2 DEF ChargedMachinesTick, Machine, ChargeMachine, LeaveMachine, TickMachine
<1>3. CASE ResumeWaitingTask \/ ChargeEveryTask \/ FireEveryTask \/ LeaveEveryTask
           \/ StartLoopTask \/ OfferEventToTask
  BY <1>3 DEF ChargedMachinesTick, ResumeWaitingTask, ChargeEveryTask, FireEveryTask, LeaveEveryTask,
              StartLoopTask, OfferEventToTask
<1>4. CASE SwitchLeaf \/ DispatchHook \/ StartLifecycleTask \/ BootMachine
  BY <1>4 DEF ChargedMachinesTick, Machine, SwitchLeaf, DispatchHook, StartLifecycleTask, BootMachine
<1>5. CASE NextPhase
  <2>1. charged' = charged /\ (charged => ~ (cursor > LengthOf(phase)))
    <3>1. cursor \in Nat /\ LengthOf(phase) \in Nat
      BY TaskOrderFacts DEF Simulated, IndInv, TypeOK, LengthOf
    <3> QED  BY <1>5, <3>1 DEF NextPhase, Simulated, TickInProgress
  <2> QED  BY <1>5, <2>1 DEF ChargedMachinesTick, NextPhase
<1>6. CASE FlushPendingEffects \/ (\E milliseconds \in Nat : BeginTick(milliseconds, << >>))
           \/ (\E name \in Events : DispatchScriptEvent(name))
  BY <1>6 DEF ChargedMachinesTick, FlushPendingEffects, BeginTick, DispatchScriptEvent
<1> QED  BY <1>1, <1>2, <1>3, <1>4, <1>5, <1>6 DEF Proceeds, Internal

\* A state tick: the mirror has used up the interval and plans the transition
\* that the interpreter carries out.
LEMMA TickMachineMirrors ==
  ASSUME RunsAlike, Simulated, ChargedMachinesTick, NEW m, Alike(m), TickMachine
  PROVE  \E m2, g : /\ Alike(m2)' /\ InPlan(m2, g)' /\ AfterLoop(g)' = AfterLoop(m)
<1> USE DEF taskVars, dataVars, machineVars, callVars, runVars
<1>1. PICK machine \in Machines : machine = Machine
  BY CursorType DEF TickMachine, Simulated, IndInv
<1>2. PICK old \in LeavesOf(machine) : old = activeLeaf[machine]
  BY DEF Simulated, TransitionInvariant
<1>3. /\ machineAccumulated \in [Machines -> Nat] /\ TickIntervalOf[machine] \in Nat
      /\ TickIntervalOf[machine] > 0
  <2>1. machineAccumulated \in [Machines -> Nat]
    BY DEF Simulated, IndInv, TypeOK
  <2>2. TickIntervalOf[machine] \in Int
    BY MachinesAssumption
  <2>3. TickIntervalOf[machine] > 0
    BY <1>1 DEF TickMachine, ChargedMachinesTick
  <2> QED  BY <2>1, <2>2, <2>3
<1>4. PICK time, interval \in Nat : time = machineAccumulated[machine] /\ interval = TickIntervalOf[machine]
  BY <1>3
<1>5. time >= interval /\ interval > 0
  BY <1>1, <1>3, <1>4 DEF TickMachine
<1>6. PICK n \in Nat : n = time \div interval /\ n >= 1 /\ (time - interval) \div interval = n - 1
  BY <1>5, OneIntervalLess
<1>7. /\ HostOK(m) /\ m \in HostStates /\ m.outcome = "running" /\ m.ticked = machineAccumulated
      /\ m.accumulated = accumulated /\ m.leaf = activeLeaf
  BY DEF Alike, HostOK
<1>8. PICK left \in Int : left = time - interval
  OBVIOUS
<1>9. PICK m1 : m1 = [m EXCEPT !.ticked[machine] = left]
  OBVIOUS
<1>10. /\ m1 \in HostStates /\ m1.outcome = m.outcome /\ m1.total = m.total
       /\ m1.counter = m.counter /\ m1.resumeAt = m.resumeAt /\ m1.vars = m.vars
       /\ m1.shown = m.shown /\ m1.leaf = m.leaf /\ m1.entry = m.entry
       /\ m1.accumulated = m.accumulated /\ m1.ticked = [m.ticked EXCEPT ![machine] = left]
  <2>1. m1 \in HostStates
    BY <1>7, <1>9, MachineClockIsSet
  <2> QED  BY <1>7, <1>9, <2>1 DEF HostStates
<1>11. HostOK(m1)
  BY <1>7, <1>10 DEF HostOK, WaitsAreRemembered
<1>12. Host!UseTick(m, machine, 1) = Host!RunStateMachineTick(m1, machine)
  <2>1. [m EXCEPT !.ticked[machine] = @ - TickIntervalOf[machine]] = m1
    BY <1>4, <1>7, <1>8, <1>9
  <2> QED  BY <2>1 DEF Host!UseTick
<1>13. CatchingUpMachine(m, machine, machineAccumulated[machine])
         = UsedTicks!Loop(machine, Host!RunStateMachineTick(m1, machine), Host!Times(n - 1))
  BY <1>4, <1>6, <1>7, <1>12, OneTick DEF CatchingUpMachine
<1>14. /\ machineAccumulated' = [machineAccumulated EXCEPT ![machine] = left]
       /\ accumulated' = accumulated
       /\ phase' = "machines" /\ charged' = TRUE /\ cursor' = cursor /\ elapsed' = elapsed
       /\ phase = "machines" /\ charged = TRUE
       /\ UNCHANGED <<total, resumeAt, programCounter, devices, pendingEffects, varValues,
                      activeLeaf, draining>>
  BY <1>1, <1>4, <1>8 DEF TickMachine, CarryOver, Simulated, IndInv, TypeOK
<1>15. machineAccumulated'[machine] = left /\ left \div interval = n - 1
  BY <1>3, <1>6, <1>8, <1>14
<1>16. ASSUME NEW g
       PROVE  AfterLoop(g)' = TickedMachines!Loop(elapsed,
                 UsedTicks!Loop(machine, g, Host!Times(n - 1)), RestOf(MachineOrder, cursor + 1))
  <2>1. Machine' = machine
    BY <1>1, <1>14 DEF Machine
  <2> QED  BY <1>4, <1>14, <1>15, <2>1 DEF AfterLoop, CatchingUpMachine
<1>17. AfterLoop(m) = TickedMachines!Loop(elapsed,
                 UsedTicks!Loop(machine, Host!RunStateMachineTick(m1, machine), Host!Times(n - 1)),
                 RestOf(MachineOrder, cursor + 1))
  BY <1>1, <1>13, <1>14 DEF AfterLoop
<1>18. Alike(m1)'
  <2>1. m1.ticked = machineAccumulated' /\ m1.accumulated = accumulated'
    BY <1>7, <1>10, <1>14
  <2> QED  BY <1>10, <1>14, <2>1, ClocksMove
<1>19. InPlan(m1, Host!RunStateMachineTick(m1, machine))'
  <2>1. CASE Firing(machine) = {} /\ plan' = << >>
    <3>1. Host!RunStateMachineTick(m1, machine) = m1
      BY <1>10, <2>1, TickDecides
    <3> QED  BY <2>1, <3>1 DEF InPlan
  <2>2. CASE \E taken \in Taken(machine) :
               plan' = IF TargetLeaf(machine, taken) = activeLeaf[machine] THEN << >>
                       ELSE TransitionPlan(activeLeaf[machine], TargetLeaf(machine, taken))
    <3>1. PICK taken \in Taken(machine) :
               plan' = IF TargetLeaf(machine, taken) = activeLeaf[machine] THEN << >>
                       ELSE TransitionPlan(activeLeaf[machine], TargetLeaf(machine, taken))
      BY <2>2
    <3>2. PICK new \in LeavesOf(machine) : new = TargetLeaf(machine, taken)
      BY <1>2, TargetIsOwnLeaf DEF Simulated, IndInv
    <3>3. plan' = IF new = old THEN << >> ELSE TransitionPlan(old, new)
      BY <1>2, <3>1, <3>2
    <3>4. Host!RunStateMachineTick(m1, machine) = Host!MoveTo(m1, machine, new)
      BY <1>10, <3>2, TickDecides
    <3>5. m1.leaf[machine] = old
      BY <1>2, <1>7, <1>10
    <3>6. InPlan(m1, Host!MoveTo(m1, machine, new))'
      BY <1>11, <3>3, <3>5, MoveIsPlanned
    <3> QED  BY <3>4, <3>6
  <2> QED  BY <1>1, <2>1, <2>2 DEF TickMachine
<1>20. PICK g : g = Host!RunStateMachineTick(m1, machine)
  OBVIOUS
<1>21. InPlan(m1, g)' /\ AfterLoop(g)' = AfterLoop(m)
  BY <1>16, <1>17, <1>19, <1>20
<1> QED  BY <1>18, <1>21

\* A state tick is mirrored.
LEMMA TickMachineStep ==
  ASSUME RunsAlike, Simulated, ChargedMachinesTick, Mirrored, TickMachine, host' = host
  PROVE  Mirrored'
<1> USE DEF taskVars, dataVars, machineVars, callVars, runVars
<1>1. PICK m : Alike(m) /\ LeadsTo(m, host)
  BY DEF Mirrored
<1>2. PICK h : h = host
  OBVIOUS
<1>3. /\ hookTasks = {} /\ plan = << >> /\ draining = NoTask /\ hookTasks' = {} /\ draining' = NoTask
      /\ phase' = phase /\ elapsed' = elapsed
  BY DEF TickMachine, AtMachine, Quiet
<1>4. h = AfterCall(AfterLoop(m))
  <2>1. h = AfterCall(AfterLoop(AfterBody(m)))
    BY <1>1, <1>2, <1>3, MirrorLeads
  <2> QED  BY <1>3, <2>1 DEF AfterBody
<1>5. PICK m2, g : Alike(m2)' /\ InPlan(m2, g)' /\ AfterLoop(g)' = AfterLoop(m)
  BY <1>1, TickMachineMirrors
<1>6. h = AfterCall(AfterLoop(g))'
  BY <1>3, <1>4, <1>5 DEF AfterCall
<1>7. LeadsTo(m2, h)'
  BY <1>3, <1>5, <1>6, PlanIsLed
<1>8. host' = h
  BY <1>2
<1> QED  BY <1>5, <1>7, <1>8 DEF Mirrored

------------------------------------------------------------------------------
(* Leaf transitions. *)

\* A call that is at the same place has the same left.
LEMMA RestStays ==
  ASSUME NEW g, UNCHANGED <<callVars, accumulated, machineAccumulated>>
  PROVE  AfterCall(AfterLoop(g))' = AfterCall(AfterLoop(g))
<1>1. PICK looped : looped = AfterLoop(g)
  OBVIOUS
<1>2. AfterLoop(g)' = looped
  BY <1>1 DEF AfterLoop, callVars, Current, Machine
<1>3. AfterCall(looped)' = AfterCall(looped)
  BY DEF AfterCall, callVars
<1> QED  BY <1>1, <1>2, <1>3

\* The sequence from a leaf to itself is empty: the interpreter enters no state.
LEMMA NothingIsEntered ==
  ASSUME NEW m \in HostStates, NEW machine, NEW new \in Seq(STRING), m.leaf[machine] = new
  PROVE  Host!Enter(m, machine, new) = m
<1>1. CommonLength(new, new) = Len(new) /\ Len(new) \in Nat
  <2>1. CommonLength(new, new) \in 0..Len(new) /\ Len(new) \in SharedLengths(new, new)
    BY CommonLengthBounds DEF SharedLengths
  <2>2. Len(new) <= CommonLength(new, new)
    BY <2>1, CommonLengthIsGreatest
  <2> QED  BY <2>1, <2>2
<1>2. PICK paths : paths = EnterPaths(new, new)
  OBVIOUS
<1>3. Len(paths) = 0 /\ DOMAIN paths = {}
  <2>1. Len(new) - CommonLength(new, new) = 0
    BY <1>1
  <2> QED  BY <1>2, <2>1 DEF EnterPaths
<1>4. Host!Enter(m, machine, new) = Host!EnterStates(m, paths)
  BY <1>2, SamePaths DEF Host!Enter, Host!EnterSequence
<1>5. [m EXCEPT !.entry = [path \in {paths[i] : i \in DOMAIN paths} \cup DOMAIN m.entry |->
                             IF path \in {paths[i] : i \in DOMAIN paths}
                               THEN m.total ELSE m.entry[path]]] = m
  <2>1. {paths[i] : i \in DOMAIN paths} = {}
    BY <1>3
  <2>2. m.entry = [path \in DOMAIN m.entry |-> m.entry[path]]
    BY DEF HostStates, Clocks
  <2>3. [path \in {paths[i] : i \in DOMAIN paths} \cup DOMAIN m.entry |->
           IF path \in {paths[i] : i \in DOMAIN paths} THEN m.total ELSE m.entry[path]]
          = [path \in DOMAIN m.entry |-> m.entry[path]]
    BY <2>1
  <2> QED  BY <2>2, <2>3 DEF HostStates
<1>6. Host!EnterStates(m, paths) = Host!DispatchHooks(m, "state_enter", paths)
  BY <1>5 DEF Host!EnterStates
<1>7. Host!DispatchHooks(m, "state_enter", paths) = DispatchedHooks!Loop("state_enter", m, paths)
  BY DEF Host!DispatchHooks, Host!ForEach, DispatchedHooks!Loop
<1>8. DispatchedHooks!Loop("state_enter", m, paths) = m
  BY <1>3, DispatchedHooks!LoopOverNothing
<1> QED  BY <1>4, <1>6, <1>7, <1>8

\* The mirror is in the new leaf.
LEMMA LeafIsSwitched ==
  ASSUME Simulated, NEW m, Alike(m), SwitchLeaf, NEW machine \in Machines,
         NEW new \in LeavesOf(machine), plan[1].path = new
  PROVE  /\ Alike(Host!Switched(m, machine, new))'
         /\ Host!Switched(m, machine, new) \in HostStates
         /\ Host!Switched(m, machine, new).leaf[machine] = new
<1> USE DEF taskVars, dataVars, machineVars, callVars, runVars
<1>0. PICK m2 : m2 = Host!Switched(m, machine, new)
  OBVIOUS
<1>9. m2 = [m EXCEPT !.leaf[machine] = new]
  BY <1>0 DEF Host!Switched
<1>1. /\ m \in HostStates /\ new \in Leaves /\ new[1] = machine /\ m.outcome = "running"
      /\ m.leaf = activeLeaf
  BY DEF Alike, HostOK, LeavesOf
<1>2. /\ m2 \in HostStates /\ m2.outcome = m.outcome /\ m2.total = m.total
      /\ m2.counter = m.counter /\ m2.resumeAt = m.resumeAt /\ m2.vars = m.vars
      /\ m2.shown = m.shown /\ m2.leaf = [m.leaf EXCEPT ![machine] = new] /\ m2.entry = m.entry
      /\ m2.accumulated = m.accumulated /\ m2.ticked = m.ticked
  BY <1>1, <1>9 DEF HostStates
<1>3. HostOK(m2)
  BY <1>2 DEF Alike, HostOK, WaitsAreRemembered
<1>4. activeLeaf' = [activeLeaf EXCEPT ![machine] = new]
  BY <1>1 DEF SwitchLeaf
<1>5. UNCHANGED <<total, accumulated, resumeAt, varValues, machineAccumulated, programCounter,
                  draining, devices, pendingEffects>>
  BY DEF SwitchLeaf
<1>6. \A task \in Tasks : SamePlace(m2, task)'
  BY <1>2, <1>5 DEF Alike, SamePlace
<1>7. SameOutputs(m2)'
  BY <1>2, <1>5 DEF Alike, SameOutputs, Queued
<1>8. m2.leaf = activeLeaf' /\ m2.leaf[machine] = new
  BY <1>1, <1>2, <1>4 DEF HostStates
<1>10. Alike(m2)'
  BY <1>1, <1>2, <1>3, <1>5, <1>6, <1>7, <1>8 DEF Alike
<1> QED  BY <1>0, <1>2, <1>8, <1>10

\* The leaf is switched: the exit tasks are over, and of what the interpreter
\* does to the new leaf nothing can be seen.
LEMMA SwitchLeafStep ==
  ASSUME RunsAlike, Simulated, Mirrored, SwitchLeaf, host' = host
  PROVE  Mirrored'
<1> USE DEF taskVars, dataVars, machineVars, callVars, runVars
<1>1. PICK m : Alike(m) /\ LeadsTo(m, host)
  BY DEF Mirrored
<1>2. PICK h : h = host
  OBVIOUS
<1>3. /\ hookTasks = {} /\ draining = NoTask /\ hookTasks' = {} /\ draining' = NoTask
      /\ UNCHANGED <<callVars, accumulated, machineAccumulated>>
      /\ plan # << >> /\ plan[1].hook = "switch" /\ plan' = Tail(plan)
  BY DEF SwitchLeaf
<1>4. PICK g : InPlan(m, g) /\ h = AfterCall(AfterLoop(g))
  BY <1>1, <1>2, <1>3, PlanLeads
<1>5. PICK machine \in Machines : \E old, new : \E shared \in Nat :
                                     LeafSwitches(machine, old, new, shared)
  BY SwitchLeafSwitches DEF Simulated
<1>14. PICK old, new : \E shared \in Nat : LeafSwitches(machine, old, new, shared)
  BY <1>5
<1>6. /\ new \in LeavesOf(machine) /\ plan[1].path = new /\ new[1] = machine /\ new \in Seq(STRING)
      /\ \A i \in 1..Len(plan') : plan'[i].hook = "enter"
  BY <1>14, LeafPath DEF LeafSwitches
<1>7. PICK m2 : m2 = Host!Switched(m, machine, new)
  OBVIOUS
<1>8. Alike(m2)' /\ m2 \in HostStates /\ m2.leaf[machine] = new
  BY <1>1, <1>6, <1>7, LeafIsSwitched
<1>9. g = m2
  <2>1. 1 \in DOMAIN plan /\ DOMAIN plan \subseteq Nat \ {0}
    BY <1>3, Remainder DEF Simulated, IndInv, TypeOK
  <2>2. PICK at \in DOMAIN plan :
          /\ \A i \in 1..(at - 1) : plan[i].hook = "exit"
          /\ g = AfterExits(m, plan[at].path, [i \in 1..(at - 1) |-> plan[i].path])
    BY <1>3, <1>4, <2>1 DEF InPlan
  <2>3. at = 1
    <3>1. at > 1 => 1 \in 1..(at - 1)
      BY <2>1
    <3> QED  BY <1>3, <2>1, <2>2, <3>1
  <2>4. PICK paths : paths = [i \in 1..(at - 1) |-> plan[i].path]
    OBVIOUS
  <2>5. Len(paths) = 0
    BY <2>3, <2>4
  <2>6. DispatchedHooks!Loop("state_exit", m, paths) = m
    BY <2>5, DispatchedHooks!LoopOverNothing
  <2>7. g = Host!Enter(Host!Switched(m, machine, new), machine, new)
    BY <1>6, <2>2, <2>3, <2>4, <2>6 DEF AfterExits
  <2>8. Host!Switched(m, machine, new) = m2
    BY <1>7
  <2>9. Host!Enter(m2, machine, new) = m2
    BY <1>6, <1>8, NothingIsEntered
  <2> QED  BY <2>7, <2>8, <2>9
<1>10. InPlan(m2, m2)'
  <2>1. DOMAIN plan' = 1..Len(plan')
    BY <1>3, TailOf
  <2> QED  BY <1>6, <2>1 DEF InPlan
<1>11. h = AfterCall(AfterLoop(m2))'
  BY <1>3, <1>4, <1>9, RestStays
<1>12. LeadsTo(m2, h)'
  BY <1>3, <1>10, <1>11, PlanIsLed
<1>13. host' = h
  BY <1>2
<1> QED  BY <1>8, <1>12, <1>13 DEF Mirrored

\* A step that changes nothing of the interpreter's: the mirror stays as it is.
LEMMA MirrorStays ==
  ASSUME NEW m, Alike(m),
         UNCHANGED <<total, resumeAt, programCounter, devices, pendingEffects, varValues, activeLeaf,
                     draining, accumulated, machineAccumulated>>
  PROVE  Alike(m)'
<1>1. m \in HostStates /\ m.accumulated = accumulated' /\ m.ticked = machineAccumulated'
  BY DEF Alike, HostOK
<1> QED  BY <1>1, ClocksMove

\* The hooks of a state that is left: those of its exit tasks, all of them due.
LEMMA ExitTasksAreDue ==
  ASSUME NEW path
  PROVE  HookTasks("exit", path) = Due("state_exit", path, 1)
<1>1. \A i \in 1..Len(TaskOrder) :
        Trigger[TaskOrder[i]] = "state_exit" => RunMode[TaskOrder[i]] = "on_event"
  BY TasksAssumption
<1> QED  BY <1>1 DEF HookTasks, Due

\* A state is entered: no task waits for that.
LEMMA EnterHookStep ==
  ASSUME RunsAlike, Simulated, Mirrored, DispatchHook, plan[1].hook = "enter", host' = host
  PROVE  Mirrored'
<1> USE DEF taskVars, dataVars, machineVars, callVars, runVars
<1>1. PICK m : Alike(m) /\ LeadsTo(m, host)
  BY DEF Mirrored
<1>2. PICK h : h = host
  OBVIOUS
<1>3. /\ hookTasks = {} /\ draining = NoTask /\ hookTasks' = {} /\ draining' = NoTask
      /\ UNCHANGED <<callVars, accumulated, machineAccumulated>>
      /\ plan # << >> /\ plan' = Tail(plan)
  <2>1. hookTasks' = {}
    BY NoStateEnterTask DEF DispatchHook
  <2> QED  BY <2>1 DEF DispatchHook
<1>4. PICK g : InPlan(m, g) /\ h = AfterCall(AfterLoop(g))
  BY <1>1, <1>2, <1>3, PlanLeads
<1>5. /\ Len(plan) \in Nat \ {0} /\ DOMAIN plan = 1..Len(plan) /\ DOMAIN plan' = 1..Len(plan')
      /\ \A i \in DOMAIN plan' : plan'[i] = plan[i + 1] /\ i + 1 \in DOMAIN plan
  BY <1>3, TailOf
<1>6. g = m /\ \A i \in DOMAIN plan : plan[i].hook = "enter"
  <2>1. ASSUME NEW at \in DOMAIN plan, \A i \in 1..(at - 1) : plan[i].hook = "exit",
               plan[at].hook = "switch"
        PROVE  FALSE
    <3>1. at = 1 \/ 1 \in 1..(at - 1)
      BY <1>5
    <3> QED  BY <2>1, <3>1
  <2> QED  BY <1>4, <2>1 DEF InPlan
<1>7. InPlan(m, m)'
  BY <1>5, <1>6 DEF InPlan
<1>8. Alike(m)'
  BY <1>1, MirrorStays DEF DispatchHook
<1>9. h = AfterCall(AfterLoop(m))'
  BY <1>3, <1>4, <1>6, RestStays
<1>10. LeadsTo(m, h)'
  BY <1>3, <1>7, <1>9, PlanIsLed
<1>11. host' = h
  BY <1>2
<1> QED  BY <1>8, <1>10, <1>11 DEF Mirrored

\* The paths of n steps of a transition.
PathsOf(steps, first, n) == [i \in 1..n |-> steps[first + i].path]

\* The hooks of the first state of a transition that leaves states.
LEMMA ExitsBegin ==
  ASSUME NEW m, m.outcome = "running", NEW new, NEW n \in Nat, n >= 1, NEW steps
  PROVE  AfterExits(m, new, PathsOf(steps, 0, n))
           = AfterExits(Host!DispatchHook(m, "state_exit", steps[1].path), new,
                        PathsOf(steps, 1, n - 1))
<1>0. PICK exits, rest : exits = PathsOf(steps, 0, n) /\ rest = PathsOf(steps, 1, n - 1)
  OBVIOUS
<1>1. Len(exits) = n /\ Len(rest) = n - 1 /\ exits[1] = steps[1].path
  BY <1>0 DEF PathsOf
<1>2. \A i \in 1..Len(rest) : rest[i] = exits[i + 1]
  BY <1>0, <1>1 DEF PathsOf
<1>3. DispatchedHooks!Behind("state_exit", exits, 1, rest)
  BY <1>1, <1>2 DEF DispatchedHooks!Behind
<1>4. DispatchedHooks!Runs(m)
  BY DEF DispatchedHooks!Runs
<1>5. Len(exits) \in Nat /\ Len(rest) \in Nat /\ Len(exits) = 1 + Len(rest)
  BY <1>1
<1>6. DispatchedHooks!Loop("state_exit", m, exits)
        = DispatchedHooks!Loop("state_exit", Host!DispatchHook(m, "state_exit", exits[1]), rest)
  BY <1>3, <1>4, <1>5, DispatchedHooks!LoopBegins
<1> QED  BY <1>0, <1>1, <1>6 DEF AfterExits

\* A state is left: its exit tasks become due, in the order of registration.
LEMMA ExitHookStep ==
  ASSUME RunsAlike, Simulated, Mirrored, DispatchHook, plan[1].hook = "exit", host' = host
  PROVE  Mirrored'
<1> USE DEF taskVars, dataVars, machineVars, callVars, runVars
<1>1. PICK m : Alike(m) /\ LeadsTo(m, host)
  BY DEF Mirrored
<1>2. PICK h : h = host
  OBVIOUS
<1>3. /\ hookTasks = {} /\ draining = NoTask /\ draining' = NoTask
      /\ UNCHANGED <<callVars, accumulated, machineAccumulated>>
      /\ plan # << >> /\ plan' = Tail(plan) /\ hookTasks' = HookTasks("exit", plan[1].path)
  BY DEF DispatchHook
<1>4. PICK g : InPlan(m, g) /\ h = AfterCall(AfterLoop(g))
  BY <1>1, <1>2, <1>3, PlanLeads
<1>5. /\ Len(plan) \in Nat \ {0} /\ DOMAIN plan = 1..Len(plan) /\ DOMAIN plan' = 1..Len(plan')
      /\ Len(plan') = Len(plan) - 1
      /\ \A i \in DOMAIN plan' : plan'[i] = plan[i + 1] /\ i + 1 \in DOMAIN plan
  BY <1>3, TailOf
<1>6. PICK path \in Paths : path = plan[1].path
  <2>1. plan[1] \in PlanSteps
    BY <1>3, PlanStepType DEF Simulated, IndInv
  <2> QED  BY <2>1 DEF PlanSteps
<1>7. PICK at \in DOMAIN plan :
        /\ \A i \in 1..(at - 1) : plan[i].hook = "exit"
        /\ plan[at].hook = "switch"
        /\ \A i \in DOMAIN plan : i > at => plan[i].hook = "enter"
        /\ g = AfterExits(m, plan[at].path, [i \in 1..(at - 1) |-> plan[i].path])
  <2>1. 1 \in DOMAIN plan
    BY <1>5
  <2> QED  BY <1>4, <2>1 DEF InPlan
<1>8. PICK n \in Nat : n = at - 1 /\ n >= 1
  <2>1. at # 1
    BY <1>7
  <2> QED  BY <1>5, <2>1
<1>9. PICK new, steps : new = plan[at].path /\ steps = plan
  OBVIOUS
<1>10. PICK f : f = Host!DispatchHook(m, "state_exit", path)
  OBVIOUS
<1>11. g = AfterExits(f, new, PathsOf(steps, 1, n - 1))
  <2>1. [i \in 1..(at - 1) |-> plan[i].path] = PathsOf(steps, 0, n)
    BY <1>8, <1>9 DEF PathsOf
  <2>2. g = AfterExits(m, new, PathsOf(steps, 0, n))
    BY <1>7, <1>9, <2>1
  <2>3. m.outcome = "running" /\ steps[1].path = path
    BY <1>1, <1>6, <1>9 DEF Alike
  <2> QED  BY <1>8, <1>10, <2>2, <2>3, ExitsBegin
<1>12. InPlan(f, g)'
  <2>1. n \in DOMAIN plan' /\ plan'[n] = plan[at]
    BY <1>5, <1>8
  <2>2. \A i \in 1..(n - 1) : plan'[i] = plan[i + 1] /\ i + 1 \in 1..(at - 1)
    BY <1>5, <1>8
  <2>3. \A i \in DOMAIN plan' : i > n => plan'[i].hook = "enter"
    BY <1>5, <1>7, <1>8
  <2>4. [i \in 1..(n - 1) |-> plan'[i].path] = PathsOf(steps, 1, n - 1)
    BY <1>9, <2>2 DEF PathsOf
  <2>5. /\ \A i \in 1..(n - 1) : plan'[i].hook = "exit"
        /\ plan'[n].hook = "switch" /\ plan'[n].path = new
    BY <1>7, <1>9, <2>1, <2>2
  <2>6. g = AfterExits(f, plan'[n].path, [i \in 1..(n - 1) |-> plan'[i].path])
    BY <1>11, <2>4, <2>5
  <2> QED  BY <2>1, <2>3, <2>5, <2>6 DEF InPlan
<1>13. InHooks(m, f)'
  <2>1. PICK order \in Seq(Tasks) : order = TaskOrder
    BY TasksAssumption
  <2>2. PICK hook : hook = [trigger |-> "state_exit", path |-> path]
    OBVIOUS
  <2>3. f = Hooked!Loop(hook, m, order)
    <3>1. Host!DispatchHook(m, "state_exit", path)
            = Hooked!Loop([trigger |-> "state_exit", path |-> path], m, TaskOrder)
      BY DEF Host!DispatchHook, Host!ForEach, Hooked!Loop
    <3> QED  BY <1>10, <2>1, <2>2, <3>1
  <2>4. Hooked!Loop(hook, m, SubSeq(order, 1, Len(order))) = Hooked!Loop(hook, m, order)
    BY Hooked!LoopIsWhole
  <2>5. f = Hooked!Loop(hook, m, RestOf(TaskOrder, 1))
    BY <2>1, <2>3, <2>4 DEF RestOf
  <2>6. hookTasks' = Due("state_exit", path, 1) /\ 1 \in 1..(Len(TaskOrder) + 1)
    BY <1>3, <1>6, <2>1, ExitTasksAreDue
  <2> QED  BY <2>2, <2>5, <2>6 DEF InHooks
<1>14. Alike(m)'
  BY <1>1, MirrorStays DEF DispatchHook
<1>15. h = AfterCall(AfterLoop(g))'
  BY <1>3, <1>4, RestStays
<1>16. AfterBody(m)' = m
  BY <1>3 DEF AfterBody
<1>17. LeadsTo(m, h)'
  BY <1>12, <1>13, <1>15, <1>16 DEF LeadsTo
<1>18. host' = h
  BY <1>2
<1> QED  BY <1>14, <1>17, <1>18 DEF Mirrored

\* The next exit task that is due begins its body.
LEMMA StartLifecycleTaskStep ==
  ASSUME RunsAlike, Simulated, Mirrored, StartLifecycleTask, host' = host
  PROVE  Mirrored'
<1> USE DEF taskVars, dataVars, machineVars, callVars, runVars
<1>1. PICK m : Alike(m) /\ LeadsTo(m, host)
  BY DEF Mirrored
<1>2. PICK h : h = host
  OBVIOUS
<1>3. PICK next \in hookTasks : /\ \A position \in hookTasks : next <= position
                                /\ hookTasks' = hookTasks \ {next}
                                /\ IF running[TaskOrder[next]] THEN StartHookTask(TaskOrder[next])
                                   ELSE UNCHANGED <<resumeAt, programCounter, draining, budget>>
  BY DEF StartLifecycleTask
<1>4. PICK order \in Seq(Tasks) : order = TaskOrder
  BY TasksAssumption
<1>5. PICK task \in Tasks : task = order[next]
  BY <1>3, <1>4, TaskOrderFacts DEF Simulated, IndInv, TypeOK
<1>6. /\ draining = NoTask /\ phase = "machines" /\ phase' = "machines" /\ task # NoTask
      /\ UNCHANGED <<callVars, accumulated, machineAccumulated, plan, total, devices, pendingEffects,
                     varValues, activeLeaf>>
  <2>1. phase = "machines"
    BY <1>3 DEF Simulated, Undisturbed, PlansOfThePhase
  <2> QED  BY <2>1, TasksAssumption DEF StartLifecycleTask
<1>7. /\ RunMode[task] = "on_event" /\ Runnable(task) /\ running[task] /\ resumeAt[task] = NotWaiting
      /\ resumeAt \in [Tasks -> Nat] /\ programCounter \in [Tasks -> Nat]
  <2>1. Runnable(task) /\ RunMode[task] = "on_event"
    <3>1. LifecycleTasksFindTheirState /\ HooksStartLifecycleTasks
      BY PlannedTasksAreRunnable DEF Simulated, IndInv
    <3>2. Runnable(task) /\ task \in LifecycleTaskSet
      BY <1>3, <1>4, <1>5, <3>1 DEF HooksStartLifecycleTasks, LifecycleTasksFindTheirState
    <3> QED  BY <3>2, TasksAssumption DEF LifecycleTaskSet
  <2> QED  BY <2>1 DEF Simulated, Undisturbed, AllTasksRun, EventTasksRest, IndInv, TypeOK
<1>8. /\ resumeAt' = resumeAt /\ programCounter' = [programCounter EXCEPT ![task] = 1]
      /\ draining' = task
  BY <1>3, <1>4, <1>5, <1>7 DEF StartHookTask, BeginDrain
<1>9. PICK f, g : InHooks(m, f) /\ InPlan(f, g) /\ h = AfterCall(AfterLoop(g))
  BY <1>1, <1>2, <1>6 DEF LeadsTo, AfterBody
<1>10. PICK path \in Paths : \E k \in 1..(Len(order) + 1) :
         /\ hookTasks = Due("state_exit", path, k)
         /\ f = Hooked!Loop([trigger |-> "state_exit", path |-> path], m, RestOf(TaskOrder, k))
  BY <1>3, <1>4, <1>9 DEF InHooks
<1>11. PICK k \in 1..(Len(order) + 1) :
         /\ hookTasks = Due("state_exit", path, k)
         /\ f = Hooked!Loop([trigger |-> "state_exit", path |-> path], m, RestOf(TaskOrder, k))
  BY <1>10
<1>12. PICK hook : hook = [trigger |-> "state_exit", path |-> path]
  OBVIOUS
<1>13. PICK at \in 1..Len(order) : at = next
  BY <1>3, <1>4, <1>11 DEF Due
<1>14. /\ k \in 1..(Len(order) + 1) /\ at \in k..(Len(order) + 1) /\ at + 1 \in 1..(Len(order) + 1)
       /\ Trigger[task] = "state_exit" /\ Membership[task] = path
  BY <1>3, <1>4, <1>5, <1>11, <1>13 DEF Due
<1>15. ASSUME NEW i \in k..(at - 1)
       PROVE  Host!RunHook(m, hook, order[i]) = m
  <2>1. i \in k..Len(order) /\ i \notin hookTasks
    BY <1>3, <1>13, <1>14
  <2>2. ~ (Trigger[order[i]] = "state_exit" /\ Membership[order[i]] = path)
    BY <1>4, <1>11, <2>1 DEF Due
  <2> QED  BY <1>12, <2>2 DEF Host!RunHook
<1>16. f = Hooked!Loop(hook, Host!RunHook(m, hook, task), SubSeq(order, at + 1, Len(order)))
  <2>1. f = Hooked!Loop(hook, m, SubSeq(order, k, Len(order)))
    BY <1>4, <1>11, <1>12 DEF RestOf
  <2>2. Hooked!Loop(hook, m, SubSeq(order, k, Len(order)))
          = Hooked!Loop(hook, m, SubSeq(order, at, Len(order)))
    BY <1>14, <1>15, Hooked!LoopPassesOver
  <2>3. m.outcome = "running" /\ order[at] = task
    BY <1>1, <1>5, <1>13 DEF Alike
  <2>4. Hooked!Loop(hook, m, SubSeq(order, at, Len(order)))
          = Hooked!Loop(hook, Host!RunHook(m, hook, order[at]), SubSeq(order, at + 1, Len(order)))
    BY <2>3, Hooked!LoopGoesOn
  <2> QED  BY <2>1, <2>2, <2>3, <2>4
<1>17. PICK body : body = BodyFrom(m, task, 1)
  OBVIOUS
<1>18. Host!RunHook(m, hook, task) = body
  <2>1. Host!RunHook(m, hook, task) = Host!DrainOnEvent(m, task)
    BY <1>12, <1>14 DEF Host!RunHook
  <2> QED  BY <1>7, <1>17, <2>1, EventBody
<1>19. AfterBody(m)' = body
  <2>1. programCounter'[task] = 1
    BY <1>7, <1>8
  <2> QED  BY <1>6, <1>8, <1>17, <2>1 DEF AfterBody
<1>20. InHooks(body, f)'
  <2>1. hookTasks' = Due("state_exit", path, at + 1)
    <3>1. Due("state_exit", path, at + 1) = Due("state_exit", path, k) \ {at}
      <4>1. \A i \in Due("state_exit", path, k) : at <= i
        BY <1>3, <1>11, <1>13
      <4> QED  BY <1>4, <1>14, <4>1 DEF Due
    <3> QED  BY <1>3, <1>11, <1>13, <3>1
  <2>2. f = Hooked!Loop([trigger |-> "state_exit", path |-> path], body, RestOf(TaskOrder, at + 1))
    BY <1>4, <1>12, <1>16, <1>18 DEF RestOf
  <2>3. at + 1 \in 1..(Len(TaskOrder) + 1)
    BY <1>4, <1>14
  <2> QED  BY <2>1, <2>2, <2>3 DEF InHooks
<1>21. Alike(m)'
  <2>1. /\ HostOK(m) /\ m.outcome = "running" /\ m.resumeAt = resumeAt /\ m.accumulated = accumulated
        /\ SamePlace(m, task)
    BY <1>1 DEF Alike
  <2>2. m.counter[task] = NoProgress
    BY <1>7, <2>1 DEF SamePlace
  <2>3. SamePlace(m, task)'
    BY <1>7, <2>2 DEF SamePlace
  <2>4. \A other \in Tasks \ {task} :
          m.counter[other] = m.counter[other] /\ programCounter'[other] = programCounter[other]
    BY <1>7, <1>8
  <2>5. m.resumeAt = resumeAt' /\ m.accumulated = accumulated' /\ draining' \in {NoTask, task}
    BY <1>6, <1>8, <2>1
  <2> QED  BY <1>1, <1>6, <2>1, <2>3, <2>4, <2>5, TaskMoves
<1>22. InPlan(f, g)'
  BY <1>6, <1>9 DEF InPlan
<1>23. h = AfterCall(AfterLoop(g))'
  BY <1>6, <1>9, RestStays
<1>24. LeadsTo(m, h)'
  BY <1>19, <1>20, <1>22, <1>23 DEF LeadsTo
<1>25. host' = h
  BY <1>2
<1> QED  BY <1>21, <1>24, <1>25 DEF Mirrored

------------------------------------------------------------------------------
(* From phase to phase. *)

\* The states of the start are entered: no task waits for that.
LEMMA BootMachineStep ==
  ASSUME RunsAlike, Simulated, Mirrored, BootMachine, host' = host
  PROVE  Mirrored'
<1> USE DEF taskVars, dataVars, machineVars, callVars, runVars
<1>1. PICK m : Alike(m) /\ LeadsTo(m, host)
  BY DEF Mirrored
<1>2. PICK h : h = host
  OBVIOUS
<1>3. /\ hookTasks = {} /\ plan = << >> /\ draining = NoTask /\ hookTasks' = {} /\ draining' = NoTask
      /\ phase = "boot" /\ phase' = "boot"
  BY DEF BootMachine, AtMachine, Quiet
<1>4. h = AfterCall(AfterLoop(AfterBody(m)))
  BY <1>1, <1>2, <1>3, MirrorLeads
<1>5. AfterBody(m) = m /\ AfterLoop(m) = m /\ AfterLoop(m)' = m
  BY <1>3 DEF AfterBody, AfterLoop
<1>6. AfterCall(AfterLoop(m))' = AfterCall(m)
  BY <1>3, <1>5 DEF AfterCall
<1>7. h = AfterCall(AfterLoop(m))'
  BY <1>4, <1>5, <1>6
<1>8. InPlan(m, m)'
  BY DEF InPlan, BootMachine, Hooks
<1>9. Alike(m)'
  BY <1>1, MirrorStays DEF BootMachine
<1>10. LeadsTo(m, h)'
  BY <1>3, <1>7, <1>8, PlanIsLed
<1>11. host' = h
  BY <1>2
<1> QED  BY <1>9, <1>10, <1>11 DEF Mirrored

\* Behind the end of a sequence there is nothing.
LEMMA NothingIsLeft ==
  ASSUME NEW T, NEW seq \in Seq(T), NEW k \in Nat, k > Len(seq)
  PROVE  Len(RestOf(seq, k)) = 0
BY DEF RestOf

\* A loop that has come to its end has done everything.
LEMMA LoopsAreOver ==
  ASSUME Simulated, NEW m, phase \in DOMAIN Following, cursor > LengthOf(phase)
  PROVE  AfterLoop(m) = m /\ ~ charged
<1>1. cursor \in Nat /\ MachineOrder \in Seq(Machines) /\ TaskOrder \in Seq(Tasks)
  BY TasksAssumption, MachinesAssumption DEF Simulated, IndInv, TypeOK
<1>2. ~ charged
  <2>1. LengthOf(phase) \in Nat
    BY TaskOrderFacts DEF LengthOf
  <2> QED  BY <1>1, <2>1 DEF Simulated, TickInProgress
<1>3. CASE phase \in {"boot", "machines"}
  <2>1. Len(RestOf(MachineOrder, cursor)) = 0
    BY <1>1, <1>3, NothingIsLeft DEF LengthOf
  <2>2. PICK context : context = elapsed
    OBVIOUS
  <2>3. TickedMachines!Loop(context, m, RestOf(MachineOrder, cursor)) = m
    BY <2>1, TickedMachines!LoopOverNothing
  <2> QED  BY <1>2, <1>3, <2>2, <2>3 DEF AfterLoop
<1>4. CASE phase \notin {"boot", "machines"}
  <2>1. Len(RestOf(TaskOrder, cursor)) = 0
    BY <1>1, <1>4, NothingIsLeft DEF LengthOf
  <2>2. PICK time, name, rest : time = elapsed /\ name = event /\ rest = RestOf(TaskOrder, cursor)
    OBVIOUS
  <2>3. FiredTasks!Loop(time, m, rest) = m
    BY <2>1, <2>2, FiredTasks!LoopOverNothing
  <2>4. StartedLoops!Loop("loop", m, rest) = m
    BY <2>1, <2>2, StartedLoops!LoopOverNothing
  <2>5. OfferedTasks!Loop(name, m, rest) = m
    BY <2>1, <2>2, OfferedTasks!LoopOverNothing
  <2>6. ResumedTasks!Loop("every", m, rest) = m /\ ResumedTasks!Loop("loop", m, rest) = m
    BY <2>1, <2>2, ResumedTasks!LoopOverNothing
  <2>7. Resuming(m, cursor) = m
    BY <2>2, <2>6 DEF Resuming
  <2> QED  BY <1>2, <1>4, <2>2, <2>3, <2>4, <2>5, <2>7 DEF AfterLoop, Following
<1> QED  BY <1>2, <1>3, <1>4

\* A loop that begins is the whole function of the interpreter.
LEMMA LoopsAreWhole ==
  ASSUME NEW m, NEW time, NEW name
  PROVE  /\ StartedLoops!Loop("loop", m, RestOf(TaskOrder, 1)) = Host!StartLoops(m)
         /\ FiredTasks!Loop(time, m, RestOf(TaskOrder, 1)) = Host!AdvanceEvery(m, time)
         /\ TickedMachines!Loop(time, m, RestOf(MachineOrder, 1)) = Host!AdvanceStateMachines(m, time)
         /\ OfferedTasks!Loop(name, m, RestOf(TaskOrder, 1))
              = Host!ForEach(Host!OfferEvent, name, m, TaskOrder)
         /\ Resuming(m, 1) = Host!ResumeWaiting(Host!ResumeWaiting(m, "every"), "loop")
<1>1. PICK order \in Seq(Tasks) : order = TaskOrder
  BY TasksAssumption
<1>2. PICK machines \in Seq(Machines) : machines = MachineOrder
  BY MachinesAssumption
<1>3. StartedLoops!Loop("loop", m, RestOf(TaskOrder, 1)) = Host!StartLoops(m)
  <2>1. Host!StartLoops(m) = StartedLoops!Loop("loop", m, TaskOrder)
    BY DEF Host!StartLoops, Host!ForEach, StartedLoops!Loop
  <2>2. StartedLoops!Loop("loop", m, SubSeq(order, 1, Len(order))) = StartedLoops!Loop("loop", m, order)
    BY StartedLoops!LoopIsWhole
  <2> QED  BY <1>1, <2>1, <2>2 DEF RestOf
<1>4. FiredTasks!Loop(time, m, RestOf(TaskOrder, 1)) = Host!AdvanceEvery(m, time)
  <2>1. Host!AdvanceEvery(m, time) = FiredTasks!Loop(time, m, TaskOrder)
    BY DEF Host!AdvanceEvery, Host!ForEach, FiredTasks!Loop
  <2>2. FiredTasks!Loop(time, m, SubSeq(order, 1, Len(order))) = FiredTasks!Loop(time, m, order)
    BY FiredTasks!LoopIsWhole
  <2> QED  BY <1>1, <2>1, <2>2 DEF RestOf
<1>5. TickedMachines!Loop(time, m, RestOf(MachineOrder, 1)) = Host!AdvanceStateMachines(m, time)
  <2>1. Host!AdvanceStateMachines(m, time) = TickedMachines!Loop(time, m, MachineOrder)
    BY DEF Host!AdvanceStateMachines, Host!ForEach, TickedMachines!Loop
  <2>2. TickedMachines!Loop(time, m, SubSeq(machines, 1, Len(machines)))
          = TickedMachines!Loop(time, m, machines)
    BY TickedMachines!LoopIsWhole
  <2> QED  BY <1>2, <2>1, <2>2 DEF RestOf
<1>6. OfferedTasks!Loop(name, m, RestOf(TaskOrder, 1))
        = Host!ForEach(Host!OfferEvent, name, m, TaskOrder)
  <2>1. Host!ForEach(Host!OfferEvent, name, m, TaskOrder) = OfferedTasks!Loop(name, m, TaskOrder)
    BY DEF Host!ForEach, OfferedTasks!Loop
  <2>2. OfferedTasks!Loop(name, m, SubSeq(order, 1, Len(order))) = OfferedTasks!Loop(name, m, order)
    BY OfferedTasks!LoopIsWhole
  <2> QED  BY <1>1, <2>1, <2>2 DEF RestOf
<1>7. ASSUME NEW mode, NEW g
      PROVE  ResumedTasks!Loop(mode, g, RestOf(TaskOrder, 1)) = Host!ResumeWaiting(g, mode)
  <2>1. Host!ResumeWaiting(g, mode) = ResumedTasks!Loop(mode, g, TaskOrder)
    BY DEF Host!ResumeWaiting, Host!ForEach, ResumedTasks!Loop
  <2>2. ResumedTasks!Loop(mode, g, SubSeq(order, 1, Len(order))) = ResumedTasks!Loop(mode, g, order)
    BY ResumedTasks!LoopIsWhole
  <2> QED  BY <1>1, <2>1, <2>2 DEF RestOf
<1>8. Resuming(m, 1) = Host!ResumeWaiting(Host!ResumeWaiting(m, "every"), "loop")
  BY <1>7 DEF Resuming
<1> QED  BY <1>3, <1>4, <1>5, <1>6, <1>8

\* One loop of a call is over and the next begins: what was left of the call is
\* the whole of that loop and what comes behind it.
LEMMA NextPhaseStep ==
  ASSUME RunsAlike, Simulated, Mirrored, NextPhase, host' = host
  PROVE  Mirrored'
<1> USE DEF taskVars, dataVars, machineVars, callVars, runVars
<1>1. PICK m : Alike(m) /\ LeadsTo(m, host)
  BY DEF Mirrored
<1>2. PICK h : h = host
  OBVIOUS
<1>3. /\ hookTasks = {} /\ plan = << >> /\ draining = NoTask
      /\ hookTasks' = {} /\ plan' = << >> /\ draining' = NoTask
      /\ phase \in DOMAIN Following /\ phase' = Following[phase] /\ cursor > LengthOf(phase)
      /\ cursor' = 1 /\ charged' = charged /\ elapsed' = elapsed
  BY DEF NextPhase, Quiet
<1>4. AfterLoop(m) = m /\ ~ charged
  BY <1>3, LoopsAreOver
<1>5. h = AfterCall(m)
  <2>1. h = AfterCall(AfterLoop(AfterBody(m)))
    BY <1>1, <1>2, <1>3, MirrorLeads
  <2>2. AfterBody(m) = m
    BY <1>3 DEF AfterBody
  <2> QED  BY <1>4, <2>1, <2>2
<1>6. PICK time : time = elapsed
  OBVIOUS
<1>7. AfterCall(AfterLoop(m))' = AfterCall(m)
  <2>1. CASE phase \in {"boot", "every"}
    <3>1. AfterLoop(m)' = Host!StartLoops(m) /\ phase' = "loops"
      BY <1>3, <2>1, LoopsAreWhole DEF AfterLoop, Following
    <3> QED  BY <2>1, <3>1 DEF AfterCall
  <2>2. CASE phase = "resume"
    <3>1. AfterLoop(m)' = Host!AdvanceStateMachines(m, time) /\ phase' = "machines"
      BY <1>3, <1>4, <1>6, <2>2, LoopsAreWhole DEF AfterLoop, Following
    <3> QED  BY <1>3, <1>6, <2>2, <3>1 DEF AfterCall
  <2>3. CASE phase = "machines"
    <3>1. AfterLoop(m)' = Host!AdvanceEvery(m, time) /\ phase' = "every"
      BY <1>3, <1>4, <1>6, <2>3, LoopsAreWhole DEF AfterLoop, Following
    <3> QED  BY <1>3, <1>6, <2>3, <3>1 DEF AfterCall
  <2>4. CASE phase \in {"loops", "event"}
    <3>1. AfterLoop(m)' = m /\ phase' = "flush"
      BY <1>3, <2>4 DEF AfterLoop, Following
    <3> QED  BY <2>4, <3>1 DEF AfterCall
  <2> QED  BY <1>3, <2>1, <2>2, <2>3, <2>4 DEF Following
<1>8. AfterBody(m)' = m
  BY <1>3 DEF AfterBody
<1>9. Alike(m)'
  BY <1>1, MirrorStays DEF NextPhase
<1>10. InPlan(m, m)'
  BY <1>3 DEF InPlan
<1>11. h = AfterCall(AfterLoop(m))'
  BY <1>5, <1>7
<1>12. LeadsTo(m, h)'
  BY <1>3, <1>10, <1>11, PlanIsLed
<1>13. host' = h
  BY <1>2
<1> QED  BY <1>9, <1>12, <1>13 DEF Mirrored

\* What is flushed to a device is what was shown before.
LEMMA FlushShowsTheSame ==
  ASSUME TypeOK, NEW m, SameOutputs(m), NEW device \in Host!Observed, FlushPendingEffects
  PROVE  devices'[device] = m.shown[device]
<1>1. device \in Devices
  BY ReplayAssumption
<1>2. DOMAIN pendingEffects = 1..Len(pendingEffects) /\ Len(pendingEffects) \in Nat
  BY DEF TypeOK
<1>3. Queued(device) = {k \in 1..Len(pendingEffects) : pendingEffects[k].device = device}
  BY <1>2 DEF Queued
<1>4. CASE Queued(device) = {}
  <2>1. devices'[device] = devices[device]
    BY <1>1, <1>3, <1>4 DEF FlushPendingEffects
  <2> QED  BY <1>4, <2>1 DEF SameOutputs
<1>5. CASE Queued(device) # {}
  <2>1. PICK last : last = LastEffectOn(device)
    OBVIOUS
  <2>2. devices'[device] = pendingEffects[last].value
    BY <1>1, <1>3, <1>5, <2>1 DEF FlushPendingEffects
  <2>3. last \in Queued(device) /\ \A j \in Queued(device) : j <= last
    <3>1. Queued(device) \subseteq 0..Len(pendingEffects)
      BY <1>2, <1>3
    <3>2. \E i \in Queued(device) : \A j \in Queued(device) : j <= i
      BY <1>2, <1>5, <3>1, MaximumExists
    <3> QED  BY <1>3, <2>1, <3>2 DEF LastEffectOn
  <2> QED  BY <2>2, <2>3 DEF SameOutputs
<1> QED  BY <1>4, <1>5

\* The end of a call: both have come to the same state.
LEMMA FlushPendingEffectsStep ==
  ASSUME RunsAlike, Simulated, Mirrored, FlushPendingEffects, host' = host
  PROVE  Mirrored'
<1> USE DEF taskVars, dataVars, machineVars, callVars, runVars
<1>1. PICK m : Alike(m) /\ LeadsTo(m, host)
  BY DEF Mirrored
<1>2. PICK h : h = host
  OBVIOUS
<1>3. /\ hookTasks = {} /\ plan = << >> /\ draining = NoTask
      /\ hookTasks' = {} /\ plan' = << >> /\ draining' = NoTask
      /\ phase = "flush" /\ phase' = "idle"
  BY DEF FlushPendingEffects, Simulated, IdleIsQuiet, Quiet
<1>4. h = m
  <2>1. h = AfterCall(AfterLoop(AfterBody(m)))
    BY <1>1, <1>2, <1>3, MirrorLeads
  <2>2. AfterBody(m) = m /\ AfterLoop(m) = m /\ AfterCall(m) = m
    BY <1>3 DEF AfterBody, AfterLoop, AfterCall
  <2> QED  BY <2>1, <2>2
<1>5. AfterBody(m)' = m /\ AfterLoop(m)' = m /\ AfterCall(m)' = m
  BY <1>3 DEF AfterBody, AfterLoop, AfterCall
<1>6. h = AfterCall(AfterLoop(AfterBody(m)))'
  BY <1>4, <1>5
<1>7. LeadsTo(m, h)'
  BY <1>3, <1>6, MirrorIsLed
<1>8. Alike(m)'
  <2>1. SameOutputs(m)'
    <3>2. \A device \in Host!Observed : Queued(device)' = {}
      BY DEF Queued, FlushPendingEffects
    <3>3. \A device \in Host!Observed : devices'[device] = m.shown[device]
      BY <1>1, FlushShowsTheSame DEF Alike, Simulated, IndInv
    <3> QED  BY <3>2, <3>3 DEF SameOutputs
  <2>2. \A task \in Tasks : SamePlace(m, task)'
    BY <1>1 DEF Alike, SamePlace, FlushPendingEffects
  <2> QED  BY <1>1, <2>1, <2>2 DEF Alike, FlushPendingEffects
<1>9. host' = h
  BY <1>2
<1> QED  BY <1>7, <1>8, <1>9 DEF Mirrored

------------------------------------------------------------------------------
(* Between two calls. *)

\* Between two calls the mirror is the interpreter itself.
LEMMA IdleIsAlike ==
  ASSUME Simulated, Mirrored, phase = "idle"
  PROVE  /\ Alike(host)
         /\ hookTasks = {} /\ plan = << >> /\ draining = NoTask
<1>1. PICK m : Alike(m) /\ LeadsTo(m, host)
  BY DEF Mirrored
<1>2. PICK h : h = host
  OBVIOUS
<1>3. hookTasks = {} /\ plan = << >> /\ draining = NoTask
  BY DEF Simulated, IdleIsQuiet, Quiet
<1>4. h = AfterCall(AfterLoop(AfterBody(m)))
  BY <1>1, <1>2, <1>3, MirrorLeads
<1>5. AfterBody(m) = m /\ AfterLoop(m) = m /\ AfterCall(m) = m
  BY <1>3 DEF AfterBody, AfterLoop, AfterCall
<1> QED  BY <1>1, <1>2, <1>3, <1>4, <1>5

\* The interpreter when time passes.
Later(m, milliseconds) == [m EXCEPT !.total = @ + milliseconds]

\* A tick begins.
LEMMA TickMsStep ==
  ASSUME RunsAlike, Simulated, Mirrored, NEW milliseconds \in Nat, milliseconds > 0,
         TickMs(milliseconds)
  PROVE  Mirrored'
<1> USE DEF taskVars, dataVars, machineVars, callVars, runVars
<1>1. BeginTick(milliseconds, << >>) /\ phase = "idle"
  BY DEF TickMs, BeginTick
<1>2. Alike(host) /\ hookTasks = {} /\ plan = << >> /\ draining = NoTask
  BY <1>1, IdleIsAlike
<1>3. PICK m, h : m = host /\ h = host'
  OBVIOUS
<1>4. /\ hookTasks' = {} /\ plan' = << >> /\ draining' = NoTask
      /\ phase' = "resume" /\ cursor' = 1 /\ elapsed' = milliseconds
      /\ total' = total + milliseconds /\ pendingEffects' = pendingEffects \o << >>
      /\ UNCHANGED <<accumulated, programCounter, resumeAt, varValues, devices, activeLeaf,
                     machineAccumulated>>
  BY <1>1, <1>2 DEF BeginTick
<1>5. PICK m2 : m2 = Later(m, milliseconds)
  OBVIOUS
<1>6. h = Host!Advance(m2, milliseconds)
  BY <1>3, <1>5 DEF TickMs, Host!TickMilliseconds, Later
<1>7. AfterBody(m2)' = m2
  BY <1>4 DEF AfterBody
<1>8. AfterLoop(m2)' = Host!ResumeWaiting(Host!ResumeWaiting(m2, "every"), "loop")
  <2>1. AfterLoop(m2)' = Resuming(m2, 1)
    BY <1>4 DEF AfterLoop
  <2> QED  BY <2>1, LoopsAreWhole
<1>9. h = AfterCall(AfterLoop(m2))'
  BY <1>4, <1>6, <1>8 DEF AfterCall, Host!Advance
<1>10. h = AfterCall(AfterLoop(AfterBody(m2)))'
  BY <1>7, <1>9
<1>11. LeadsTo(m2, h)'
  BY <1>4, <1>10, MirrorIsLed
<1>12. Alike(m2)'
  <2>1. Alike(m) /\ m \in HostStates
    BY <1>2, <1>3 DEF Alike, HostOK
  <2>2. /\ m2.outcome = m.outcome /\ m2.total = m.total + milliseconds
        /\ m2.accumulated = m.accumulated /\ m2.resumeAt = m.resumeAt /\ m2.counter = m.counter
        /\ m2.vars = m.vars /\ m2.leaf = m.leaf /\ m2.ticked = m.ticked
        /\ m2.entry = m.entry /\ m2.shown = m.shown /\ m2 \in HostStates
    <3>1. m.total + milliseconds \in Nat
      BY <2>1 DEF HostStates
    <3> QED  BY <1>5, <2>1, <3>1 DEF Later, HostStates
  <2>3. HostOK(m2)
    BY <2>1, <2>2 DEF Alike, HostOK, WaitsAreRemembered
  <2>4. pendingEffects' = pendingEffects
    <3>1. pendingEffects \in Seq(Effects)
      BY DEF Simulated, IndInv, TypeOK
    <3> QED  BY <1>4, <3>1
  <2>5. SameOutputs(m2)'
    BY <1>4, <2>1, <2>2, <2>4 DEF Alike, SameOutputs, Queued
  <2>6. \A task \in Tasks : SamePlace(m2, task)'
    BY <1>2, <1>4, <2>1, <2>2 DEF Alike, SamePlace
  <2> QED  BY <1>4, <2>1, <2>2, <2>3, <2>5, <2>6 DEF Alike
<1>13. host' = h
  BY <1>3
<1> QED  BY <1>11, <1>12, <1>13 DEF Mirrored

\* An event is dispatched.
LEMMA DispatchDeviceEventStep ==
  ASSUME RunsAlike, Simulated, Mirrored, NEW name, DispatchDeviceEvent(name)
  PROVE  Mirrored'
<1> USE DEF taskVars, dataVars, machineVars, callVars, runVars
<1>1. DispatchScriptEvent(name) /\ phase = "idle"
  BY DEF DispatchDeviceEvent, DispatchScriptEvent
<1>2. Alike(host) /\ hookTasks = {} /\ plan = << >> /\ draining = NoTask
  BY <1>1, IdleIsAlike
<1>3. PICK m, h : m = host /\ h = host'
  OBVIOUS
<1>4. /\ hookTasks' = {} /\ plan' = << >> /\ draining' = NoTask
      /\ phase' = "event" /\ cursor' = 1 /\ event' = name
  BY <1>1, <1>2 DEF DispatchScriptEvent
<1>5. h = Host!ForEach(Host!OfferEvent, name, m, TaskOrder)
  BY <1>3 DEF DispatchDeviceEvent, Host!DispatchDeviceEvent
<1>6. AfterBody(m)' = m
  BY <1>4 DEF AfterBody
<1>7. AfterLoop(m)' = Host!ForEach(Host!OfferEvent, name, m, TaskOrder)
  <2>1. AfterLoop(m)' = OfferedTasks!Loop(name, m, RestOf(TaskOrder, 1))
    BY <1>4 DEF AfterLoop
  <2> QED  BY <2>1, LoopsAreWhole
<1>8. h = AfterCall(AfterLoop(AfterBody(m)))'
  BY <1>4, <1>5, <1>6, <1>7 DEF AfterCall
<1>9. LeadsTo(m, h)'
  BY <1>4, <1>8, MirrorIsLed
<1>10. Alike(m)'
  BY <1>1, <1>2, <1>3, MirrorStays DEF DispatchScriptEvent
<1>11. host' = h
  BY <1>3
<1> QED  BY <1>9, <1>10, <1>11 DEF Mirrored

\* Nothing happens in either.
LEMMA StutteringStep ==
  ASSUME Mirrored, UNCHANGED <<vars, host>>
  PROVE  Mirrored'
<1> USE DEF vars, taskVars, dataVars, machineVars, callVars, runVars
<1>1. PICK m : Alike(m) /\ LeadsTo(m, host)
  BY DEF Mirrored
<1>2. PICK h : h = host
  OBVIOUS
<1>3. AfterBody(m)' = AfterBody(m)
  BY DEF AfterBody
<1>4. LeadsTo(m, h)'
  BY <1>1, <1>2, <1>3, LeadsToStays
<1>5. Alike(m)'
  BY <1>1, MirrorStays
<1>6. host' = h
  BY <1>2
<1> QED  BY <1>4, <1>5, <1>6 DEF Mirrored

------------------------------------------------------------------------------
(* The start. *)

\* Without an enter task the states of the start are entered unnoticed.
LEMMA NobodyNoticesTheStart ==
  ASSUME RunsAlike, NEW m \in HostStates
  PROVE  Host!ForEach(Host!EnterInitialStates, "state_enter", m, MachineOrder) = m
<1>1. ASSUME NEW path
      PROVE  Host!DispatchHook(m, "state_enter", path) = m
  <2>1. PICK hook : hook = [trigger |-> "state_enter", path |-> path]
    OBVIOUS
  <2>2. Host!DispatchHook(m, "state_enter", path) = Hooked!Loop(hook, m, TaskOrder)
    BY <2>1 DEF Host!DispatchHook, Host!ForEach, Hooked!Loop
  <2>3. \A i \in 1..Len(TaskOrder) : Host!RunHook(m, hook, TaskOrder[i]) = m
    BY <2>1, TaskOrderFacts DEF RunsAlike, NoEnterTasks, Host!RunHook
  <2>4. Hooked!Loop(hook, m, TaskOrder) \in {m}
    <3>1. \A i \in 1..Len(TaskOrder) : \A g \in {m} :
            g.outcome = "running" => Host!RunHook(g, hook, TaskOrder[i]) \in {m}
      BY <2>3
    <3> QED  BY <3>1, TaskOrderFacts, Hooked!LoopStaysIn
  <2> QED  BY <2>2, <2>4
<1>2. ASSUME NEW machine \in Machines
      PROVE  Host!EnterInitialStates(m, "state_enter", machine) = m
  <2>1. PICK paths : paths = EnumeratePrefixes(m.leaf[machine])
    OBVIOUS
  <2>2. Len(paths) \in Nat
    <3>1. m.leaf[machine] \in Leaves
      BY DEF HostStates
    <3> QED  BY <2>1, <3>1, LeavesArePaths DEF EnumeratePrefixes
  <2>3. Host!EnterInitialStates(m, "state_enter", machine)
          = DispatchedHooks!Loop("state_enter", m, paths)
    <3>1. Host!EnterInitialStates(m, "state_enter", machine)
            = Host!DispatchHooks(m, "state_enter", paths)
      BY <2>1, SamePaths DEF Host!EnterInitialStates
    <3>2. Host!DispatchHooks(m, "state_enter", paths) = DispatchedHooks!Loop("state_enter", m, paths)
      BY DEF Host!DispatchHooks, Host!ForEach, DispatchedHooks!Loop
    <3> QED  BY <3>1, <3>2
  <2>4. DispatchedHooks!Loop("state_enter", m, paths) \in {m}
    <3>1. \A i \in 1..Len(paths) : \A g \in {m} :
            g.outcome = "running" => Host!DispatchHook(g, "state_enter", paths[i]) \in {m}
      BY <1>1
    <3> QED  BY <2>2, <3>1, DispatchedHooks!LoopStaysIn
  <2> QED  BY <2>3, <2>4
<1>3. Host!ForEach(Host!EnterInitialStates, "state_enter", m, MachineOrder)
        = EnteredMachines!Loop("state_enter", m, MachineOrder)
  BY DEF Host!ForEach, EnteredMachines!Loop
<1>4. EnteredMachines!Loop("state_enter", m, MachineOrder) \in {m}
  <2>1. \A i \in 1..Len(MachineOrder) : \A g \in {m} :
          g.outcome = "running"
            => Host!EnterInitialStates(g, "state_enter", MachineOrder[i]) \in {m}
    BY <1>2, TaskOrderFacts
  <2> QED  BY <2>1, TaskOrderFacts, EnteredMachines!LoopStaysIn
<1> QED  BY <1>3, <1>4

\* The constructor of the interpreter and the first call of the simulator.
LEMMA MirroredInit ==
  ASSUME RunsAlike, ReplayInit
  PROVE  Mirrored
<1>1. Init /\ host = Host!Constructed
  BY DEF ReplayInit, Host!Init
<1>2. PICK m : m = Host!Loaded
  OBVIOUS
<1>3. HostOK(m) /\ m.outcome = "running" /\ m \in HostStates
  BY <1>2, LoadedKeeps DEF HostOK
<1>4. Alike(m)
  <2>1. /\ m.total = 0 /\ m.accumulated = [task \in Host!Tasks |-> 0]
        /\ m.counter = [task \in Host!Tasks |-> Host!NoProgress]
        /\ m.resumeAt = [task \in Host!Tasks |-> Host!NotWaiting]
        /\ m.vars = InitialVars /\ m.leaf = InitialLeaf
        /\ m.shown = [device \in Host!Observed |-> InitialDevices[device]]
        /\ m.ticked = [machine \in Host!Machines |-> 0] /\ m.entry = Host!Loaded.entry
    BY <1>2 DEF Host!Loaded
  <2>2. /\ Host!Tasks = Tasks /\ Host!Machines = Machines
        /\ Host!NoProgress = NoProgress /\ Host!NotWaiting = NotWaiting
    BY DEF Host!Tasks, Tasks, Host!Machines, Machines, Host!NoProgress, NoProgress,
           Host!NotWaiting, NotWaiting
  <2>3. SameOutputs(m)
    BY <1>1, <2>1 DEF SameOutputs, Queued, Init
  <2>4. \A task \in Tasks : SamePlace(m, task)
    BY <1>1, <2>1, <2>2 DEF SamePlace, Init
  <2> QED  BY <1>1, <1>3, <2>1, <2>2, <2>3, <2>4 DEF Alike, Init
<1>5. LeadsTo(m, host)
  <2>1. /\ AfterBody(m) = m /\ InHooks(m, m) /\ InPlan(m, m) /\ AfterLoop(m) = m
        /\ AfterCall(m) = Host!StartLoops(m)
    BY <1>1 DEF Init, AfterBody, InHooks, InPlan, AfterLoop, AfterCall
  <2>2. Host!Constructed
          = Host!StartLoops(Host!ForEach(Host!EnterInitialStates, "state_enter", m, MachineOrder))
    BY <1>2 DEF Host!Constructed
  <2>3. host = Host!StartLoops(m)
    BY <1>1, <1>3, <2>2, NobodyNoticesTheStart
  <2>4. host = AfterCall(AfterLoop(m))
    BY <2>1, <2>3
  <2> QED  BY <2>1, <2>4 DEF LeadsTo
<1> QED  BY <1>4, <1>5 DEF Mirrored

------------------------------------------------------------------------------
(* Ticks take time. *)

\* An interval that the package builder finds is not empty.
LEMMA IntervalsTakeTime ==
  /\ Package!Registered("every") # {} => IntervalOf[Package!FirstOf("every")] > 0
  /\ Package!MachineTick # Package!NoInterval => Package!MachineTick >= 1
  /\ Package!WaitingLoops # {} => Package!LoopWait >= 1
<1>1. Package!Registered("every") # {} => IntervalOf[Package!FirstOf("every")] > 0
  BY FirstOfAKind, TasksAssumption
<1>2. ASSUME Package!MachineTick # Package!NoInterval
      PROVE  Package!MachineTick >= 1
  <2> DEFINE ticks == {tick \in Package!MachineTicks : tick >= 1}
  <2>1. Package!Machines = Machines
    BY DEF Package!Machines, Machines
  <2>2. ticks \subseteq Nat
    BY <2>1, MachinesAssumption DEF Package!MachineTicks
  <2>3. ticks # {} /\ Package!MachineTick = Package!Min(ticks)
    BY <1>2 DEF Package!MachineTick
  <2>4. Package!MachineTick \in ticks
    <3> HIDE DEF ticks
    <3> QED  BY <2>2, <2>3, LeastOfThePackage
  <2> QED  BY <2>4
<1>3. ASSUME Package!WaitingLoops # {}
      PROVE  Package!LoopWait >= 1
  <2> DEFINE first == Package!Min(Package!WaitingLoops)
             body == Body[TaskOrder[first]]
             waits == Package!LiteralWaits(body)
             wait == Package!Min(waits)
  <2>1. first \in Package!WaitingLoops
    <3>1. Package!WaitingLoops \subseteq Nat
      BY TasksAssumption DEF Package!WaitingLoops, Package!Registered
    <3> QED  BY <1>3, <3>1, LeastOfThePackage
  <2>2. TaskOrder[first] \in Tasks /\ waits # {}
    <3> HIDE DEF first
    <3>1. first \in Package!Registered("loop") /\ waits # {}
      BY <2>1 DEF Package!WaitingLoops
    <3>2. first \in DOMAIN TaskOrder
      BY <3>1 DEF Package!Registered
    <3> QED  BY <3>1, <3>2, TasksAssumption
  <2>3. body \in Seq(Statements)
    BY <2>2, TasksAssumption
  <2>4. Package!LoopWait = body[wait].duration.value
    BY DEF Package!LoopWait
  <2> HIDE DEF first, body
  <2>5. waits \subseteq Nat
    BY <2>3 DEF Package!LiteralWaits
  <2>6. wait \in waits
    <3> HIDE DEF waits
    <3> QED  BY <2>2, <2>5, LeastOfThePackage
  <2> QED  BY <2>4, <2>6 DEF Package!LiteralWaits
<1> QED  BY <1>1, <1>2, <1>3

\* No step of a replay is a tick of no time.
LEMMA TicksOfReplaysTakeTime ==
  ASSUME RunsAlike, NEW step \in Steps, step.kind = "tick_ms"
  PROVE  step.milliseconds > 0
<1>1. ASSUME NEW milliseconds, milliseconds > 0, step = Package!Tick(milliseconds)
      PROVE  step.milliseconds > 0
  BY <1>1 DEF Package!Tick
<1>2. ASSUME NEW name
      PROVE  step # Package!Dispatch(name)
  BY DEF Package!Dispatch
<1>3. CASE step \in {Package!Tick(milliseconds) : milliseconds \in Elapses}
  <2>1. PICK milliseconds \in Elapses : step = Package!Tick(milliseconds)
    BY <1>3
  <2>2. milliseconds \in Nat /\ milliseconds # 0
    BY EnvironmentAssumption DEF RunsAlike, TicksTakeTime
  <2> QED  BY <1>1, <2>1, <2>2
<1>4. Package!LiveTickInterval > 0
  BY IntervalsTakeTime, IntervalsAreNatural DEF Package!LiveTickInterval, Package!DefaultTick
<1>5. CASE step = Package!Tick(Package!LiveTickInterval)
  BY <1>1, <1>4, <1>5
<1>6. CASE step = Package!InferredStep
  <2>1. CASE Package!Registered("every") # {}
    BY <1>1, <1>6, <2>1, IntervalsTakeTime DEF Package!InferredStep
  <2>2. CASE step = Package!WithoutEvery
    <3>1. Package!DefaultTick > 0
      BY DEF Package!DefaultTick
    <3>2. Package!MachineTick # Package!NoInterval => Package!MachineTick > 0
      BY IntervalsTakeTime, IntervalsAreNatural
    <3>3. Package!WaitingLoops # {} => Package!LoopWait > 0
      BY IntervalsTakeTime, IntervalsAreNatural
    <3> QED  BY <1>1, <2>2, <3>1, <3>2, <3>3 DEF Package!WithoutEvery
  <2> QED  BY <1>2, <1>6, <2>1, <2>2 DEF Package!InferredStep
<1>7. \/ step \in {Package!Tick(milliseconds) : milliseconds \in Elapses}
      \/ step = Package!Tick(Package!LiveTickInterval)
      \/ step = Package!InferredStep
  <2>1. \A i \in DOMAIN Package!InferredReplay : Package!InferredReplay[i] = Package!InferredStep
    BY DEF Package!InferredReplay
  <2> QED  BY <1>2, <2>1 DEF Steps
<1> QED  BY <1>3, <1>5, <1>6, <1>7

------------------------------------------------------------------------------
(* The theorems. *)

MirrorInvariant ==
  /\ ReplayInvariant /\ TransitionInvariant /\ Undisturbed /\ IdleIsFlushed
  /\ ChargedMachinesTick /\ Mirrored

\* The invariant of the replays and of the transitions says where a call is.
LEMMA MirrorIsSimulated == MirrorInvariant => Simulated
BY DEF MirrorInvariant, ReplayInvariant, ClockInvariant, Simulated

\* The invariant holds when both have been constructed.
LEMMA MirrorInvariantInit == RunsAlike /\ ReplayInit => MirrorInvariant
<1> SUFFICES ASSUME RunsAlike, ReplayInit PROVE MirrorInvariant
  OBVIOUS
<1>1. Init
  BY DEF ReplayInit
<1>2. IdleIsFlushed /\ ChargedMachinesTick
  BY <1>1 DEF Init, IdleIsFlushed, ChargedMachinesTick
<1> QED
  BY <1>1, <1>2, ReplayInvariantInit, TransitionInit, UndisturbedInit, MirroredInit
  DEF MirrorInvariant

\* A step of the simulator, which the interpreter has already carried out.
LEMMA SimulateIsMirrored == RunsAlike /\ MirrorInvariant /\ Simulate => Mirrored'
<1> SUFFICES ASSUME RunsAlike, MirrorInvariant, Simulate PROVE Mirrored'
  OBVIOUS
<1>1. /\ Simulated /\ Mirrored /\ ChargedMachinesTick /\ Internal /\ host' = host
  BY MirrorIsSimulated DEF MirrorInvariant, Simulate
<1>2. DispatchHook => plan[1].hook = "exit" \/ plan[1].hook = "enter"
  BY DEF DispatchHook
<1> QED
  BY <1>1, <1>2, BodyStep, LoopStep, TickMachineStep, SwitchLeafStep, ExitHookStep, EnterHookStep,
     StartLifecycleTaskStep, BootMachineStep, NextPhaseStep, FlushPendingEffectsStep
  DEF Internal

\* Every step of a replay keeps it.
LEMMA MirrorInvariantStep ==
  RunsAlike /\ MirrorInvariant /\ [ReplayNext]_<<vars, host>> => MirrorInvariant'
<1> SUFFICES ASSUME RunsAlike, MirrorInvariant, [ReplayNext]_<<vars, host>>
             PROVE  MirrorInvariant'
  OBVIOUS
<1>1. /\ ReplayInvariant' /\ Simulated /\ IndInv /\ IdleIsQuiet /\ TickInProgress
      /\ TransitionInvariant /\ IdleIsFlushed /\ ChargedMachinesTick /\ Mirrored /\ Undisturbed
  BY ReplayInvariantStep, MirrorIsSimulated DEF MirrorInvariant, Simulated
<1>2. ASSUME Proceeds
      PROVE  /\ Undisturbed' /\ IdleIsFlushed' /\ ChargedMachinesTick'
  BY <1>1, <1>2, UndisturbedStep, IdleIsFlushedStep, ChargedMachinesTickStep
<1>3. CASE Simulate
  <2>1. Proceeds /\ [Next]_vars
    BY <1>3 DEF Simulate, Proceeds, Next
  <2>2. TransitionInvariant'
    BY <1>1, <2>1, TransitionStep
  <2>3. Mirrored'
    BY <1>3, SimulateIsMirrored
  <2> QED  BY <1>1, <1>2, <2>1, <2>2, <2>3 DEF MirrorInvariant
<1>4. CASE UNCHANGED <<vars, host>>
  <2>1. [Next]_vars
    BY <1>4
  <2>2. TransitionInvariant'
    BY <1>1, <2>1, TransitionStep
  <2>3. Mirrored'
    BY <1>1, <1>4, StutteringStep
  <2>4. IdleIsFlushed' /\ ChargedMachinesTick'
    BY <1>1, <1>4
    DEF vars, taskVars, dataVars, machineVars, callVars, runVars, IdleIsFlushed,
        ChargedMachinesTick, Machine
  <2>5. Undisturbed'
    BY <1>1, <1>4
    DEF vars, taskVars, dataVars, machineVars, callVars, runVars, Undisturbed, AllTasksRun,
        BudgetSuffices, EventTasksRest, BodiesOfThePhase, WaitsAhead, PlansOfThePhase,
        TimedStatesStay, SensorsStay
  <2> QED  BY <1>1, <2>2, <2>3, <2>4, <2>5 DEF MirrorInvariant
<1>5. ASSUME NEW milliseconds \in Nat, milliseconds > 0, TickMs(milliseconds)
      PROVE  MirrorInvariant'
  <2>1. BeginTick(milliseconds, << >>) /\ Proceeds
    BY <1>5 DEF TickMs, Proceeds
  <2>2. TransitionInvariant'
    BY <1>1, <2>1, BeginTickTransition
  <2>3. Mirrored'
    BY <1>1, <1>5, TickMsStep
  <2> QED  BY <1>1, <1>2, <2>1, <2>2, <2>3 DEF MirrorInvariant
<1>6. ASSUME NEW name \in Events, DispatchDeviceEvent(name)
      PROVE  MirrorInvariant'
  <2>1. DispatchScriptEvent(name) /\ Proceeds
    BY <1>6 DEF DispatchDeviceEvent, Proceeds
  <2>2. TransitionInvariant'
    <3>1. [Next]_vars
      BY <2>1 DEF Next, External
    <3> QED  BY <1>1, <3>1, TransitionStep
  <2>3. Mirrored'
    BY <1>1, <1>6, DispatchDeviceEventStep
  <2> QED  BY <1>1, <1>2, <2>1, <2>2, <2>3 DEF MirrorInvariant
<1>7. ASSUME NEW step \in Steps, ReplayStep(step)
      PROVE  MirrorInvariant'
  <2>1. step \in ReplaySteps
    BY StepsOfReplays
  <2>2. CASE step.kind = "tick_ms" /\ TickMs(step.milliseconds)
    <3>1. step.milliseconds \in Nat
      BY <2>1, <2>2 DEF ReplaySteps
    <3>2. step.milliseconds > 0
      BY <2>2, TicksOfReplaysTakeTime
    <3> QED  BY <1>5, <2>2, <3>1, <3>2
  <2>3. CASE step.kind = "dispatch_device_event" /\ DispatchDeviceEvent(step.name)
    <3>1. step.name \in Events
      BY <2>1, <2>3 DEF ReplaySteps
    <3> QED  BY <1>6, <2>3, <3>1
  <2> QED  BY <1>7, <2>2, <2>3 DEF ReplayStep
<1> QED  BY <1>3, <1>4, <1>7 DEF ReplayNext

\* What is alike between two calls.
LEMMA MirrorShowsItself == MirrorInvariant => TracesAgree /\ SchedulesAgree
<1> SUFFICES ASSUME MirrorInvariant, phase = "idle" PROVE TracesAgree /\ SchedulesAgree
  BY DEF TracesAgree, SchedulesAgree
<1>1. Simulated /\ Mirrored /\ pendingEffects = << >>
  BY MirrorIsSimulated DEF MirrorInvariant, IdleIsFlushed
<1>2. Alike(host) /\ draining = NoTask
  BY <1>1, IdleIsAlike
<1>3. host \in HostStates
  BY <1>2 DEF Alike, HostOK
<1>4. host.shown = [device \in Host!Observed |-> devices[device]]
  <2>1. \A device \in Host!Observed : host.shown[device] = devices[device]
    BY <1>1, <1>2 DEF Alike, SameOutputs, Queued
  <2> QED  BY <1>3, <2>1 DEF HostStates
<1>5. TracesAgree
  BY <1>2, <1>4 DEF TracesAgree, SimulatorTrace, HostTrace, Alike
<1>6. ASSUME NEW task \in Tasks
      PROVE  \/ {programCounter[task], host.counter[task]} \subseteq {NoProgress, 1}
             \/ programCounter[task] = host.counter[task]
  <2>1. SamePlace(host, task) /\ draining # task
    BY <1>2, TasksAssumption DEF Alike
  <2>2. RunMode[task] = "on_event" => programCounter[task] = NoProgress
    BY <1>1, <2>1, EventTaskRests
  <2> QED  BY <2>1, <2>2 DEF SamePlace
<1>7. SchedulesAgree
  BY <1>2, <1>6 DEF SchedulesAgree, Alike
<1> QED  BY <1>5, <1>7

\* The mirror is kept in every replay.
THEOREM BothStayAlike ==
  ASSUME RunsAlike
  PROVE  ReplaySpec => []MirrorInvariant
<1>1. ReplayInit => MirrorInvariant
  BY MirrorInvariantInit
<1>2. MirrorInvariant /\ [ReplayNext]_<<vars, host>> => MirrorInvariant'
  BY MirrorInvariantStep
<1> QED  BY <1>1, <1>2, PTL DEF ReplaySpec

\* docs/runtime-conformance.md: the same package and the same replay steps give
\* the same trace lines, whatever the program, as long as it keeps to RunsAlike.
THEOREM BothShowTheSame ==
  ASSUME RunsAlike
  PROVE  ReplaySpec => []TracesAgree
<1>1. MirrorInvariant => TracesAgree
  BY MirrorShowsItself
<1> QED  BY <1>1, BothStayAlike, PTL

\* Such a program is also scheduled alike: after every call each body has come as
\* far in both, the same tasks wait until the same time, and as much of every
\* interval has passed.
THEOREM BothGoOnAlike ==
  ASSUME RunsAlike
  PROVE  ReplaySpec => []SchedulesAgree
<1>1. MirrorInvariant => SchedulesAgree
  BY MirrorShowsItself
<1> QED  BY <1>1, BothStayAlike, PTL

==============================================================================
