------------------------- MODULE LifecycleHistoryProofs -------------------------
(***************************************************************************)
(* Theorems about LifecycleHistory, for every program: what a script sees  *)
(* of a state machine through its enter and exit hooks is at every moment  *)
(* a path from the root of the machine inwards, and between two calls the  *)
(* whole active path.  The invariant says how deep each machine is entered *)
(* in the middle of a transition.                                          *)
(***************************************************************************)
EXTENDS LifecycleHistory, SimulationRuntimeProofs

\* The enter tasks of the machine's initial states are still to come.
Unbooted(machine) ==
  phase = "boot" /\ \E i \in DOMAIN MachineOrder : i >= cursor /\ MachineOrder[i] = machine

\* How deep a machine in this leaf is entered, given the steps to come.
PlanDepth(steps, leaf, machine) ==
  IF steps = << >> \/ steps[1].path[1] # machine THEN Len(leaf)
  ELSE IF steps[1].hook = "enter" THEN Len(steps[1].path) - 1
  ELSE IF steps[1].hook = "exit" THEN Len(steps[1].path)
  ELSE CommonLength(leaf, steps[1].path)

Depth(machine) == IF Unbooted(machine) THEN 0 ELSE PlanDepth(plan, activeLeaf[machine], machine)

HistoryInvariant ==
  /\ plan # << >> => ~Unbooted(plan[1].path[1])
  /\ \A machine \in Machines : Depth(machine) \in 0..Len(activeLeaf[machine])
  /\ DOMAIN entered =
       UNION {{Ancestor(activeLeaf[machine], n) : n \in 1..Depth(machine)} : machine \in Machines}
  /\ \A path \in DOMAIN entered : entered[path] = entryTime[path]

------------------------------------------------------------------------------
\* How deep a machine is entered in the course of a transition

\* While states are entered, the outer ones have been.
LEMMA DepthWhileEntering ==
  ASSUME NEW machine, NEW leaf \in LeavesOf(machine), NEW steps \in Seq(PlanSteps),
         Len(steps) <= Len(leaf),
         \A i \in 1..Len(steps) :
           steps[i].hook = "enter" /\ steps[i].path = Ancestor(leaf, Len(leaf) - Len(steps) + i)
  PROVE  /\ PlanDepth(steps, leaf, machine) = Len(leaf) - Len(steps)
         /\ steps # << >> => steps[1].path[1] = machine
<1>1. Len(leaf) \in Nat /\ Len(steps) \in Nat /\ leaf \in Seq(STRING)
  BY LeafPath
<1>2. CASE steps = << >>
  BY <1>1, <1>2 DEF PlanDepth
<1>3. CASE steps # << >>
  <2>1. Len(steps) >= 1
    BY <1>3
  <2>2. PICK n \in 1..Len(leaf) : n = Len(leaf) - Len(steps) + 1
    BY <1>1, <2>1
  <2>3. steps[1].hook = "enter" /\ steps[1].path = Ancestor(leaf, n)
    BY <1>1, <2>1, <2>2
  <2>4. Len(Ancestor(leaf, n)) = n /\ Ancestor(leaf, n)[1] = machine
    BY <1>1, AncestorPath, LeafPath
  <2>5. PlanDepth(steps, leaf, machine) = n - 1
    BY <1>3, <2>3, <2>4 DEF PlanDepth
  <2> QED BY <1>1, <2>2, <2>3, <2>4, <2>5
<1> QED BY <1>2, <1>3

\* While states are left, the outer ones have not been.
LEMMA DepthWhileLeaving ==
  ASSUME NEW machine, NEW old \in LeavesOf(machine), NEW new \in LeavesOf(machine),
         NEW shared \in Nat, shared = CommonLength(old, new), NEW at \in Nat,
         NEW steps \in Seq(PlanSteps), shared + at - 1 <= Len(old),
         Leads(steps, old, new, shared, at)
  PROVE  /\ PlanDepth(steps, old, machine) = shared + at - 1
         /\ steps # << >> /\ steps[1].path[1] = machine
<1>1. Len(old) \in Nat /\ Len(steps) \in Nat /\ old \in Seq(STRING) /\ new[1] = machine
  BY LeafPath
<1>2. at \in 1..Len(steps) /\ steps # << >>
  BY <1>1 DEF Leads
<1>3. CASE at = 1
  <2>1. steps[1].hook = "switch" /\ steps[1].path = new
    BY <1>3 DEF Leads
  <2>2. PlanDepth(steps, old, machine) = shared
    BY <1>1, <1>2, <2>1 DEF PlanDepth
  <2> QED BY <1>1, <1>2, <1>3, <2>1, <2>2
<1>4. CASE at > 1
  <2>1. PICK n \in 1..Len(old) : n = shared + at - 1
    BY <1>1, <1>2, <1>4
  <2>2. steps[1].hook = "exit" /\ steps[1].path = Ancestor(old, n)
    BY <1>4, <2>1 DEF Leads
  <2>3. Len(Ancestor(old, n)) = n /\ Ancestor(old, n)[1] = machine
    BY <1>1, AncestorPath, LeafPath
  <2>4. PlanDepth(steps, old, machine) = n
    BY <1>2, <2>2, <2>3 DEF PlanDepth
  <2> QED BY <1>2, <2>1, <2>2, <2>3, <2>4
<1> QED BY <1>2, <1>3, <1>4

------------------------------------------------------------------------------
\* The invariant

\* Before the first enter task no script has entered a state.
LEMMA HistoryStart == HistoryInit => HistoryInvariant
<1> SUFFICES ASSUME HistoryInit PROVE HistoryInvariant
  OBVIOUS
<1>1. /\ phase = "boot" /\ cursor = 1 /\ plan = << >> /\ DOMAIN entered = {}
      /\ activeLeaf = InitialLeaf
  BY DEF HistoryInit, Init
<1>2. ASSUME NEW machine \in Machines
      PROVE  Depth(machine) = 0
  <2>1. PICK i \in 1..Len(MachineOrder) : MachineOrder[i] = machine
    BY DEF Machines
  <2>2. Unbooted(machine)
    BY <1>1, <2>1, MachinesAssumption DEF Unbooted
  <2> QED BY <2>2 DEF Depth
<1>3. \A machine \in Machines : Len(activeLeaf[machine]) \in Nat
  BY <1>1, ResolutionAssumption, LeafPath
<1> QED BY <1>1, <1>2, <1>3 DEF HistoryInvariant

\* A machine is booted by BootMachine only.
LEMMA BootingRests ==
  ASSUME IndInv, [Next]_vars, ~BootMachine, NEW machine
  PROVE  Unbooted(machine)' <=> Unbooted(machine)
<1> USE DEF taskVars, dataVars, machineVars, callVars, runVars
<1>1. CASE UNCHANGED <<phase, cursor>>
  BY <1>1 DEF Unbooted
<1>2. CASE phase # "boot" /\ phase' # "boot"
  BY <1>2 DEF Unbooted
<1>3. CASE NextPhase
  <2>1. phase' # "boot"
    BY <1>3 DEF NextPhase, Following
  <2>2. ~Unbooted(machine)
    <3>1. cursor \in Nat /\ Len(MachineOrder) \in Nat /\ DOMAIN MachineOrder = 1..Len(MachineOrder)
      BY MachinesAssumption DEF IndInv, TypeOK
    <3>2. phase = "boot" => cursor > Len(MachineOrder)
      BY <1>3 DEF NextPhase, LengthOf
    <3> QED BY <3>1, <3>2 DEF Unbooted
  <2> QED BY <2>1, <2>2 DEF Unbooted
<1>4. CASE \/ Drain \/ ChargeEveryTask \/ FireEveryTask \/ ChargeMachine \/ TickMachine
           \/ SwitchLeaf \/ DispatchHook \/ StartLifecycleTask \/ UNCHANGED vars
  BY <1>1, <1>4
  DEF Drain, ExecuteStatement, ExecuteWait, StopDrainedTask, FinishBody, ChargeEveryTask,
      FireEveryTask, ChargeMachine, TickMachine, SwitchLeaf, DispatchHook, StartLifecycleTask, vars
<1>5. CASE \/ ResumeWaitingTask \/ LeaveEveryTask \/ StartLoopTask \/ OfferEventToTask
           \/ LeaveMachine \/ FlushPendingEffects \/ External
  BY <1>2, <1>5
  DEF ResumeWaitingTask, LeaveEveryTask, StartLoopTask, OfferEventToTask, LeaveMachine,
      FlushPendingEffects, External, BeginTick, DispatchScriptEvent, StartTask, StopTask, SenseDevice
<1> QED BY <1>3, <1>4, <1>5 DEF Next, Internal

\* Only the two steps that take one from the plan leave it shorter.
LEMMA TailDiffers ==
  ASSUME NEW S, NEW s \in Seq(S), s # << >>
  PROVE  s # Tail(s)
<1>1. PICK n \in Nat : n = Len(s)
  OBVIOUS
<1>2. Len(Tail(s)) = n - 1
  BY <1>1
<1>3. n # n - 1
  OBVIOUS
<1> QED BY <1>1, <1>2, <1>3

\* A step that performs no hook and changes no depth keeps the picture.
LEMMA PictureStays ==
  ASSUME HistoryInvariant, entered' = entered,
         (plan # << >> => ~Unbooted(plan[1].path[1]))',
         \A machine \in Machines :
           /\ Depth(machine)' = Depth(machine)
           /\ Depth(machine) <= Len(activeLeaf'[machine])
           /\ \A n \in 1..Depth(machine) :
                Ancestor(activeLeaf'[machine], n) = Ancestor(activeLeaf[machine], n),
         \A path \in DOMAIN entered : entryTime'[path] = entryTime[path],
         \A machine \in Machines : Len(activeLeaf[machine]) \in Nat /\ Len(activeLeaf'[machine]) \in Nat
  PROVE  HistoryInvariant'
<1>1. \A machine \in Machines : Depth(machine)' \in 0..Len(activeLeaf'[machine])
  BY DEF HistoryInvariant
<1>2. DOMAIN entered' =
        UNION {{Ancestor(activeLeaf'[machine], n) : n \in 1..Depth(machine)'} : machine \in Machines}
  <2>1. \A machine \in Machines :
          {Ancestor(activeLeaf'[machine], n) : n \in 1..Depth(machine)'} =
          {Ancestor(activeLeaf[machine], n) : n \in 1..Depth(machine)}
    OBVIOUS
  <2> QED BY <2>1 DEF HistoryInvariant
<1>3. \A path \in DOMAIN entered' : entered'[path] = entryTime'[path]
  BY DEF HistoryInvariant
<1> HIDE DEF Depth
<1> QED BY <1>1, <1>2, <1>3 DEF HistoryInvariant

\* The leaves and the plan, as the runtime's invariants give them.
LEMMA RuntimeTypes ==
  ASSUME IndInv, TransitionInvariant
  PROVE  /\ \A machine \in Machines :
              activeLeaf[machine] \in LeavesOf(machine) /\ Len(activeLeaf[machine]) \in Nat
         /\ plan \in Seq(PlanSteps)
BY LeafPath DEF IndInv, TypeOK, TransitionInvariant

\* One hook is performed: the state it is for is the next one inwards, or the
\* innermost one, of those entered in its machine.
LEMMA OneHook ==
  ASSUME IndInv, TransitionInvariant, HistoryInvariant, DispatchHook
  PROVE  \E machine \in Machines : \E n \in 1..Len(activeLeaf[machine]) :
           /\ plan[1].path = Ancestor(activeLeaf[machine], n)
           /\ IF plan[1].hook = "enter"
                THEN Depth(machine) = n - 1 /\ Depth(machine)' = n /\ entryTime[plan[1].path] = total
                ELSE Depth(machine) = n /\ Depth(machine)' = n - 1
           /\ \A other \in Machines \ {machine} : Depth(other)' = Depth(other)
           /\ (plan # << >> => ~Unbooted(plan[1].path[1]))'
<1> USE DEF taskVars, dataVars, machineVars, callVars, runVars
<1>1. /\ plan # << >> /\ plan' = Tail(plan) /\ plan[1].hook # "switch"
      /\ UNCHANGED <<activeLeaf, entryTime, total>>
  BY DEF DispatchHook
<1>2. /\ \A machine \in Machines :
           activeLeaf[machine] \in LeavesOf(machine) /\ Len(activeLeaf[machine]) \in Nat
      /\ plan \in Seq(PlanSteps)
  BY RuntimeTypes
<1>3. plan' \in Seq(PlanSteps) /\ Len(plan) \in Nat \ {0} /\ Len(plan') = Len(plan) - 1
  <2>1. Tail(plan) \in Seq(PlanSteps)
    BY <1>1, <1>2
  <2> QED BY <1>1, <2>1, Remainder DEF IndInv
<1>4. \A machine : Unbooted(machine)' <=> Unbooted(machine)
  BY BootingRests DEF Next, Internal, DispatchHook, BootMachine, AtMachine, Quiet
<1>5. ASSUME NEW machine \in Machines, plan[1].path[1] = machine,
             plan' = << >> \/ plan'[1].path[1] = machine
      PROVE  /\ \A other \in Machines \ {machine} : Depth(other)' = Depth(other)
             /\ (plan # << >> => ~Unbooted(plan[1].path[1]))'
             /\ Depth(machine) = PlanDepth(plan, activeLeaf[machine], machine)
             /\ Depth(machine)' = PlanDepth(plan', activeLeaf[machine], machine)
  <2>1. ~Unbooted(machine) /\ ~Unbooted(machine)'
    BY <1>1, <1>4, <1>5 DEF HistoryInvariant
  <2>2. ASSUME NEW other \in Machines \ {machine}
        PROVE  Depth(other)' = Depth(other)
    <3>1. PlanDepth(plan, activeLeaf[other], other) = Len(activeLeaf[other])
      BY <1>5 DEF PlanDepth
    <3>2. PlanDepth(plan', activeLeaf[other], other) = Len(activeLeaf[other])
      BY <1>5 DEF PlanDepth
    <3> QED BY <1>1, <1>4, <3>1, <3>2 DEF Depth
  <2>3. (plan # << >> => ~Unbooted(plan[1].path[1]))'
    <3>1. plan' # << >> => plan'[1].path[1] = machine
      BY <1>5
    <3> QED BY <2>1, <3>1
  <2>4. /\ Depth(machine) = PlanDepth(plan, activeLeaf[machine], machine)
        /\ Depth(machine)' = PlanDepth(plan', activeLeaf[machine], machine)
    BY <1>1, <2>1 DEF Depth
  <2> QED BY <2>2, <2>3, <2>4
<1>6. ASSUME NEW machine \in Machines, Enters(machine)
      PROVE  \E n \in 1..Len(activeLeaf[machine]) :
               /\ plan[1].path = Ancestor(activeLeaf[machine], n)
               /\ plan[1].hook = "enter" /\ entryTime[plan[1].path] = total
               /\ Depth(machine) = n - 1 /\ Depth(machine)' = n
               /\ \A other \in Machines \ {machine} : Depth(other)' = Depth(other)
               /\ (plan # << >> => ~Unbooted(plan[1].path[1]))'
  <2>1. PICK leaf \in LeavesOf(machine) : leaf = activeLeaf[machine]
    BY <1>2
  <2>2. Len(leaf) \in Nat
    BY LeafPath
  <2>3. Enters(machine)' /\ plan[1].hook = "enter" /\ entryTime[plan[1].path] = total
    BY <1>1, <1>6, NextEntered
  <2>4. /\ Len(plan) <= Len(leaf)
        /\ \A i \in 1..Len(plan) :
             plan[i].hook = "enter" /\ plan[i].path = Ancestor(leaf, Len(leaf) - Len(plan) + i)
    BY <1>6, <2>1 DEF Enters
  <2>5. /\ Len(plan') <= Len(leaf)
        /\ \A i \in 1..Len(plan') :
             plan'[i].hook = "enter" /\ plan'[i].path = Ancestor(leaf, Len(leaf) - Len(plan') + i)
    BY <1>1, <2>1, <2>3 DEF Enters
  <2>6. PlanDepth(plan, leaf, machine) = Len(leaf) - Len(plan) /\ plan[1].path[1] = machine
    BY <1>1, <1>2, <2>4, DepthWhileEntering
  <2>7. /\ PlanDepth(plan', leaf, machine) = Len(leaf) - Len(plan')
        /\ plan' # << >> => plan'[1].path[1] = machine
    BY <1>3, <2>5, DepthWhileEntering
  <2>8. PICK n \in 1..Len(leaf) : n = Len(leaf) - Len(plan) + 1
    BY <1>3, <2>2, <2>4
  <2>9. plan[1].path = Ancestor(leaf, n)
    BY <1>3, <2>4, <2>8
  <2>10. Depth(machine) = n - 1 /\ Depth(machine)' = n
    BY <1>3, <1>5, <2>1, <2>2, <2>6, <2>7, <2>8
  <2>11. /\ \A other \in Machines \ {machine} : Depth(other)' = Depth(other)
         /\ (plan # << >> => ~Unbooted(plan[1].path[1]))'
    BY <1>5, <2>6, <2>7
  <2> QED BY <2>1, <2>3, <2>9, <2>10, <2>11
<1>7. ASSUME NEW machine \in Machines, NEW new \in Leaves, NEW at \in Nat, Switches(machine, new, at)
      PROVE  \E n \in 1..Len(activeLeaf[machine]) :
               /\ plan[1].path = Ancestor(activeLeaf[machine], n)
               /\ plan[1].hook = "exit"
               /\ Depth(machine) = n /\ Depth(machine)' = n - 1
               /\ \A other \in Machines \ {machine} : Depth(other)' = Depth(other)
               /\ (plan # << >> => ~Unbooted(plan[1].path[1]))'
  <2>1. PICK old \in LeavesOf(machine) : old = activeLeaf[machine]
    BY <1>2
  <2>2. new \in LeavesOf(machine)
    BY <1>7 DEF Switches
  <2>3. PICK shared \in 0..Len(old) : shared = CommonLength(old, new)
    BY <2>1, <2>2, LeafPath, CommonLengthBounds
  <2>4. Len(old) \in Nat
    BY LeafPath
  <2>5. at - 1 \in Nat /\ Switches(machine, new, at - 1)' /\ plan[1].hook = "exit"
    BY <1>1, <1>7, NextLeft
  <2>6. PICK less \in Nat : less = at - 1
    BY <2>5
  <2>7. shared + at - 1 <= Len(old) /\ Leads(plan, old, new, shared, at)
    BY <1>7, <2>1, <2>3 DEF Switches
  <2>8. shared + less - 1 <= Len(old) /\ Leads(plan', old, new, shared, less)
    <3>1. Switches(machine, new, less)' /\ activeLeaf'[machine] = old
      BY <1>1, <2>1, <2>5, <2>6
    <3> QED BY <2>3, <3>1 DEF Switches, Leads
  <2>9. PlanDepth(plan, old, machine) = shared + at - 1 /\ plan[1].path[1] = machine
    BY <1>2, <2>2, <2>3, <2>7, DepthWhileLeaving
  <2>10. PlanDepth(plan', old, machine) = shared + less - 1 /\ plan'[1].path[1] = machine
    BY <1>3, <2>2, <2>3, <2>8, DepthWhileLeaving
  <2>11. less >= 1
    BY <2>8 DEF Leads
  <2>12. PICK n \in 1..Len(old) : n = shared + at - 1
    BY <2>3, <2>4, <2>6, <2>7, <2>11
  <2>13. plan[1].path = Ancestor(old, n)
    BY <2>6, <2>7, <2>11, <2>12 DEF Leads
  <2>14. Depth(machine) = n /\ Depth(machine)' = n - 1
    BY <1>5, <2>1, <2>3, <2>6, <2>9, <2>10, <2>12
  <2>15. /\ \A other \in Machines \ {machine} : Depth(other)' = Depth(other)
         /\ (plan # << >> => ~Unbooted(plan[1].path[1]))'
    BY <1>5, <2>9, <2>10
  <2> QED BY <2>1, <2>5, <2>13, <2>14, <2>15
<1>8. CASE \E machine \in Machines : Enters(machine)
  BY <1>6, <1>8
<1>9. CASE \E machine \in Machines : \E new \in Leaves : \E at \in Nat : Switches(machine, new, at)
  <2>1. PICK machine \in Machines, new \in Leaves, at \in Nat : Switches(machine, new, at)
    BY <1>9
  <2>2. PICK n \in 1..Len(activeLeaf[machine]) :
               /\ plan[1].path = Ancestor(activeLeaf[machine], n)
               /\ plan[1].hook = "exit"
               /\ Depth(machine) = n /\ Depth(machine)' = n - 1
               /\ \A other \in Machines \ {machine} : Depth(other)' = Depth(other)
               /\ (plan # << >> => ~Unbooted(plan[1].path[1]))'
    BY <1>7, <2>1
  <2> QED BY <2>2
<1> QED BY <1>1, <1>8, <1>9 DEF TransitionInvariant, PlanInvariant

\* Where no hook is performed and no leaf changes.
LEMMA HistoryRests ==
  ASSUME IndInv, TransitionInvariant, HistoryInvariant, entered' = entered,
         UNCHANGED <<plan, activeLeaf, entryTime>>,
         \A machine : Unbooted(machine)' <=> Unbooted(machine)
  PROVE  HistoryInvariant'
<1>1. \A machine \in Machines : Depth(machine)' = Depth(machine)
  BY DEF Depth
<1>2. (plan # << >> => ~Unbooted(plan[1].path[1]))'
  BY DEF HistoryInvariant
<1>3. \A machine \in Machines : Depth(machine) <= Len(activeLeaf[machine]) /\ Len(activeLeaf[machine]) \in Nat
  BY RuntimeTypes DEF HistoryInvariant
<1> QED BY <1>1, <1>2, <1>3, PictureStays

\* A planned transition has left and entered nothing yet.
LEMMA HistoryTick ==
  ASSUME IndInv, TransitionInvariant, HistoryInvariant, TickMachine, entered' = entered
  PROVE  HistoryInvariant'
<1> USE DEF taskVars, dataVars, machineVars, callVars, runVars
<1>1. UNCHANGED <<activeLeaf, entryTime>> /\ plan = << >> /\ phase = "machines" /\ phase' = phase
  BY DEF TickMachine, AtMachine, Quiet
<1>2. \A machine : ~Unbooted(machine) /\ ~Unbooted(machine)'
  BY <1>1 DEF Unbooted
<1>3. ASSUME NEW machine \in Machines
      PROVE  Depth(machine)' = Depth(machine)
  <2>1. Depth(machine) = Len(activeLeaf[machine])
    BY <1>1, <1>2 DEF Depth, PlanDepth
  <2>2. Depth(machine)' = PlanDepth(plan', activeLeaf[machine], machine)
    BY <1>1, <1>2 DEF Depth
  <2>3. PlanDepth(plan', activeLeaf[machine], machine) = Len(activeLeaf[machine])
    <3>1. CASE plan' = << >>
      BY <3>1 DEF PlanDepth
    <3>2. ASSUME NEW m \in Machines, NEW old \in LeavesOf(m), NEW new \in LeavesOf(m), NEW at \in Nat,
                 old = activeLeaf[m], Switches(m, new, at)',
                 at = Len(old) - CommonLength(old, new) + 1
          PROVE  PlanDepth(plan', activeLeaf[machine], machine) = Len(activeLeaf[machine])
      <4>1. PICK shared \in 0..Len(old) : shared = CommonLength(old, new)
        BY LeafPath, CommonLengthBounds
      <4>2. Len(old) \in Nat
        BY LeafPath
      <4>3. Leads(plan', old, new, shared, at) /\ shared + at - 1 = Len(old)
        <5>1. activeLeaf'[m] = old
          BY <1>1, <3>2
        <5> QED BY <3>2, <4>1, <4>2, <5>1 DEF Switches, Leads
      <4>4. plan' \in Seq(PlanSteps)
        BY NextInvariant DEF Next, Internal, IndInv, TypeOK
      <4>5. PlanDepth(plan', old, m) = Len(old) /\ plan'[1].path[1] = m
        BY <4>1, <4>2, <4>3, <4>4, DepthWhileLeaving
      <4>6. CASE m = machine
        BY <3>2, <4>5, <4>6
      <4>7. CASE m # machine
        BY <4>5, <4>7 DEF PlanDepth
      <4> QED BY <4>6, <4>7
    <3> QED BY <3>1, <3>2, TickPlans
  <2> QED BY <2>1, <2>2, <2>3
<1>4. (plan # << >> => ~Unbooted(plan[1].path[1]))'
  <2>1. plan' # << >> => ~Unbooted(plan'[1].path[1])
    BY <1>2
  <2>2. phase' # "boot"
    BY <1>1
  <2> QED BY <2>2 DEF Unbooted
<1>5. \A machine \in Machines : Depth(machine) <= Len(activeLeaf[machine]) /\ Len(activeLeaf[machine]) \in Nat
  BY RuntimeTypes DEF HistoryInvariant
<1> QED BY <1>1, <1>3, <1>4, <1>5, PictureStays

\* At a switch only the shared states of the machine are entered, and they are
\* states of both leaves.
LEMMA HistorySwitch ==
  ASSUME IndInv, TransitionInvariant, HistoryInvariant, SwitchLeaf, entered' = entered
  PROVE  HistoryInvariant'
<1> USE DEF taskVars, dataVars, machineVars, callVars, runVars
<1>1. PICK machine \in Machines : \E old, new : \E shared \in Nat : LeafSwitches(machine, old, new, shared)
  BY SwitchLeafSwitches
<1>2. PICK old, new : \E shared \in Nat : LeafSwitches(machine, old, new, shared)
  BY <1>1
<1>3. PICK shared \in Nat : LeafSwitches(machine, old, new, shared)
  BY <1>2
<1>4. /\ old \in LeavesOf(machine) /\ new \in LeavesOf(machine) /\ old = activeLeaf[machine]
      /\ shared = CommonLength(old, new) /\ Len(plan') = Len(new) - shared
      /\ \A i \in 1..Len(plan') :
           plan'[i].hook = "enter" /\ plan'[i].path = Ancestor(new, shared + i)
  BY <1>3 DEF LeafSwitches
<1>5. /\ shared <= Len(old) /\ shared <= Len(new) /\ activeLeaf'[machine] = new
      /\ \A n \in 1..shared : /\ Ancestor(new, n) = Ancestor(old, n)
                              /\ entryTime'[Ancestor(new, n)] = entryTime[Ancestor(old, n)]
      /\ \A other \in Machines \ {machine} :
           /\ activeLeaf'[other] = activeLeaf[other]
           /\ \A n \in 1..Len(activeLeaf[other]) :
                entryTime'[Ancestor(activeLeaf[other], n)] = entryTime[Ancestor(activeLeaf[other], n)]
  BY <1>3, ClocksAfterSwitch
<1>6. Len(old) \in Nat /\ Len(new) \in Nat
  BY <1>4, LeafPath
<1>7. plan # << >> /\ plan[1].hook = "switch" /\ UNCHANGED <<phase, cursor>>
  BY DEF SwitchLeaf
<1>8. \A m : Unbooted(m)' <=> Unbooted(m)
  BY <1>7 DEF Unbooted
<1>9. plan' \in Seq(PlanSteps)
  BY NextInvariant DEF Next, Internal, IndInv, TypeOK
<1>10. /\ PlanDepth(plan', new, machine) = shared
       /\ plan' # << >> => plan'[1].path[1] = machine
  <2>1. \A i \in 1..Len(plan') : Len(new) - Len(plan') + i = shared + i
    BY <1>4, <1>5, <1>6
  <2>2. Len(plan') <= Len(new) /\ Len(new) - Len(plan') = shared
    BY <1>4, <1>5, <1>6
  <2>3. \A i \in 1..Len(plan') :
          plan'[i].hook = "enter" /\ plan'[i].path = Ancestor(new, Len(new) - Len(plan') + i)
    BY <1>4, <2>1
  <2>4. /\ PlanDepth(plan', new, machine) = Len(new) - Len(plan')
        /\ plan' # << >> => plan'[1].path[1] = machine
    BY <1>4, <1>9, <2>2, <2>3, DepthWhileEntering
  <2> QED BY <2>2, <2>4
<1>11. plan[1].path = new
  BY <1>3 DEF LeafSwitches
<1>12. plan[1].path[1] = machine
  BY <1>4, <1>11 DEF LeavesOf
<1>13. ~Unbooted(machine) /\ ~Unbooted(machine)'
  BY <1>7, <1>8, <1>12 DEF HistoryInvariant
<1>14. Depth(machine) = shared /\ Depth(machine)' = shared
  <2>1. PlanDepth(plan, old, machine) = shared
    BY <1>4, <1>7, <1>11, <1>12 DEF PlanDepth
  <2> QED BY <1>4, <1>5, <1>10, <1>13, <2>1 DEF Depth
<1>15. ASSUME NEW other \in Machines \ {machine}
       PROVE  Depth(other)' = Depth(other)
  <2>1. PlanDepth(plan, activeLeaf[other], other) = Len(activeLeaf[other])
    BY <1>12 DEF PlanDepth
  <2>2. PlanDepth(plan', activeLeaf[other], other) = Len(activeLeaf[other])
    BY <1>10 DEF PlanDepth
  <2> QED BY <1>5, <1>8, <2>1, <2>2 DEF Depth
<1>16. (plan # << >> => ~Unbooted(plan[1].path[1]))'
  <2>1. plan' # << >> => plan'[1].path[1] = machine
    BY <1>10
  <2> QED BY <1>13, <2>1
<1>17. \A m \in Machines : /\ Depth(m) \in 0..Len(activeLeaf[m])
                          /\ Len(activeLeaf[m]) \in Nat /\ Len(activeLeaf'[m]) \in Nat
  BY <1>5, <1>6, RuntimeTypes DEF HistoryInvariant
<1>18. ASSUME NEW m \in Machines
       PROVE  /\ Depth(m)' = Depth(m) /\ Depth(m) <= Len(activeLeaf'[m])
              /\ \A n \in 1..Depth(m) : Ancestor(activeLeaf'[m], n) = Ancestor(activeLeaf[m], n)
              /\ \A n \in 1..Depth(m) :
                   entryTime'[Ancestor(activeLeaf[m], n)] = entryTime[Ancestor(activeLeaf[m], n)]
  <2>1. CASE m = machine
    BY <1>4, <1>5, <1>14, <2>1
  <2>2. CASE m # machine
    <3>1. 1..Depth(m) \subseteq 1..Len(activeLeaf[m]) /\ Depth(m) <= Len(activeLeaf[m])
      BY <1>17
    <3> HIDE DEF Depth
    <3> QED BY <1>5, <1>15, <2>2, <3>1
  <2> QED BY <2>1, <2>2
<1>19. \A path \in DOMAIN entered : entryTime'[path] = entryTime[path]
  BY <1>18 DEF HistoryInvariant
<1> HIDE DEF Depth
<1> QED BY <1>16, <1>17, <1>18, <1>19, PictureStays

\* The states of two machines, or of two depths, differ.
LEMMA StatesDiffer ==
  ASSUME TransitionInvariant, NEW m \in Machines, NEW o \in Machines,
         NEW n \in 1..Len(activeLeaf[m]), NEW k \in 1..Len(activeLeaf[o]),
         Ancestor(activeLeaf[m], n) = Ancestor(activeLeaf[o], k)
  PROVE  m = o /\ n = k
<1>1. PICK left \in LeavesOf(m) : left = activeLeaf[m]
  BY DEF TransitionInvariant
<1>2. PICK right \in LeavesOf(o) : right = activeLeaf[o]
  BY DEF TransitionInvariant
<1>3. Ancestor(left, n)[1] = m /\ Ancestor(right, k)[1] = o /\ left \in Seq(STRING) /\ right \in Seq(STRING)
  BY <1>1, <1>2, LeafPath
<1>4. Len(Ancestor(left, n)) = n /\ Len(Ancestor(right, k)) = k
  BY <1>1, <1>2, <1>3, AncestorPath
<1> QED BY <1>1, <1>2, <1>3, <1>4

\* A state that is entered was not, and one that is left was.
LEMMA HooksFindTheState ==
  ASSUME IndInv, TransitionInvariant, HistoryInvariant, DispatchHook
  PROVE  /\ plan[1].hook = "enter" => plan[1].path \notin DOMAIN entered
         /\ plan[1].hook = "exit" => plan[1].path \in DOMAIN entered
<1>1. PICK machine \in Machines : \E n \in 1..Len(activeLeaf[machine]) :
           /\ plan[1].path = Ancestor(activeLeaf[machine], n)
           /\ IF plan[1].hook = "enter" THEN Depth(machine) = n - 1 ELSE Depth(machine) = n
  BY OneHook
<1>2. PICK n \in 1..Len(activeLeaf[machine]) :
           /\ plan[1].path = Ancestor(activeLeaf[machine], n)
           /\ IF plan[1].hook = "enter" THEN Depth(machine) = n - 1 ELSE Depth(machine) = n
  BY <1>1
<1>3. \A m \in Machines : Depth(m) \in 0..Len(activeLeaf[m]) /\ Len(activeLeaf[m]) \in Nat
  BY RuntimeTypes DEF HistoryInvariant
<1>4. DOMAIN entered = UNION {{Ancestor(activeLeaf[m], k) : k \in 1..Depth(m)} : m \in Machines}
  BY DEF HistoryInvariant
<1> HIDE DEF Depth
<1>5. ASSUME plan[1].hook = "enter", plan[1].path \in DOMAIN entered
      PROVE  FALSE
  <2>1. PICK m \in Machines : \E k \in 1..Depth(m) : plan[1].path = Ancestor(activeLeaf[m], k)
    BY <1>4, <1>5
  <2>2. PICK k \in 1..Depth(m) : plan[1].path = Ancestor(activeLeaf[m], k)
    BY <2>1
  <2>3. k \in 1..Len(activeLeaf[m])
    BY <1>3
  <2>4. m = machine /\ n = k
    BY <1>2, <2>2, <2>3, StatesDiffer
  <2> QED BY <1>2, <1>3, <1>5, <2>4
<1>6. ASSUME plan[1].hook = "exit"
      PROVE  plan[1].path \in DOMAIN entered
  <2>1. n \in 1..Depth(machine)
    BY <1>2, <1>3, <1>6
  <2> QED BY <1>2, <1>4, <2>1
<1> QED BY <1>5, <1>6

\* The picture follows the hook that is performed.
LEMMA HistoryHook ==
  ASSUME IndInv, TransitionInvariant, HistoryInvariant, DispatchHook, Record
  PROVE  HistoryInvariant'
<1> USE DEF taskVars, dataVars, machineVars, callVars, runVars
<1> DEFINE path == plan[1].path
<1>1. PICK machine \in Machines : \E n \in 1..Len(activeLeaf[machine]) :
           /\ path = Ancestor(activeLeaf[machine], n)
           /\ IF plan[1].hook = "enter"
                THEN Depth(machine) = n - 1 /\ Depth(machine)' = n /\ entryTime[path] = total
                ELSE Depth(machine) = n /\ Depth(machine)' = n - 1
           /\ \A other \in Machines \ {machine} : Depth(other)' = Depth(other)
           /\ (plan # << >> => ~Unbooted(plan[1].path[1]))'
  BY OneHook
<1>2. PICK n \in 1..Len(activeLeaf[machine]) :
           /\ path = Ancestor(activeLeaf[machine], n)
           /\ IF plan[1].hook = "enter"
                THEN Depth(machine) = n - 1 /\ Depth(machine)' = n /\ entryTime[path] = total
                ELSE Depth(machine) = n /\ Depth(machine)' = n - 1
           /\ \A other \in Machines \ {machine} : Depth(other)' = Depth(other)
           /\ (plan # << >> => ~Unbooted(plan[1].path[1]))'
  BY <1>1
<1>3. UNCHANGED <<activeLeaf, entryTime>> /\ plan # << >> /\ plan' = Tail(plan) /\ plan[1].hook \in {"enter", "exit"}
  BY DEF DispatchHook
<1>4. \A m \in Machines : Depth(m) \in 0..Len(activeLeaf[m]) /\ Len(activeLeaf[m]) \in Nat
  BY RuntimeTypes DEF HistoryInvariant
<1>5. /\ DOMAIN entered = UNION {{Ancestor(activeLeaf[m], k) : k \in 1..Depth(m)} : m \in Machines}
      /\ \A p \in DOMAIN entered : entered[p] = entryTime[p]
  BY DEF HistoryInvariant
<1> HIDE DEF Depth, path
<1>6. \A m \in Machines : Depth(m)' \in 0..Len(activeLeaf'[m])
  BY <1>2, <1>3, <1>4
<1>7. ASSUME plan[1].hook = "enter"
      PROVE  /\ DOMAIN entered' = UNION {{Ancestor(activeLeaf[m], k) : k \in 1..Depth(m)'} : m \in Machines}
             /\ \A p \in DOMAIN entered' : entered'[p] = entryTime'[p]
  <2>1. entered' = [p \in DOMAIN entered \cup {path} |-> IF p = path THEN total ELSE entered[p]]
    BY <1>3, <1>7 DEF Record, PerformedHook, path
  <2>2. Depth(machine) = n - 1 /\ Depth(machine)' = n /\ entryTime[path] = total
    BY <1>2, <1>7
  <2>3. DOMAIN entered' = DOMAIN entered \cup {path}
    BY <2>1
  <2>4. ASSUME NEW m \in Machines
        PROVE  {Ancestor(activeLeaf[m], k) : k \in 1..Depth(m)'} =
                 {Ancestor(activeLeaf[m], k) : k \in 1..Depth(m)} \cup (IF m = machine THEN {path} ELSE {})
    <3>1. CASE m = machine
      <4>1. 1..n = 1..(n - 1) \cup {n}
        OBVIOUS
      <4> QED BY <1>2, <2>2, <3>1, <4>1
    <3>2. CASE m # machine
      BY <1>2, <3>2
    <3> QED BY <3>1, <3>2
  <2>5. DOMAIN entered' = UNION {{Ancestor(activeLeaf[m], k) : k \in 1..Depth(m)'} : m \in Machines}
    <3> DEFINE Was(m) == {Ancestor(activeLeaf[m], k) : k \in 1..Depth(m)}
               Is(m) == {Ancestor(activeLeaf[m], k) : k \in 1..Depth(m)'}
    <3>1. \A m \in Machines : Is(m) = Was(m) \cup (IF m = machine THEN {path} ELSE {})
      BY <2>4
    <3>2. DOMAIN entered' = (UNION {Was(m) : m \in Machines}) \cup {path}
      BY <1>5, <2>3
    <3> HIDE DEF Was, Is
    <3>3. DOMAIN entered' = UNION {Is(m) : m \in Machines}
      BY <3>1, <3>2
    <3> QED BY <3>3 DEF Is
  <2>6. \A p \in DOMAIN entered' : entered'[p] = entryTime'[p]
    BY <1>3, <1>5, <2>1, <2>2
  <2> QED BY <2>5, <2>6
<1>8. ASSUME plan[1].hook = "exit"
      PROVE  /\ DOMAIN entered' = UNION {{Ancestor(activeLeaf[m], k) : k \in 1..Depth(m)'} : m \in Machines}
             /\ \A p \in DOMAIN entered' : entered'[p] = entryTime'[p]
  <2>1. entered' = [p \in DOMAIN entered \ {path} |-> entered[p]]
    BY <1>3, <1>8 DEF Record, PerformedHook, path
  <2>2. Depth(machine) = n /\ Depth(machine)' = n - 1
    BY <1>2, <1>8
  <2>3. DOMAIN entered' = DOMAIN entered \ {path}
    BY <2>1
  <2>4. ASSUME NEW m \in Machines
        PROVE  {Ancestor(activeLeaf[m], k) : k \in 1..Depth(m)'} =
                 {Ancestor(activeLeaf[m], k) : k \in 1..Depth(m)} \ {path}
    <3>1. \A k \in 1..Depth(m) : Ancestor(activeLeaf[m], k) = path => m = machine /\ k = n
      <4>1. \A k \in 1..Depth(m) : k \in 1..Len(activeLeaf[m])
        BY <1>4
      <4> QED BY <1>2, <4>1, StatesDiffer
    <3>2. CASE m = machine
      <4>1. 1..(n - 1) = 1..n \ {n}
        OBVIOUS
      <4> QED BY <1>2, <2>2, <3>1, <3>2, <4>1
    <3>3. CASE m # machine
      BY <1>2, <3>1, <3>3
    <3> QED BY <3>2, <3>3
  <2>5. DOMAIN entered' = UNION {{Ancestor(activeLeaf[m], k) : k \in 1..Depth(m)'} : m \in Machines}
    <3> DEFINE Was(m) == {Ancestor(activeLeaf[m], k) : k \in 1..Depth(m)}
               Is(m) == {Ancestor(activeLeaf[m], k) : k \in 1..Depth(m)'}
    <3>1. \A m \in Machines : Is(m) = Was(m) \ {path}
      BY <2>4
    <3>2. DOMAIN entered' = (UNION {Was(m) : m \in Machines}) \ {path}
      BY <1>5, <2>3
    <3> HIDE DEF Was, Is
    <3>3. DOMAIN entered' = UNION {Is(m) : m \in Machines}
      BY <3>1, <3>2
    <3> QED BY <3>3 DEF Is
  <2>6. \A p \in DOMAIN entered' : entered'[p] = entryTime'[p]
    BY <1>3, <1>5, <2>1
  <2> QED BY <2>5, <2>6
<1>9. /\ DOMAIN entered' = UNION {{Ancestor(activeLeaf'[m], k) : k \in 1..Depth(m)'} : m \in Machines}
      /\ \A p \in DOMAIN entered' : entered'[p] = entryTime'[p]
  BY <1>3, <1>7, <1>8
<1> QED BY <1>2, <1>6, <1>9 DEF HistoryInvariant

\* A machine that is booted starts with none of its states entered.
LEMMA HistoryBoot ==
  ASSUME IndInv, TransitionInvariant, HistoryInvariant, BootMachine, entered' = entered
  PROVE  HistoryInvariant'
<1> USE DEF taskVars, dataVars, machineVars, callVars, runVars
<1>1. /\ UNCHANGED <<activeLeaf, entryTime, phase>> /\ phase = "boot" /\ plan = << >>
      /\ cursor' = cursor + 1 /\ cursor \in DOMAIN MachineOrder
      /\ MachineOrder \in Seq(Machines) /\ Distinct(MachineOrder)
  BY MachinesAssumption DEF BootMachine, AtMachine, Quiet, IndInv, TypeOK
<1>2. PICK machine \in Machines : machine = MachineOrder[cursor]
  BY <1>1
<1>3. PICK leaf \in LeavesOf(machine) : leaf = activeLeaf[machine]
  BY DEF TransitionInvariant
<1>4. Len(leaf) \in Nat \ {0} /\ leaf \in Seq(STRING)
  BY LeafPath
<1>5. plan' = [i \in 1..Len(leaf) |-> [hook |-> "enter", path |-> Ancestor(leaf, i)]]
  <2>1. plan' = Hooks("enter", EnumeratePrefixes(leaf))
    BY <1>2, <1>3 DEF BootMachine, Machine
  <2> QED BY <1>4, <2>1 DEF Hooks, EnumeratePrefixes
<1>6. plan' \in Seq(PlanSteps)
  BY NextInvariant DEF Next, Internal, IndInv, TypeOK
<1>7. /\ PlanDepth(plan', leaf, machine) = 0
      /\ plan' # << >> /\ plan'[1].path[1] = machine
  <2>1. Len(plan') = Len(leaf)
    BY <1>4, <1>5
  <2>2. \A i \in 1..Len(plan') :
          plan'[i].hook = "enter" /\ plan'[i].path = Ancestor(leaf, Len(leaf) - Len(plan') + i)
    <3>1. \A i \in 1..Len(plan') : Len(leaf) - Len(plan') + i = i
      BY <1>4, <2>1
    <3> QED BY <1>5, <2>1, <3>1
  <2>3. plan' # << >>
    BY <1>4, <2>1
  <2>4. PlanDepth(plan', leaf, machine) = Len(leaf) - Len(plan') /\ plan'[1].path[1] = machine
    BY <1>4, <1>6, <2>1, <2>2, <2>3, DepthWhileEntering
  <2> QED BY <1>4, <2>1, <2>3, <2>4
<1>8. Unbooted(machine) /\ ~Unbooted(machine)'
  <2>1. Unbooted(machine)
    BY <1>1, <1>2 DEF Unbooted
  <2>2. \A i \in DOMAIN MachineOrder : MachineOrder[i] = machine => i = cursor
    BY <1>1, <1>2 DEF Distinct
  <2>3. ~Unbooted(machine)'
    BY <1>1, <2>2 DEF Unbooted
  <2> QED BY <2>1, <2>3
<1>9. ASSUME NEW other \in Machines \ {machine}
      PROVE  Unbooted(other)' <=> Unbooted(other)
  <2>1. \A i \in DOMAIN MachineOrder : MachineOrder[i] = other => (i >= cursor <=> i >= cursor + 1)
    <3>1. DOMAIN MachineOrder = 1..Len(MachineOrder)
      BY <1>1
    <3> QED BY <1>1, <1>2, <3>1
  <2> QED BY <1>1, <2>1 DEF Unbooted
<1>10. ASSUME NEW m \in Machines
       PROVE  Depth(m)' = Depth(m)
  <2>1. CASE m = machine
    BY <1>1, <1>3, <1>7, <1>8, <2>1 DEF Depth
  <2>2. CASE m # machine
    <3>1. /\ PlanDepth(plan, activeLeaf[m], m) = Len(activeLeaf[m])
          /\ PlanDepth(plan', activeLeaf[m], m) = Len(activeLeaf[m])
      BY <1>1, <1>7, <2>2 DEF PlanDepth
    <3> QED BY <1>1, <1>9, <2>2, <3>1 DEF Depth
  <2> QED BY <2>1, <2>2
<1>11. (plan # << >> => ~Unbooted(plan[1].path[1]))'
  BY <1>7, <1>8
<1>12. \A m \in Machines : Depth(m) <= Len(activeLeaf[m]) /\ Len(activeLeaf[m]) \in Nat
  BY RuntimeTypes DEF HistoryInvariant
<1> QED BY <1>1, <1>10, <1>11, <1>12, PictureStays

\* A step that performs no hook leaves the history as it is.
LEMMA NoHook ==
  ASSUME IndInv, Record, plan = << >> \/ plan' = plan \/ plan[1].hook = "switch"
  PROVE  entered' = entered
<1>1. plan' = plan /\ plan # << >> => plan' # Tail(plan)
  BY TailDiffers DEF IndInv, TypeOK
<1> QED BY <1>1 DEF Record, PerformedHook

\* Every step keeps the invariant.
LEMMA HistoryStep ==
  IndInv /\ TransitionInvariant /\ HistoryInvariant /\ [HistoryNext]_<<vars, entered>>
    => HistoryInvariant'
<1> SUFFICES ASSUME IndInv, TransitionInvariant, HistoryInvariant, [HistoryNext]_<<vars, entered>>
             PROVE  HistoryInvariant'
  OBVIOUS
<1> USE DEF taskVars, dataVars, machineVars, callVars, runVars
<1>1. (Next /\ Record) \/ (UNCHANGED vars /\ entered' = entered)
  BY DEF HistoryNext
<1>2. CASE TickMachine /\ Record
  BY <1>2, NoHook, HistoryTick DEF TickMachine, AtMachine, Quiet
<1>3. CASE SwitchLeaf /\ Record
  BY <1>3, NoHook, HistorySwitch DEF SwitchLeaf
<1>4. CASE DispatchHook /\ Record
  BY <1>4, HistoryHook
<1>5. CASE BootMachine /\ Record
  BY <1>5, NoHook, HistoryBoot DEF BootMachine, AtMachine, Quiet
<1>6. CASE ~BootMachine /\ UNCHANGED <<plan, activeLeaf, entryTime>>
  <2>1. entered' = entered
    BY <1>1, <1>6, NoHook
  <2>2. \A machine : Unbooted(machine)' <=> Unbooted(machine)
    BY <1>1, <1>6, BootingRests
  <2> QED BY <1>6, <2>1, <2>2, HistoryRests
<1>7. \/ TickMachine \/ SwitchLeaf \/ DispatchHook \/ BootMachine
      \/ UNCHANGED <<plan, activeLeaf, entryTime>>
  BY <1>1
  DEF Next, Internal, Drain, ExecuteStatement, ExecuteWait, StopDrainedTask, FinishBody,
      ResumeWaitingTask, ChargeEveryTask, FireEveryTask, LeaveEveryTask, StartLoopTask,
      OfferEventToTask, ChargeMachine, LeaveMachine, StartLifecycleTask, NextPhase,
      FlushPendingEffects, External, BeginTick, DispatchScriptEvent, StartTask, StopTask,
      SenseDevice, vars
<1>8. CASE ~Record
  <2>1. UNCHANGED vars /\ entered' = entered
    BY <1>1, <1>8
  <2>2. UNCHANGED <<plan, activeLeaf, entryTime, phase, cursor>>
    BY <2>1 DEF vars
  <2>3. \A machine : Unbooted(machine)' <=> Unbooted(machine)
    BY <2>2 DEF Unbooted
  <2> QED BY <2>1, <2>2, <2>3, HistoryRests
<1>9. CASE Record
  BY <1>2, <1>3, <1>4, <1>5, <1>6, <1>7, <1>9
<1> QED BY <1>8, <1>9

\* What the scripts were told, for every behaviour.
LEMMA PictureInvariant ==
  HistorySpec => [](IndInv /\ IdleIsQuiet /\ TransitionInvariant /\ HistoryInvariant)
<1>1. HistoryInit => Init
  BY DEF HistoryInit
<1>2. [HistoryNext]_<<vars, entered>> => [Next]_vars
  BY DEF HistoryNext
<1> QED BY <1>1, <1>2, HistoryStart, HistoryStep, RuntimeInvariant, PTL DEF HistorySpec, Spec

------------------------------------------------------------------------------
\* The theorems

\* Between two calls exactly the active states have been entered and not left,
\* and their clocks count from the moment their enter hook was performed.
THEOREM ScriptsSeeTheActiveStates == HistorySpec => []HooksMatchActiveStates
<1>1. IndInv /\ IdleIsQuiet /\ TransitionInvariant /\ HistoryInvariant => HooksMatchActiveStates
  <2> SUFFICES ASSUME IndInv, IdleIsQuiet, TransitionInvariant, HistoryInvariant, phase = "idle"
               PROVE  DOMAIN entered = ActiveStates
    BY DEF HooksMatchActiveStates, HistoryInvariant
  <2>1. plan = << >> /\ \A machine : ~Unbooted(machine)
    BY DEF IdleIsQuiet, Quiet, Unbooted
  <2>2. \A machine \in Machines : Depth(machine) = Len(activeLeaf[machine])
    BY <2>1 DEF Depth, PlanDepth
  <2> QED BY <2>2 DEF HistoryInvariant, ActiveStates, PrefixSet
<1> QED BY <1>1, PictureInvariant, PTL

\* At every moment, also in the middle of a transition, the states that enclose
\* an entered state are entered: no hook is skipped and none comes too early.
THEOREM HooksRespectNesting == HistorySpec => []EnteredStatesAreNested
<1>1. IndInv /\ TransitionInvariant /\ HistoryInvariant => EnteredStatesAreNested
  <2> SUFFICES ASSUME IndInv, TransitionInvariant, HistoryInvariant, NEW path \in DOMAIN entered,
                      NEW j \in 1..Len(path)
               PROVE  Ancestor(path, j) \in DOMAIN entered
    BY DEF EnteredStatesAreNested, PrefixSet
  <2>1. PICK machine \in Machines : \E n \in 1..Depth(machine) : path = Ancestor(activeLeaf[machine], n)
    BY DEF HistoryInvariant
  <2>2. PICK n \in 1..Depth(machine) : path = Ancestor(activeLeaf[machine], n)
    BY <2>1
  <2>3. PICK leaf \in LeavesOf(machine) : leaf = activeLeaf[machine]
    BY DEF TransitionInvariant
  <2>4. leaf \in Seq(STRING) /\ Len(leaf) \in Nat
    BY LeafPath
  <2>5. n \in 1..Len(leaf) /\ Depth(machine) \in Nat
    BY <2>3, <2>4 DEF HistoryInvariant
  <2>6. path \in Seq(STRING) /\ Len(path) = n /\ \A i \in 1..n : path[i] = leaf[i]
    BY <2>2, <2>3, <2>4, <2>5, AncestorPath
  <2>7. j \in 1..n /\ j \in 1..Len(leaf) /\ j \in 1..Depth(machine)
    BY <2>4, <2>5, <2>6
  <2>8. Ancestor(path, j) = Ancestor(leaf, j)
    BY <2>4, <2>6, <2>7 DEF Ancestor
  <2> QED BY <2>3, <2>7, <2>8 DEF HistoryInvariant
<1> QED BY <1>1, PictureInvariant, PTL

\* No state is entered twice without an exit between, and none is left that was
\* not entered.
THEOREM EnterAndExitAlternate == HistorySpec => HooksAlternate
<1>1. IndInv /\ TransitionInvariant /\ HistoryInvariant /\ [HistoryNext]_<<vars, entered>> =>
        [ /\ PerformedHook = "enter" => plan[1].path \notin DOMAIN entered
          /\ PerformedHook = "exit" => plan[1].path \in DOMAIN entered ]_<<vars, entered>>
  <2> SUFFICES ASSUME IndInv, TransitionInvariant, HistoryInvariant, HistoryNext,
                      PerformedHook \in {"enter", "exit"}
               PROVE  /\ PerformedHook = "enter" => plan[1].path \notin DOMAIN entered
                      /\ PerformedHook = "exit" => plan[1].path \in DOMAIN entered
    BY DEF HistoryNext
  <2> USE DEF taskVars, dataVars, machineVars, callVars, runVars
  <2>1. plan # << >> /\ plan' = Tail(plan) /\ PerformedHook = plan[1].hook
    BY DEF PerformedHook
  <2>2. plan' # plan
    BY <2>1, TailDiffers DEF IndInv, TypeOK
  <2>3. DispatchHook
    BY <2>1, <2>2
    DEF HistoryNext, Next, Internal, Drain, ExecuteStatement, ExecuteWait, StopDrainedTask,
        FinishBody, ResumeWaitingTask, ChargeEveryTask, FireEveryTask, LeaveEveryTask,
        StartLoopTask, OfferEventToTask, ChargeMachine, LeaveMachine, TickMachine, SwitchLeaf,
        StartLifecycleTask, BootMachine, NextPhase, FlushPendingEffects, External, BeginTick,
        DispatchScriptEvent, StartTask, StopTask, SenseDevice, AtMachine, Quiet
  <2> QED BY <2>1, <2>3, HooksFindTheState
<1> QED BY <1>1, PictureInvariant, PTL DEF HistorySpec, HooksAlternate

==============================================================================
