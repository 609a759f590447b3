----------------------------- MODULE MCConformance -----------------------------
(***************************************************************************)
(* Two programs for Conformance.  Lamp stays within what both runtimes do  *)
(* alike: no enter task, no invalid wait, no division by zero, and the     *)
(* elapsed attribute only of an initial state that is left once.  Mark is  *)
(* the fixture semantics-state-enter-lifecycle.sc of the repository, its   *)
(* 100 ms written as 1.                                                    *)
(***************************************************************************)
EXTENDS Conformance, TLC

Number(n) == [kind |-> "integer", value |-> n]
Variable(name) == [kind |-> "var", name |-> name]
Sensor(device) == [kind |-> "read", device |-> device]
Since(path) == [kind |-> "elapsed", path |-> path]
Over(n, name) == [kind |-> "quotient", of |-> n, by |-> name]
IsAtLeast(expr, n) == [left |-> expr, operator |-> ">=", right |-> n]
Is(expr, n) == [left |-> expr, operator |-> "==", right |-> n]
On(condition, path) == [target |-> path, when |-> condition]
Do(device, expr) == [kind |-> "do", device |-> device, value |-> expr]
Set(name, expr) == [kind |-> "set", name |-> name, value |-> expr]
Wait(n) == [kind |-> "wait", duration |-> Number(n)]
If(condition, then, otherwise) ==
  [kind |-> "if", when |-> condition, then |-> then, otherwise |-> otherwise]

------------------------------------------------------------------------------
(* Lamp *)

Off == <<"lamp", "Off">>
Lit == <<"lamp", "Lit">>
Dim == <<"lamp", "Lit", "Dim">>
Full == <<"lamp", "Lit", "Full">>
Cold == <<"power", "Cold">>
Warm == <<"power", "Warm">>
Level == Variable("level")

LampNodes == {Off, Lit, Dim, Full, Cold, Warm}
LampChild == Lit :> Dim
LampMachines == << "lamp", "power" >>
LampTick == [lamp |-> 2, power |-> 3]
LampLeaf == [lamp |-> Off, power |-> Cold]
LampGlobal == [lamp |-> << On(Is(Level, 3), Off) >>, power |-> << >>]
LampLocal ==
  [node \in LampNodes |->
     CASE node = Off -> << On(Is(Level, 0), Lit) >>
       [] node = Lit -> << On(IsAtLeast(Level, 1), Dim) >>
       [] node = Dim -> << On(Is(Level, 1), Full) >>
       [] node = Full -> << On(Is(Level, 2), Dim) >>
       [] node = Cold -> << On(IsAtLeast(Since(Cold), 3), Warm) >>
       [] OTHER -> << >>]

LampTaskOrder == << "blink", "gauge", "chase", "press", "leaveFull", "leaveLit" >>
LampTasks == {LampTaskOrder[i] : i \in 1..Len(LampTaskOrder)}
LampMode ==
  [blink |-> "every", gauge |-> "every", chase |-> "loop", press |-> "on_event",
   leaveFull |-> "on_event", leaveLit |-> "on_event"]
LampInterval == [task \in LampTasks |-> CASE task = "blink" -> 2 [] task = "gauge" -> 3 [] OTHER -> 0]
LampMembership ==
  [task \in LampTasks |->
     CASE task \in {"blink", "chase", "leaveLit"} -> Lit
       [] task = "leaveFull" -> Full [] task = "gauge" -> Warm [] OTHER -> NoPath]
LampTrigger ==
  [task \in LampTasks |-> CASE task = "press" -> "device_event"
                            [] task \in {"leaveFull", "leaveLit"} -> "state_exit"
                            [] OTHER -> "none"]
LampEvent == [task \in LampTasks |-> "pressed"]
LampBody ==
  [blink |-> << If(Is(Level, 1), Do("led", Number(1)), Do("led", Number(0))), Wait(3),
                Do("led", Number(0)) >>,
   gauge |-> << Set("rate", Over(-3, "step")), Do("display", Variable("rate")),
                Do("pwm", Sensor("adc")) >>,
   chase |-> << Set("level", Number(1)), Wait(2), Set("rate", Level) >>,
   press |-> << If(Is(Level, 1), Set("level", Number(2)), Set("level", Number(3))) >>,
   leaveFull |-> << Set("rate", Sensor("adc")) >>,
   leaveLit |-> << Set("level", Number(0)) >>]
LampVars == [level |-> 0, rate |-> 0, step |-> 2]
LampDevices == [led |-> 0, display |-> 0, pwm |-> 0, adc |-> 512]

------------------------------------------------------------------------------
(* Mark *)

MarkNodes == {<<"sm", "A">>, <<"sm", "B">>}
MarkMachines == << "sm" >>
MarkTick == [sm |-> 1]
MarkLeaf == [sm |-> <<"sm", "A">>]
MarkGlobal == [sm |-> << >>]
MarkLocal ==
  [node \in MarkNodes |->
     IF node = <<"sm", "A">> THEN << On(IsAtLeast(Number(1), 1), <<"sm", "B">>) >> ELSE << >>]
MarkTaskOrder == << "mark" >>
MarkMode == [mark |-> "on_event"]
MarkInterval == [mark |-> 0]
MarkMembership == [mark |-> <<"sm", "B">>]
MarkTrigger == [mark |-> "state_enter"]
MarkEvent == [mark |-> "none"]
MarkBody == [mark |-> << Set("flag", Number(1)) >>]
MarkVars == [flag |-> 0]
MarkDevices == [led |-> 0, display |-> 0]
NoChild == << >>
NoSensors == << >>

------------------------------------------------------------------------------

\* Both programs are among those that ConformanceProofs is about, and Lamp among
\* those that run alike.
ASSUME ProgramsFitTheInterpreter ==
  /\ LoopsWait /\ EventTasksNeverWait /\ DivisorsAreNotZero
  /\ TaskOrder = LampTaskOrder => RunsAlike

==============================================================================
