-------------------------- MODULE MCSimulationRuntime --------------------------
(***************************************************************************)
(* Small programs for SimulationRuntime.  Rover: a composite state with    *)
(* two children, lifecycle tasks on every level, an every task and a loop  *)
(* bound to the composite, transitions on the machine, on a leaf and on    *)
(* the enclosing state.                                                    *)
(***************************************************************************)
EXTENDS SimulationRuntime, TLC

Int0(n) == [kind |-> "integer", value |-> n]
VarExpr(name) == [kind |-> "var", name |-> name]
Read(device) == [kind |-> "read", device |-> device]
ElapsedOf(path) == [kind |-> "elapsed", path |-> path]
DividedBy(n, name) == [kind |-> "quotient", of |-> n, by |-> name]
AtLeast(expr, n) == [left |-> expr, operator |-> ">=", right |-> n]
Equals(expr, n) == [left |-> expr, operator |-> "==", right |-> n]
To(path, condition) == [target |-> path, when |-> condition]
Do(device, expr) == [kind |-> "do", device |-> device, value |-> expr]
Set(name, expr) == [kind |-> "set", name |-> name, value |-> expr]
Wait(expr) == [kind |-> "wait", duration |-> expr]
If(condition, then, otherwise) ==
  [kind |-> "if", when |-> condition, then |-> then, otherwise |-> otherwise]

------------------------------------------------------------------------------
(* Rover *)

Idle == <<"rover", "Idle">>
Manual == <<"rover", "Manual">>
Stop == <<"rover", "Manual", "Stop">>
Forward == <<"rover", "Manual", "Forward">>

RoverNodes == {Idle, Manual, Stop, Forward}
RoverMachines == <<"rover">>
RoverTick == [rover |-> 2]
RoverLeaf == [rover |-> Idle]
RoverChild == Manual :> Stop
RoverGlobal == [rover |-> << To(Idle, AtLeast(Read("button"), 1)) >>]
RoverLocal ==
  [node \in RoverNodes |->
     CASE node = Idle -> << To(Manual, AtLeast(ElapsedOf(Idle), 2)) >>
       [] node = Stop -> << To(Forward, Equals(VarExpr("armed"), 1)) >>
       [] node = Forward -> << To(Forward, Equals(VarExpr("armed"), 2)),
                               To(Stop, AtLeast(ElapsedOf(Forward), 2)) >>
       [] node = Manual -> << To(Idle, AtLeast(ElapsedOf(Manual), 5)) >>]

RoverTaskOrder ==
  <<"blink", "beat", "arm", "press", "enterManual", "exitManual", "enterStop", "exitForward">>
RoverTasks == {RoverTaskOrder[i] : i \in 1..Len(RoverTaskOrder)}
RoverMode ==
  [task \in RoverTasks |-> CASE task \in {"blink", "beat"} -> "every"
                              [] task = "arm" -> "loop"
                              [] OTHER -> "on_event"]
RoverInterval == [task \in RoverTasks |-> CASE task = "blink" -> 2 [] task = "beat" -> 4 [] OTHER -> 0]
RoverMembership ==
  [task \in RoverTasks |->
     CASE task = "blink" -> Manual [] task = "arm" -> Manual
       [] task = "enterManual" -> Manual [] task = "exitManual" -> Manual
       [] task = "enterStop" -> Stop [] task = "exitForward" -> Forward
       [] OTHER -> NoPath]
RoverTrigger ==
  [task \in RoverTasks |->
     CASE task \in {"enterManual", "enterStop"} -> "state_enter"
       [] task \in {"exitManual", "exitForward"} -> "state_exit"
       [] task = "press" -> "device_event"
       [] OTHER -> "none"]
RoverEvent == [task \in RoverTasks |-> "pressed"]
RoverBody ==
  [task \in RoverTasks |->
     CASE task = "blink" -> << Do("led", Int0(1)), Wait(Int0(3)), Do("led", Int0(0)) >>
       [] task = "arm" -> << Set("armed", Int0(1)), Wait(Int0(2)) >>
       [] task = "press" -> << If(AtLeast(Read("led"), 1), Set("armed", Int0(2)),
                                  Set("armed", Int0(0))) >>
       [] task = "enterManual" -> << Set("armed", ElapsedOf(Manual)) >>
       [] task = "enterStop" -> << Do("led", Int0(0)) >>
       [] task = "beat" -> << Do("led", VarExpr("armed")) >>
       [] OTHER -> << Set("armed", Int0(0)) >>]
RoverVars == [armed |-> 0]
RoverDevices == [led |-> 0, button |-> 0]
LedOn == {[device |-> "led", value |-> 1]}
RoverSensed == [button |-> {0, 1}]

------------------------------------------------------------------------------
(* Beacon: every wait this program performs is decided at run time by the  *)
(* variable "period", which the event task sets to 0 (an invalid wait) or  *)
(* 1; "busy" exceeds the statement budget after its wait, if its state is  *)
(* active by then; "pulse" waits in an event task.  "gate" has tick        *)
(* interval 0, which the compiler accepts; "door" ticks more than once in  *)
(* one call of tick.                                                       *)

Closed == <<"gate", "Closed">>
Open == <<"gate", "Open">>
Shut == <<"door", "Shut">>
Ajar == <<"door", "Ajar">>

BeaconNodes == {Closed, Open, Shut, Ajar}
BeaconMachines == <<"gate", "door">>
BeaconTick == [gate |-> 0, door |-> 1]
BeaconLeaf == [gate |-> Closed, door |-> Shut]
BeaconGlobal == [gate |-> << To(Open, AtLeast(Int0(1), 1)) >>, door |-> << >>]
BeaconLocal ==
  [node \in BeaconNodes |->
     CASE node = Shut -> << To(Ajar, AtLeast(ElapsedOf(Shut), 1)) >>
       [] node = Ajar -> << To(Shut, Equals(Read("button"), 0)) >>
       [] OTHER -> << >>]

BeaconTaskOrder == <<"report", "busy", "pulse", "tune", "chime">>
BeaconTasks == {BeaconTaskOrder[i] : i \in 1..Len(BeaconTaskOrder)}
BeaconMode ==
  [report |-> "every", busy |-> "loop", pulse |-> "on_event", tune |-> "on_event",
   chime |-> "on_event"]
BeaconInterval == [task \in BeaconTasks |-> IF task = "report" THEN 1 ELSE 0]
BeaconMembership ==
  [task \in BeaconTasks |-> IF task \in {"busy", "chime"} THEN Ajar ELSE NoPath]
BeaconTrigger ==
  [report |-> "none", busy |-> "none", pulse |-> "device_event",
   tune |-> "device_event", chime |-> "state_enter"]
BeaconEvent == [task \in BeaconTasks |-> IF task = "tune" THEN "tuned" ELSE "pressed"]
BeaconBody ==
  [report |-> << Set("rate", DividedBy(1, "period")), Wait(VarExpr("period")),
                 Do("led", VarExpr("rate")) >>,
   busy |-> << Do("led", Int0(1)), Wait(Int0(2)), Do("led", Int0(0)),
               Set("rate", Read("button")), Set("rate", Int0(0)) >>,
   pulse |-> << Do("led", Int0(1)), Wait(Int0(1)), Do("led", Int0(0)) >>,
   tune |-> << Set("period", Read("button")) >>,
   chime |-> << Do("led", Int0(0)) >>]
BeaconVars == [period |-> 1, rate |-> 0]
BeaconDevices == [led |-> 0, button |-> 1]
BeaconSensed == [button |-> {0, 1}]
NoChild == << >>

==============================================================================
