SPECIFICATION HistorySpec
CONSTANTS
  TaskOrder <- RoverTaskOrder
  RunMode <- RoverMode
  IntervalOf <- RoverInterval
  Membership <- RoverMembership
  Trigger <- RoverTrigger
  EventOf <- RoverEvent
  Body <- RoverBody
  Events = {"pressed"}
  MachineOrder <- RoverMachines
  TickIntervalOf <- RoverTick
  InitialLeaf <- RoverLeaf
  Nodes <- RoverNodes
  InitialChild <- RoverChild
  GlobalTransitions <- RoverGlobal
  LocalTransitions <- RoverLocal
  InitialVars <- RoverVars
  InitialDevices <- RoverDevices
  Sensed <- RoverSensed
  TerminalEffects <- LedOn
  Commanded = {"blink"}
  NoTask = NoTask
  Elapses = {0, 1, 3}
  StatementBudget = 5
  MaxTime = 8
INVARIANTS
  TypeOK
  BodiesRunInTheirState
  LifecycleTasksFindTheirState
  EnterTasksReadZeroElapsed
  SchedulesDoNotDrift
  EnclosingStatesAreOlder
  HooksMatchActiveStates
  EnteredStatesAreNested
PROPERTIES
  SharedStatesKeepTheirClock
  HooksAlternate
