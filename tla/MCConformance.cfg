SPECIFICATION ReplaySpec
CONSTANTS
  TaskOrder <- LampTaskOrder
  RunMode <- LampMode
  IntervalOf <- LampInterval
  Membership <- LampMembership
  Trigger <- LampTrigger
  EventOf <- LampEvent
  Body <- LampBody
  Events = {"pressed"}
  MachineOrder <- LampMachines
  TickIntervalOf <- LampTick
  InitialLeaf <- LampLeaf
  Nodes <- LampNodes
  InitialChild <- LampChild
  GlobalTransitions <- LampGlobal
  LocalTransitions <- LampLocal
  InitialVars <- LampVars
  InitialDevices <- LampDevices
  Sensed <- NoSensors
  TerminalEffects = {}
  Commanded = {}
  NoTask = NoTask
  Elapses = {1, 3, 4}
  StatementBudget = 5
  MaxTime = 12
INVARIANTS
  TracesAgree
  SchedulesAgree
  HostKeepsRunning
