SPECIFICATION ReplaySpec
CONSTANTS
  TaskOrder <- MarkTaskOrder
  RunMode <- MarkMode
  IntervalOf <- MarkInterval
  Membership <- MarkMembership
  Trigger <- MarkTrigger
  EventOf <- MarkEvent
  Body <- MarkBody
  Events = {"pressed"}
  MachineOrder <- MarkMachines
  TickIntervalOf <- MarkTick
  InitialLeaf <- MarkLeaf
  Nodes <- MarkNodes
  InitialChild <- NoChild
  GlobalTransitions <- MarkGlobal
  LocalTransitions <- MarkLocal
  InitialVars <- MarkVars
  InitialDevices <- MarkDevices
  Sensed <- NoSensors
  TerminalEffects = {}
  Commanded = {}
  NoTask = NoTask
  Elapses = {1}
  StatementBudget = 5
  MaxTime = 3
INVARIANTS
  TracesAgree

