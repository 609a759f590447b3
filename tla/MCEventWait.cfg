SPECIFICATION FairSpec
CONSTANTS
  TaskOrder <- BeaconTaskOrder
  RunMode <- BeaconMode
  IntervalOf <- BeaconInterval
  Membership <- BeaconMembership
  Trigger <- BeaconTrigger
  EventOf <- BeaconEvent
  Body <- BeaconBody
  Events = {"pressed", "tuned"}
  MachineOrder <- BeaconMachines
  TickIntervalOf <- BeaconTick
  InitialLeaf <- BeaconLeaf
  Nodes <- BeaconNodes
  InitialChild <- NoChild
  GlobalTransitions <- BeaconGlobal
  LocalTransitions <- BeaconLocal
  InitialVars <- BeaconVars
  InitialDevices <- BeaconDevices
  Sensed <- BeaconSensed
  TerminalEffects <- LedOn
  Commanded = {"report"}
  NoTask = NoTask
  Elapses = {1, 2}
  StatementBudget = 2
  MaxTime = 3
PROPERTY WaitingEventTasksResume
