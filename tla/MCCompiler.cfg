SPECIFICATION Spec
CONSTANTS
  Meant <- MCMeant
  Openings <- MCOpenings
  Ambient <- NoAmbient
INVARIANTS
  ReadsAsMeant
  NothingIsLost
  LoopsAlwaysWait
  OneWriterPerVariable
  TemporariesAreAssigned
  StatesResolve
  ValuesHaveTheirKinds
CHECK_DEADLOCK FALSE
