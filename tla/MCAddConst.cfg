SPECIFICATION Spec
CONSTANTS
  Scripts <- MCScripts
  TypedNames <- MCTypedNames
  TypedBodies <- MCTypedBodies
  CompileAgainst <- MCCompileAgainst
  CompileTyped <- CompileDoLines
  InitialNames <- MCInitialNames
  AssignedBy <- Assigned
  DevicesIn <- DevicesOf
  VariablesIn <- VariablesOf
  PathsIn <- PathsOf
  RefNames <- MCRefNames
  VarNames <- MCVarNames
  ConstNames <- MCConstNames
  Devices <- MCDevices
  Paths <- MCPaths
INVARIANT FreshScriptsAreAccepted
