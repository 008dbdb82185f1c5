SPECIFICATION Spec
CONSTANTS
  Version = 3
  NSegs = 3
  Size <- MCSize
  Images <- MCImages
  Names = {"function"}
  MaxSymbols = 1
INVARIANTS
  FunctionsTileCode
  InsnsDenoteTargets
PROPERTIES
  ImplementsCrossReferences
  Termination
