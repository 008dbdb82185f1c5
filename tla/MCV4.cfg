SPECIFICATION Spec
CONSTANTS
  Version = 4
  NSegs = 1
  Size <- MCSize
  Images <- MCImages
  Names = {"function", "_empty_"}
  MaxSymbols = 2
INVARIANTS
  LinksDenoteTargets
