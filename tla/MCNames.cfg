SPECIFICATION Spec
CONSTANTS
  NObjs = 2
  Inputs <- MCInputs
  Names <- MCNames
  Functions <- MCFunctions
INVARIANTS
  TypeOK
  TypesAreKnown
  NamedAfterStores
PROPERTIES
  KnowledgeStays
