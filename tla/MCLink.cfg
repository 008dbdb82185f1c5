SPECIFICATION Spec
CONSTANTS
  Version = 3
  NSegs = 3
  Size <- MCSize
  Images <- MCImages
  Names = {"function", "x"}
  MaxSymbols = 1
INVARIANTS
  TypeOK
  LabelTable
  LinksDenoteTargets
  NamesFollowAddresses
PROPERTIES
  LabelsStay
  PointersAreKept
