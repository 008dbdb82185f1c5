SPECIFICATION Spec
CONSTANTS
  Base = 8
  Sources <- MCSources
  Others <- MCOthers
  align4 = 16
INVARIANTS
  TypeOK
  WrittenIsRead
  VisitsAscend
  SegmentsDisjoint
PROPERTIES
  Termination
