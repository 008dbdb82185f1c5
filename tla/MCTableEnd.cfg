SPECIFICATION Spec
CONSTANTS
  Base = 8
  Sources <- EndSources
  Others = {}
  align4 = 16
INVARIANTS
  ReadsBack
