SPECIFICATION Spec
CONSTANTS
  GprBackups <- MCGprs
  FprBackups <- MCFprs
  Programs <- MCPrograms
  Others <- MCOthers
INVARIANTS
  CompiledIsDecoded
  FrameReadsBack
  BlocksDivideCode
  DelaySlotsGrouped
