SPECIFICATION Spec
CONSTANTS
  Words <- MCWords
  WordId <- MCWordId
INVARIANTS
  OperandsAreShown
