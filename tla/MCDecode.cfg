SPECIFICATION Spec
CONSTANTS
  Words <- MCWords
  WordId <- MCWordId
INVARIANTS
  TypeOK
  AcceptedIsPrinted
  ReferencesAreOperands
  TextTellsWord
