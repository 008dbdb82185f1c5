SPECIFICATION ScriptSpec
CONSTANTS
  Segments <- MCSegments
  Spelling <- MCSpelling
  line_length = 7
INVARIANTS
  TextIsReading
  ListsFromTheirHeads
  IndentationShowsNesting
  BrokenAsNeeded
  LineNumbersServe
PROPERTIES
  Termination
