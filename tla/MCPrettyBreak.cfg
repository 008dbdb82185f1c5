SPECIFICATION ScriptSpec
CONSTANTS
  Segments <- MCSegments
  Spelling <- MCSpelling
  line_length = 7
INVARIANTS
  BreaksLists
