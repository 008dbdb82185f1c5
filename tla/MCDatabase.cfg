SPECIFICATION ReaderSpec
CONSTANTS
  a = a
  b = b
  code = code
  twin = twin
  data = data
  empty = empty
  DgoList <- MCDgos
  Names = {a, b}
  Contents = {code, twin, data, empty}
  Size <- MCSize
  Hash <- MCHash
  Segments <- MCSegments
  HasFunctions <- MCHasFunctions
  Configs <- MCConfigs
  MaxObjs = 3
  MAX_CHUNK_SIZE = 8
  header_size = 5
  Packings <- MCPackings
INVARIANTS
  ReaderTypeOK
  ArchivesAreRead
  TablesConsistent
  PassesInOrder
  OutputComplete
PROPERTIES
  ImplementsUniqueObjects
