SPECIFICATION Spec
CONSTANTS
  Table <- MCTable
  File <- MCFile
  Programs <- MCPrograms
  BssEnd = 3
  Align = 2
  MaxFiles = 3
INVARIANTS InitInv FailuresSeen MemoryKept WordsFound GdbRight
