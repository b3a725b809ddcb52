SPECIFICATION Spec
CONSTANTS
  Addr <- MCAddr
  Byte <- MCByte
  Caller = 176
  CallerArgv = 192
  ArgLens = {0, 1, 7, 8}
  MaxArgs = 3
  MaxLen = 8
  SpBases = {0, 72, 104, 129, 136, 144, 177, 184, 192, 216, 255, 256}
INVARIANTS EntryInv CallerRestored MoveExact
CHECK_DEADLOCK FALSE
