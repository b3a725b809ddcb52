SPECIFICATION Spec
CONSTANTS
  Lists <- MCLists
  BssEnd = 3
  RamEnd = 40
  Align = 2
  FlashBase = 100
  Gaps = {0, 1}
  Bare = {}
  MaxFiles = 2
INVARIANT MemoryIntact
CHECK_DEADLOCK FALSE
