SPECIFICATION Spec
CONSTANTS
  Lists <- MCLists
  BssEnd = 3
  RamEnd = 40
  Align = 2
  FlashBase = 100
  Gaps = {0}
  Bare = {{".bss"}}
  MaxFiles = 3
INVARIANTS LoadInv MemoryIntact SecListExact PointersLand
CHECK_DEADLOCK FALSE
