SPECIFICATION FairSpec
CONSTANTS
  a = a
  b = b
  c = c
  d = d
  Files = {a, b, c, d}
  Size <- MCSize
  FlashLen <- MCFlashLen
  InitBase <- MCInitBase
  NoRofixup = {c}
  FilesBase = 2
  FilesSize = 14
  Align = 2
  MaxResets = 4
INVARIANTS RelocInv ImagesIntact NeverTrapped CrcFresh FreeSpaceComplete
PROPERTIES ReachesExec
CHECK_DEADLOCK FALSE
