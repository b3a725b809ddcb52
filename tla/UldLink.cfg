SPECIFICATION Spec
CONSTANTS
  f = f
  x = x
  y = y
  sec = sec
  Symbols <- MCSymbols
  Kind <- MCKind
  ObjSize <- MCObjSize
  PoolStart = 6
  Lists <- MCLists
INVARIANTS LinkInv FuncsLinked DataShared FailureJustified CleanLink
CHECK_DEADLOCK FALSE
