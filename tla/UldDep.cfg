SPECIFICATION FairSpec
CONSTANTS
  Missing = Missing
  Files = {a, b, c}
  MaxNeeded = 2
  StackDepth = 4
  Stores <- MCStores
  BadDynstr <- OneMayBeBad
INVARIANTS WInv DepsFirst CountSuffices ErrorIffBroken
PROPERTIES RefinesLoadOrder Terminates
CHECK_DEADLOCK FALSE
