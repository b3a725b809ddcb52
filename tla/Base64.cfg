SPECIFICATION Spec
CONSTANTS
  Caps = {4, 5, 6, 10}
  Bytes = {107, 156}
  MaxBytes = 7
INVARIANTS BInv Delivered InBounds
CHECK_DEADLOCK FALSE
