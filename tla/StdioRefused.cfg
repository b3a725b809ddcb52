SPECIFICATION Spec
CONSTANTS
  Calls <- MCCalls
  Bits = 8
  PadChunk = 3
  MaxCount = 4
  Wait = 1
  Retries = 5
INVARIANT RefusalsRetried
CHECK_DEADLOCK FALSE
