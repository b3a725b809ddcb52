SPECIFICATION FairSpec
CONSTANTS
  Calls <- MCCalls
  Bits = 8
  PadChunk = 3
  MaxCount = 4
  Wait = 1
  Retries = 5
INVARIANTS StdioInv PrintsAsC ResultTells
CHECK_DEADLOCK FALSE
PROPERTY Returns
