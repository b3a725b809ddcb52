SPECIFICATION Spec
CONSTANTS
  Tables <- MCTables
  MaxFixups = 4
  MaxRuns = 3
INVARIANTS RerunInv PatchedOnce CrcsMatch
CHECK_DEADLOCK FALSE
