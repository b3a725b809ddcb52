SPECIFICATION Spec
CONSTANT MaxAction = 7
INVARIANT ExamplesAsDocumented
CHECK_DEADLOCK FALSE
