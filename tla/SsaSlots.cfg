CONSTANTS
  Vars = {1, 2}
  MaxStmts = 3
  MaxDepth = 2
  MaxSteps = 4
SPECIFICATION Spec
INVARIANT SlotsHoldVariables
CHECK_DEADLOCK FALSE
