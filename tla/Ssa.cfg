CONSTANTS
  Vars = {1, 2}
  MaxStmts = 4
  MaxDepth = 2
  MaxSteps = 5
SPECIFICATION Spec
INVARIANTS BlocksConnected OperandsHoldVariables
CHECK_DEADLOCK FALSE
