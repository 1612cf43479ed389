SPECIFICATION Spec
CONSTANTS
  Offsets = {0, 1, 2}
  Msgs = {m1, m2}
  MaxCalls = 4
  MaxLoops = 2
INVARIANTS
  EveryErrorCovered
  LoopsSeeFailure
PROPERTY
  RestatementsCollapse
CHECK_DEADLOCK FALSE
