CONSTANTS
  Documents = {TRUE, FALSE}
  Libraries = {TRUE}
  MaxCallDepth = 3
  Work = 2
  MaxNest = 6
  MaxNodes = 2
SPECIFICATION Spec
INVARIANTS StackMirrorsCalls ExportsAreWhole
PROPERTIES KeepsPromise CancelEndsRun
CHECK_DEADLOCK FALSE
