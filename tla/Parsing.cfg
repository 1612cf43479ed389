CONSTANTS
  Corners <- SomeCorners
SPECIFICATION Spec
INVARIANTS ParserEnds TreeTilesSource DelimitersPair OperatorsNest EffortBounded
CHECK_DEADLOCK FALSE
