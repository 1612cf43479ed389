CONSTANTS
  MaxInt = 3
  MaxDays = 2
  MaxClock = 47
  MaxRepeat = 4
  ApplyFunction <- Callback
  Families <- SomeFamilies
  SpanParts <- SomeSpanParts
  Elements <- SomeElements
  MethodCalls <- SomeMethodCalls
  RangeArgs <- SomeRangeArgs
  MaxLen = 3
  MaxStack = 3
  MaxOps = 1
SPECIFICATION Spec
INVARIANTS ArithmeticExact OrderAgrees SortedAndDeduped PiecesInOrder NoFailureHidden JoinIsFlat
CHECK_DEADLOCK FALSE
