CONSTANTS
  Identities <- SomeNames
  Idents <- SomeNames
  Functions <- SomeFunctions
  Spellings <- SomeSpellings
  Blocks <- SomeBlocks
  MaxWritten = 4
  MaxStages = 2
SPECIFICATION Spec
INVARIANTS ArriveOnceInOrder AcceptsWhatFits StagedAsOnce ErrorAtOffender
CHECK_DEADLOCK FALSE
