CONSTANTS
  MaxInt = 7
  MaxRepeat = 4
  MaxDays = 1
  MaxClock = 25
  MaxCallDepth = 2
  Depth = 2
  Fuel = 4
  Universe <- SomeUniverse
  Themes <- SomeThemes
SPECIFICATION Spec
INVARIANTS RunsAsWritten ErrorsAsWritten DefinedBeforeUse
