CONSTANTS
  Chars <- AllChars
  Sources <- SomeSources
  Length = 4
  RawLength = 5
  MaxSeeks = 1
SPECIFICATION Spec
INVARIANTS LineTableExact RawKeepsText
CHECK_DEADLOCK FALSE
