CONSTANTS
  Bodies = {"seq", "strong", "heading", "listitem", "enumitem", "footnote"}
  Leaves = {"space", "phrase", "meta", "parbreak"}
  Wrapping = {"strong", "all"}
  Failing = {"strong"}
  Rewriting = {"label"}
  Removing = {"label"}
  Titles = {"t1", "t2"}
  MaxWrites = 4
  MaxDepth = 2
SPECIFICATION Spec
INVARIANTS WordsKept SpacesKept NestingIrrelevant WellGrouped TitleFromOuterScope
CHECK_DEADLOCK FALSE
