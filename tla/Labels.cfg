CONSTANTS
  h1 = h1
  h2 = h2
  m1 = m1
  m2 = m2
  s1 = s1
  s2 = s2
  NoName = NoName
  Headings <- MCHeadings
  Metadata = {m1, m2}
  SourceNames <- MCNames
  Spans = {s1, s2}
SPECIFICATION Spec
SYMMETRY MCSymmetry
INVARIANTS NamesInStep UndefinedAreReported
CHECK_DEADLOCK FALSE
