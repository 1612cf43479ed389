CONSTANTS
  NoKey = NoKey
  NoVal = NoVal
  Keys = {k1, k2, k3}
  Vals = {v1}
  MaxElems = 2
  MaxLoops = 1
  MaxVisits = 2
SPECIFICATION Spec
SYMMETRY KeySymmetry
INVARIANTS DictLoopsBounded GrowingDictLoops GrowingArrayLoops
PROPERTY KeepsInsertionOrder
CHECK_DEADLOCK FALSE
