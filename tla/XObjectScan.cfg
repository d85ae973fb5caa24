SPECIFICATION Spec
CONSTANTS
  Threads = {t1, t2}
  Objects = {a, b}
  Conns = {c1}
  MaxDepth = 1
  OwnAnswers = {TRUE}
  Ops = {"ADDING", "MODIFYING", "DELETING", "SCANNING"}
INVARIANTS ScannedObjectInPlace
