SPECIFICATION Spec
CONSTANTS
  Keys = {1, 2, 3, 4}
  Cursors = {c1, c2}
SYMMETRY CursorSymmetry
INVARIANTS
  Placed
  InPage
  LoopExact
  FreedOnce
PROPERTIES
  MovesToNeighbour
CHECK_DEADLOCK FALSE
