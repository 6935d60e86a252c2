SPECIFICATION FairSpec
CONSTANTS
  Keys = {k1, k2}
  Vals = {1, 2, 3, 4}
  NoVal = 0
  BadKeys = {}
  Falsy = {}
  Kinds = {"put"}
  BatchSize = 2
  MinRoom = 2
  IOErrors = FALSE
  Crashes = TRUE
  Closes = FALSE
  MaxOps = 4
  MaxNum = 6
INVARIANT RotatesOnce
INVARIANT ShouldNotHappen
PROPERTY TwoGenerations
PROPERTY AutoFlush
