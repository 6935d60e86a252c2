SPECIFICATION Spec
CONSTANTS
  Keys = {k1, k2}
  Vals = {1, 2, 3, 4}
  NoVal = 0
  BadKeys = {k2}
  Falsy = {}
  Kinds = {"put", "del"}
  BatchSize = 2
  MinRoom = 1
  IOErrors = TRUE
  Crashes = TRUE
  Closes = TRUE
  MaxOps = 4
  MaxNum = 4
INVARIANT TypeOK
INVARIANT PairIsNewest
INVARIANT NeverOlder
