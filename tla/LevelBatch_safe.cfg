SPECIFICATION Spec
CONSTANTS
  Keys = {k1}
  Vals = {v1}
  NoVal = NoVal
  Dbs = {d1, d2}
  NoDb = NoDb
  BatchSizes = {0}
  BatchSize0 = 2
  IOErrors = TRUE
  Crashes = TRUE
  MaxOps = 2
SYMMETRY Symmetry
INVARIANT CountExact
INVARIANT Conservation
