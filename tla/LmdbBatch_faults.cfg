SPECIFICATION Spec
CONSTANTS
  Keys = {k1, k2, k3}
  Vals = {v1, v2}
  NoVal = NoVal
  Envs = {e1}
  NoEnv = NoEnv
  BadKeys = {k3}
  Kinds = {"put", "del"}
  BatchSizes = {0, 2, 300}
  BatchSize0 = 3
  TxnEnvs = {e1}
  CloseEnvs = {e1}
  IOErrors = TRUE
  Crashes = TRUE
  MaxOps = 3
SYMMETRY Symmetry
INVARIANT Conservation
INVARIANT MutexReleased
INVARIANT DirtyIsPrefix
PROPERTY AtomicBatches
