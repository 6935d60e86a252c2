SPECIFICATION FairSpec
CONSTANTS
  Keys = {k1, k2}
  Vals = {v1, v2}
  NoVal = NoVal
  Envs = {e1}
  NoEnv = NoEnv
  BadKeys = {}
  Kinds = {"put", "del"}
  BatchSizes = {}
  BatchSize0 = 2
  TxnEnvs = {}
  CloseEnvs = {}
  IOErrors = FALSE
  Crashes = FALSE
  MaxOps = 2
PROPERTY AutoFlush
CHECK_DEADLOCK FALSE
