SPECIFICATION FairSpec
CONSTANTS
  Keys = {k1}
  Vals = {v1}
  NoVal = NoVal
  Envs = {e1, e2}
  NoEnv = NoEnv
  BadKeys = {}
  Kinds = {"put"}
  BatchSizes = {0, 1}
  BatchSize0 = 3
  TxnEnvs = {}
  CloseEnvs = {}
  IOErrors = FALSE
  Crashes = TRUE
  MaxOps = 3
INVARIANT QueueBounded
PROPERTY LastIsFlushed
