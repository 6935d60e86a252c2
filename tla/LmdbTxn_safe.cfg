SPECIFICATION Spec
CONSTANTS
  Keys = {k1}
  Vals = {v1, v2}
  NoVal = NoVal
  Txns = {t1, t2}
  NoTxn = NoTxn
  Modes = {"ro", "rw"}
  IOErrors = TRUE
  MaxCommits = 4
SYMMETRY Symmetry
INVARIANT MutexOwned
INVARIANT SlotOwned
INVARIANT SnapshotIntact
INVARIANT NoLostUpdate
INVARIANT ReadCommitted
CHECK_DEADLOCK FALSE
