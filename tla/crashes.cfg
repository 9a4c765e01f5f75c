SPECIFICATION Spec
CONSTANTS
  t1 = t1
  t2 = t2
  a1 = a1
  a2 = a2
  a3 = a3
  nobody = nobody
  Txn = {t1, t2}
  Addr = {a1, a2, a3}
  InitRows = {a1}
  Nobody = nobody
  MaxStages = 1
  MaxKills = 1
  MaxLosses = 1
SYMMETRY Symmetry
INVARIANTS NoOrphanLocks
PROPERTIES CrashesSpareTheRest
