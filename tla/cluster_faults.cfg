SPECIFICATION Spec
CONSTANTS
  w1 = w1  w2 = w2  w3 = w3  t1 = t1  t2 = t2
  NoOwner = NoOwner
  Workers = {w1, w2}
  Tasks = {t1}
  Timed = {t1}
  Endless = {}
  EventCap = 2
  MaxSaves = 1
  MaxRemoves = 0
  MaxKills = 0
  Faults = {"crash", "txn", "revoke", "notify"}
  MaxFaults = 2
  SlowRestart = FALSE
INVARIANTS MutualExclusion
PROPERTIES ImplementsLockService
CHECK_DEADLOCK FALSE
