SPECIFICATION Spec
CONSTANTS
  w1 = w1  w2 = w2  w3 = w3  t1 = t1  t2 = t2
  NoOwner = NoOwner
  Workers = {w1, w2}
  Tasks = {t1}
  Timed = {}
  Endless = {}
  EventCap = 3
  MaxSaves = 2
  MaxRemoves = 1
  MaxKills = 1
  Faults = {}
  MaxFaults = 0
  SlowRestart = TRUE
SYMMETRY Symmetric
INVARIANTS TypeOK TableGuards EveryWinReported
CHECK_DEADLOCK FALSE
