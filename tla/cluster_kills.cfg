SPECIFICATION FairSpec
CONSTANTS
  w1 = w1  w2 = w2  w3 = w3  t1 = t1  t2 = t2
  NoOwner = NoOwner
  Workers = {w1, w2}
  Tasks = {t1}
  Timed = {}
  Endless = {t1}
  EventCap = 3
  MaxSaves = 2
  MaxRemoves = 0
  MaxKills = 1
  Faults = {"lease"}
  MaxFaults = 1
  SlowRestart = TRUE
PROPERTIES OverlapNeedsLostLease KilledStops
CHECK_DEADLOCK FALSE
