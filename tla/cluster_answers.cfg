SPECIFICATION FairSpec
CONSTANTS
  w1 = w1  w2 = w2  w3 = w3  t1 = t1  t2 = t2
  NoOwner = NoOwner
  Workers = {w1, w2}
  Tasks = {t1}
  Timed = {}
  Endless = {}
  EventCap = 3
  MaxSaves = 2
  MaxRemoves = 0
  MaxKills = 0
  Faults = {"crash", "txn"}
  MaxFaults = 1
  SlowRestart = TRUE
PROPERTIES SubmissionAnswered
CHECK_DEADLOCK FALSE
