SPECIFICATION FairSpec
CONSTANTS
  l1 = l1  l2 = l2  l3 = l3  l4 = l4
  b1 = b1  b2 = b2  b3 = b3  b4 = b4
  Logs = {l1, l2, l3, l4}
  Batches = {b1, b2, b3, b4}
  BatchSize = 2
  LogCap = 2
  Nil = Nil
INVARIANTS TypeOK StoredOnce NoLogForgotten WaitingBatchCovered
PROPERTIES EventuallySunk
CHECK_DEADLOCK FALSE
