SPECIFICATION FairSpec
CONSTANTS
  a1 = a1  a2 = a2  a3 = a3
  w1 = w1  w2 = w2  w3 = w3
  k1 = k1
  NoOwner = NoOwner
  Attempts <- MCAttempts
  Workers = {w1, w2, w3}
  Keys = {k1}
  KeyOf <- MCKeyOf
  WorkerOf <- MCWorkerOf
  Steady = {w1, w2}
INVARIANTS TypeOK MutualExclusion FencedMutex BusyHasRival
PROPERTIES KeyHandoff Released ImplementsLockService
CHECK_DEADLOCK FALSE
