SPECIFICATION FairSpec
CONSTANTS
  m1 = m1  m2 = m2
  NoMaster = NoMaster
  Masters = {m1, m2}
  MaxTerms = 2
  MaxPuts = 2
  WarnCap = 1
INVARIANTS ElectorTypeOK AlertTypeOK LeaderFenced LeaderWillHear NotNotifiedTwice
PROPERTIES LeaderKeepsUp
CHECK_DEADLOCK FALSE
