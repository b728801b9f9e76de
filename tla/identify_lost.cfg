SPECIFICATION FairSpec
CONSTANTS
  r1 = r1  r2 = r2
  Requests <- MCApart
  UserOf <- MCApartUser
  TaskOf <- MCSameTask
  MaxNotices = 2
  Unlucky = {}
PROPERTIES RequestAnswered
CHECK_DEADLOCK FALSE
