SPECIFICATION Spec
CONSTANTS
  r1 = r1  r2 = r2
  Requests <- MCApart
  UserOf <- MCPrefixUser
  TaskOf <- MCSameTask
  MaxNotices = 2
  Unlucky = {}
INVARIANTS OwnFreshReply
CHECK_DEADLOCK FALSE
