SPECIFICATION FairSpec
CONSTANTS
  r1 = r1  r2 = r2
  Requests <- MCApart
  UserOf <- MCPrefixUser
  TaskOf <- MCSameTask
  MaxNotices = 2
  Unlucky = {r1}
INVARIANTS TypeOK FreshReply
PROPERTIES NoticeWakesRequest
CHECK_DEADLOCK FALSE
