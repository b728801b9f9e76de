SPECIFICATION Spec
CONSTANTS
  a1 = a1  a2 = a2  a3 = a3  a4 = a4  s1 = s1
  n1 = n1  n2 = n2  e1 = e1  e2 = e2  p1 = p1  p2 = p2
  h1 = h1  d1 = d1  d2 = d2  d3 = d3
  w1 = w1  w2 = w2  k1 = k1
  Registrations = {a1, a2, a3, a4}
  Logins = {s1}
  NameOf <- MCName
  EmailOf <- MCEmail
  PasswordOf <- MCPassword
  Malformed = Malformed
  Names = {n1, n2}
  Emails = {e1, e2}
  Passwords = {p1, p2}
  NoUser = NoUser
  DBFails = TRUE
  Processes = {h1}
  IpOf <- MCIp
  Leases = {d1, d2, d3}
  NoLease = NoLease
  MaxMishaps = 4
  Workers = {w1, w2}
  NoWorker = NoWorker
  Partitions = {k1}
  InputCap = 1
  ErrorCap = 0
  MaxAlarms = 3
  MaxEntries = 2
  MaxStarts = 3
INVARIANTS
  AccountsTypeOK
  UniqueUsers
  TokenForOwnAccount
  RegisteredListed
  TransportTypeOK
  MessagePutOnce
PROPERTIES
  TheToldCanLogIn
  ListSettles
  DeafWorkersLeave
  ClaimsWorkedOff
  SchedulerFlows
CHECK_DEADLOCK FALSE
