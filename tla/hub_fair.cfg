SPECIFICATION FairSpec
CONSTANTS
  c1 = c1
  c2 = c2
  c3 = c3
  t1 = t1
  t2 = t2
  u1 = u1
  u2 = u2
  m1 = m1
  m2 = m2
  None = None
  Tables = {t1}
  Users = {u1}
  Clients = {c1, c2}
  Messages = {m1}
  TableOf <- OneTable
  UserOf <- OneUser
  SenderOf <- FromC1
  SendCap = 1
  BroadcastCap = 2
  RedisOutcomes = {"applied"}
  MaxRestarts = 0
PROPERTIES EndedConnectionsLeave EventsGetThrough
CHECK_DEADLOCK FALSE
