SPECIFICATION MCSpec
CONSTANTS
  c1 = c1
  c2 = c2
  c3 = c3
  t1 = t1
  t2 = t2
  u1 = u1
  u2 = u2
  m1 = m1
  m2 = m2
  None = None
  Tables = {t1, t2}
  Users = {u1, u2}
  Clients = {c1, c2, c3}
  Messages = {}
  TableOf <- TwoTables
  UserOf <- OneUser
  SenderOf <- FromC1
  SendCap = 1
  BroadcastCap = 1
  RedisOutcomes = {"applied", "lost"}
  MaxRestarts = 0
INVARIANTS UserRoomListed
PROPERTIES PresenceImplemented
SYMMETRY Twins
CHECK_DEADLOCK FALSE
