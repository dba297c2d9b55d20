SPECIFICATION MCSpec
CONSTANTS
  m1 = m1
  m2 = m2
  m3 = m3
  m4 = m4
  m5 = m5
  t1 = t1
  t2 = t2
  Tables = {t1, t2}
  Messages = {m1, m2, m3, m4, m5}
  KindOf <- Kinds
  TableOf <- TwoTables
  Faulty = {m3}
  FeedCap = 2
  FeedLimit = 1
  MaxTime = 1
  MaxRestarts = 1
INVARIANTS TypeOK ToldRollsAreSaved NoDuplicateRows FeedAgreesWithState HistoryShowsToldRolls
SYMMETRY Twins
