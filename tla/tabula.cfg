SPECIFICATION MCSpec
CONSTANTS
  m1 = m1
  m2 = m2
  m3 = m3
  m4 = m4
  in = in
  out = out
  p1 = p1
  t1 = t1
  t2 = t2
  Tables = {t1, t2}
  Messages = {m1, m2, m3, m4, in, out}
  KindOf <- Kinds
  TableOf <- TwoTables
  Faulty = {m3}
  FeedCap = 1
  FeedLimit = 1
  MaxTime = 1
  MaxRestarts = 0
  Players = {p1}
  TableOfPlayer <- AtT1
  JoinEvent <- Ins
  LeaveEvent <- Outs
INVARIANTS TabulaTypeOK CatchUp
PROPERTIES RollBookImplemented
SYMMETRY Twins
VIEW Seen
