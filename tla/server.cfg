SPECIFICATION FairSpec
CONSTANTS
  r1 = r1
  r2 = r2
  w1 = w1
  Requests = {r1, r2, w1}
  Sockets = {w1}
  MaxStarts = 3
INVARIANTS TypeOK ServesCompleteSchema NoHandlerMeetsClosedStore
PROPERTIES StopsWhenAsked
CHECK_DEADLOCK FALSE
