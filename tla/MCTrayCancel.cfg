SPECIFICATION Spec
CONSTANTS
  i1 = i1
  i2 = i2
  w1 = w1
  w2 = w2
  p1 = p1
  p2 = p2
  p3 = p3
  name = name
  Items = {i1}
  Windows = {}
  Pids = {p1, p2, p3}
  ItemPid <- OneItem
  WindowPid <- NoWindows
  ItemName <- OneName
  NoName = NoName
  NoPid = NoPid
  NoHandler = NoHandler
  MaxSuffix = 3
  MaxRestarts = 0
  MaxNotices = 2
  MaxSweeps = 1
PROPERTY CancelledNotAdded
CHECK_DEADLOCK FALSE
