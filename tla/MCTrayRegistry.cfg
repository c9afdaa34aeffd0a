SPECIFICATION FairSpec
CONSTANTS
  i1 = i1
  i2 = i2
  w1 = w1
  w2 = w2
  p1 = p1
  p2 = p2
  p3 = p3
  name = name
  Items = {i1, i2}
  Windows = {w1}
  Pids = {p1, p2}
  ItemPid <- OneOfEach
  WindowPid <- WindowOfFirst
  ItemName <- SameName
  NoName = NoName
  NoPid = NoPid
  NoHandler = NoHandler
  MaxSuffix = 3
  MaxRestarts = 1
  MaxNotices = 2
  MaxSweeps = 1
INVARIANT TypeOK
INVARIANT NoDoubleIcon
INVARIANT WidgetPerHandler
INVARIANT ItemNotForgotten
PROPERTY IconsKept
PROPERTY ItemShown
CHECK_DEADLOCK FALSE
