SPECIFICATION FairSpec
CONSTANTS
  Plugins = {a, b, c, d}
  None = None
  MaxMessages = 2
INVARIANT TypeOK
INVARIANT CardHasSurface
INVARIANT CardExact
INVARIANT OrderComes
PROPERTY SurfaceKept
PROPERTY CardFollowsMode
PROPERTY CardOrdered
CHECK_DEADLOCK FALSE
