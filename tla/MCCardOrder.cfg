SPECIFICATION Spec
CONSTANTS
  Plugins = {a, b, c, d}
  None = None
  MaxMessages = 2
PROPERTY OrderMeetsSurface
CHECK_DEADLOCK FALSE
