SPECIFICATION Spec
CONSTANTS
  Sinks = {s1, s2}
  None = None
  Dangling = Dangling
  MaxMessages = 2
  MaxStarts = 2
SYMMETRY Symmetry
INVARIANT TypeOK
INVARIANT ConnectedIsMonitor
INVARIANT StateExact
CHECK_DEADLOCK FALSE
