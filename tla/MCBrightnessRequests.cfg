SPECIFICATION Spec
CONSTANTS
  Threads = 2
  MaxRequests = 3
INVARIANT OneCallAtATime
CHECK_DEADLOCK FALSE
