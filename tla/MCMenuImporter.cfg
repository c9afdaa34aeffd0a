SPECIFICATION FairSpec
CONSTANTS
  a = a
  s = s
  b = b
  Root = Root
  None = None
  Ids = {a, s, b}
  Subs = {s}
  Home <- OneSubmenu
  Copies = {1, 2}
  MaxChanges = 2
  MaxOpens = 1
  MaxFailures = 1
INVARIANT TypeOK
INVARIANT NoDanglingAction
INVARIANT RootExact
PROPERTY RootSettles
CHECK_DEADLOCK FALSE
