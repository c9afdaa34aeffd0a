SPECIFICATION FairSpec
CONSTANTS
  v = v
  Windows = {v}
  MaxBirths = 2
  a = a
  b = b
  Images = {a, b}
  NoImage = NoImage
  NoIcon = NoIcon
  NoHandler = NoHandler
INVARIANT TypeOK
INVARIANT IconBacked
INVARIANT OwnedIsCurrent
INVARIANT ShapeRecorded
INVARIANT IconFresh
INVARIANT GhostLeaves
PROPERTY NoGhost
CHECK_DEADLOCK FALSE
