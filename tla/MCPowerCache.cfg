SPECIFICATION FairSpec
CONSTANTS
  Props = {percentage, state}
  Calls = {c1, c2, c3}
  NoCall = NoCall
  MaxUpdates = 2
  MaxIncarnation = 2
  MaxFailures = 1
INVARIANT TypeOK
INVARIANT ExactWhenIdle
PROPERTY NeverGoesBack
PROPERTY EventuallyExact
CHECK_DEADLOCK FALSE
