CONSTANTS
  Users = {click1, click2, other}
  Clicks = {click1, click2}
  MaxAps = 2
SPECIFICATION PageFairSpec
INVARIANT NothingOverwritten
INVARIANT ListIsFresh
PROPERTY RefreshEnds
