CONSTANTS
  Downloads = {d1}
  ImageLen = 5
  Chunk = 2
  MaxAnnouncements = 2
SPECIFICATION FairSpec
INVARIANT ActivatedIsWhole
PROPERTY Completes
