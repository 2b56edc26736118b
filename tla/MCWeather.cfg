CONSTANTS
  Downloads = {d1, d2}
  MaxBody = 2
  MaxStarts = 2
SPECIFICATION FairSpec
INVARIANT OneChainPerStart
INVARIANT ReportIsWhole
PROPERTY GoesOn
PROPERTY WindsDown
